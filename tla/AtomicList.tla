----------------------------- MODULE AtomicList -----------------------------
(***************************************************************************)
(* What the non-transactional lists of libpmemobj promise                  *)
(* (pmemobj_list_insert(3)): a call that succeeds changed the lists and    *)
(* the set of allocated objects as asked, in one step and once; a call     *)
(* that fails, or that the end of the program interrupts before that step, *)
(* changed nothing.                                                        *)
(***************************************************************************)
EXTENDS Naturals, SequencesExt

CONSTANTS
    Threads,
    Heads,          \* the lists
    Null            \* OID_NULL

VARIABLES
    lists,          \* the objects of each list, in order
    live,           \* the allocated objects
    status,         \* of the call of each thread: none, pending, done or failed
    calls           \* what each thread asks for; the caller's

lvars == <<lists, live, status>>

\* The sequence s with o at the place dest and before name: next to dest, or
\* at the head or the tail if there is no dest.
Placed(s, o, dest, before) ==
    LET ref == IF dest # Null THEN SelectInSeq(s, LAMBDA x : x = dest)
               ELSE IF before THEN 1 ELSE Len(s)
    IN  InsertAt(s, IF before THEN ref ELSE ref + 1, o)

LInit == /\ lists = [h \in Heads |-> <<>>]
         /\ live = {}
         /\ status = [t \in Threads |-> "none"]

Insert(c) ==
    /\ lists' = [lists EXCEPT ![c.head] = Placed(@, c.oid, c.dest, c.before)]
    /\ live' = IF c.kind = "new" THEN live \cup {c.oid} ELSE live

Take(c) ==
    /\ lists' = [lists EXCEPT ![c.head] = Remove(@, c.oid)]
    /\ live' = IF c.kind = "free" THEN live \ {c.oid} ELSE live

\* Next to itself an object stays where it is; without a destination it goes
\* to an end of the list, or stays there.
Move(c) ==
    /\ lists' = IF c.dest = c.oid THEN lists
                ELSE LET without == [lists EXCEPT ![c.old] = Remove(@, c.oid)]
                     IN  [without EXCEPT ![c.head] = Placed(@, c.oid, c.dest, c.before)]
    /\ UNCHANGED live

Do(c) == CASE c.kind \in {"insert", "new"}  -> Insert(c)
           [] c.kind \in {"remove", "free"} -> Take(c)
           [] c.kind = "move"               -> Move(c)

\* A call begins, or its result is returned.
Outside(t) ==
    /\ \/ status[t] = "none" /\ status' = [status EXCEPT ![t] = "pending"]
       \/ status[t] \in {"done", "failed"} /\ status' = [status EXCEPT ![t] = "none"]
    /\ UNCHANGED <<lists, live>>

Succeed(t) ==
    /\ status[t] = "pending" /\ status' = [status EXCEPT ![t] = "done"]
    /\ Do(calls[t])

Fail(t) ==
    /\ status[t] = "pending" /\ status' = [status EXCEPT ![t] = "failed"]
    /\ UNCHANGED <<lists, live>>

End == /\ status' = [t \in Threads |-> "none"]
       /\ UNCHANGED <<lists, live>>

LNext == \/ \E t \in Threads : Outside(t) \/ Succeed(t) \/ Fail(t)
         \/ End

LSpec == LInit /\ [][LNext]_lvars
=============================================================================
