---------------------------- MODULE AtomicUpdate ----------------------------
(***************************************************************************)
(* What an operation context of libpmemobj promises to its callers: it     *)
(* "collects all of the required memory modifications that need to happen  *)
(* in an atomic way (all of them or none)" (memops.c).  A batch of word    *)
(* updates takes effect in one step or not at all, whatever crashes and    *)
(* recoveries happen in between.                                           *)
(***************************************************************************)
EXTENDS WordOps

CONSTANT Updates    \* the updates callers submit

VARIABLES
    image,          \* the contents of the words
    target,         \* the contents the open batch asks for
    open            \* a batch is being collected or carried out

avars == <<image, target, open>>

AInit == /\ image = [w \in Words |-> {}]
         /\ target = image
         /\ open = FALSE

Start == /\ ~open
         /\ open' = TRUE
         /\ target' = image
         /\ UNCHANGED image

Update(u) == /\ open
             /\ target' = [target EXCEPT ![u.off] = Effect(u, target[u.off])]
             /\ UNCHANGED <<image, open>>

\* The whole batch takes effect in one step.
Commit == /\ open
          /\ image' = target
          /\ open' = FALSE
          /\ UNCHANGED target

\* The batch is cancelled, or a crash came before it took effect.
Drop == /\ open
        /\ open' = FALSE
        /\ UNCHANGED <<image, target>>

ANext == Start \/ (\E u \in Updates : Update(u)) \/ Commit \/ Drop

ASpec == AInit /\ [][ANext]_avars
=============================================================================
