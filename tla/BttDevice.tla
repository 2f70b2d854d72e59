----------------------------- MODULE BttDevice -----------------------------
(***************************************************************************)
(* libpmemblk as a block device: Btt is shown to implement BlockDevice.    *)
(***************************************************************************)
EXTENDS Btt

(* The refinement.  A read takes effect when it sees a flagged entry or    *)
(* sees its entry a second time; the others when the map entry becomes     *)
(* visible or, if the power fails after the flog was written, at the       *)
(* failure: recovery will complete the exchange.                           *)

ContentOf(e) == CASE ZeroOrInitial(e) -> Zero
                  [] e.st = "error" -> Error
                  [] OTHER -> data[e.blk]

Disk == [l \in Lba |->
            IF ~info THEN Zero
            ELSE IF phase = "up" \/ Recovered(l) = Norm(l, map[l])
                   THEN ContentOf(map[l])
                   ELSE ContentOf(Recovered(l))]

Applied(n) ==
    \/ pc[n] \in {"return", "block", "clear", "unlock"}
    \/ pc[n] = "check" /\ loc[n].entry.st # "normal"
    \/ pc[n] = "set" /\ AlreadyZero(n)

ReadValue(n) == CASE pc[n] \in {"check", "block"} -> ContentOf(loc[n].entry)
                  [] OTHER -> loc[n].val

OpOf(n) ==
    [kind |-> loc[n].kind, lba |-> loc[n].lba,
     val |-> CASE loc[n].kind = "write" -> loc[n].val
               [] loc[n].kind = "read" /\ Applied(n) -> ReadValue(n)
               [] OTHER -> Zero,
     was |-> IF loc[n].kind \in {"zero", "error"} /\ pc[n] = "unlock"
               THEN ContentOf(loc[n].entry) ELSE Zero,
     st |-> IF Applied(n) THEN "applied" ELSE "started"]

Device == INSTANCE BlockDevice
            WITH disk <- Disk, up <- (phase = "up"),
                 op <- [n \in Lanes |-> IF pc[n] = "idle" THEN [kind |-> "idle"] ELSE OpOf(n)]

(* libpmemblk implements the atomic block device: a read returns the       *)
(* contents some write, set_zero or set_error gave the block at a moment   *)
(* between its call and its return, never a mixture; after a crash every   *)
(* block holds its old contents or those of a write in flight, and what a  *)
(* write returned from, or a read returned of a write, is never lost.      *)
ImplementsBlockDevice == Device!Spec
=============================================================================
