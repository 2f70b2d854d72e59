----------------------------- MODULE AtomicLog ------------------------------
(***************************************************************************)
(* What libpmemlog promises of a log pool (pmemlog_append(3),              *)
(* pmemlog_tell(3)): an append adds all of its data at the end or none of  *)
(* it, a rewind empties the log, nothing else changes it, and a program    *)
(* failure or a system crash at most decides whether a call that had not   *)
(* returned took effect.                                                   *)
(***************************************************************************)
EXTENDS Naturals, Sequences

CONSTANTS
    Threads,
    Capacity        \* pmemlog_nbyte

VARIABLES
    log,            \* the bytes of the log
    status,         \* of the call of each thread: none, pending, done or failed
    calls           \* what each thread asks for; the caller's

lvars == <<log, status>>

LInit == log = <<>> /\ status = [t \in Threads |-> "none"]

\* The log after the call c.
After(c) == CASE c.kind = "append" -> log \o c.data
              [] c.kind = "rewind" -> <<>>
              [] OTHER             -> log

Outside(t) ==
    /\ \/ status[t] = "none" /\ status' = [status EXCEPT ![t] = "pending"]
       \/ status[t] \in {"done", "failed"} /\ status' = [status EXCEPT ![t] = "none"]
    /\ UNCHANGED log

Succeed(t) ==
    /\ status[t] = "pending" /\ status' = [status EXCEPT ![t] = "done"]
    /\ Len(After(calls[t])) <= Capacity
    /\ log' = After(calls[t])

Fail(t) ==
    /\ status[t] = "pending" /\ status' = [status EXCEPT ![t] = "failed"]
    /\ UNCHANGED log

\* The program ends, with at most one call that took effect unreported.
End ==
    /\ status' = [t \in Threads |-> "none"]
    /\ \/ UNCHANGED log
       \/ \E t \in Threads : status[t] = "pending" /\ log' = After(calls[t])

LNext == \/ \E t \in Threads : Outside(t) \/ Succeed(t) \/ Fail(t)
         \/ End

LSpec == LInit /\ [][LNext]_lvars
=============================================================================
