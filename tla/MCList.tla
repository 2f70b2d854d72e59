------------------------------- MODULE MCList -------------------------------
EXTENDS List
CONSTANTS o1, o2, o3, t1, t2
\* Lists 1 and 2 use the same entry of an object, list 3 another one.
MCHeads == 1..3
MCOffset == <<0, 0, 1>>
MCUses == <<{o1, o2, o3}, {o1, o2}, {o2}>>
MCMay(t, c) ==
    IF t = t1 THEN c.head = 1
    ELSE c.kind = "move" /\ c.old = 1 /\ c.head # 1 /\ c.dest = Null /\ c.before
=============================================================================
