------------------------------- MODULE MCBtt -------------------------------
(* Btt for TLC: two lanes on an arena of four blocks.  Both lanes write;   *)
(* the lanes differ in nothing but their number, so reads on one and the   *)
(* other operations on the other are enough.  The blocks are alike too:    *)
(* the flags are set on one of them.                                       *)
EXTENDS BttDevice

MCKinds == [n \in 0 .. 1 |->
              IF n = 0 THEN {"read", "write"} \X {0, 1}
                       ELSE {<<"write", 0>>, <<"write", 1>>,
                             <<"zero", 0>>, <<"error", 0>>}]
=============================================================================
