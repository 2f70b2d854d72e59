----------------------------- MODULE MCPmemLog ------------------------------
(* PmemLog for TLC: three bytes of log, and appends of none to three.      *)
EXTENDS PmemLog
MCIovs == {[data |-> <<>>, ends |-> {}], [data |-> <<1>>, ends |-> {1}],
           [data |-> <<2, 3, 2>>, ends |-> {1, 3}]}
=============================================================================
