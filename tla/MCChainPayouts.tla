---------------------------- MODULE MCChainPayouts ----------------------------
(* Two overlapping runs whose workers die and whose transactions are dropped; *)
(* one run at a time over transactions that revert; and both together.        *)
EXTENDS ChainPayouts

CONSTANTS r1, r2

Overlapping == [runs |-> {r1, r2}, faults |-> {"crash", "drop"}, sends |-> 3]
Serial == [runs |-> {r1}, faults |-> {"revert"}, sends |-> 6]
MCScenes == {Overlapping, Serial}

RevertingScenes == {[runs |-> {r1, r2}, faults |-> {"revert"}, sends |-> 3]}
================================================================================
