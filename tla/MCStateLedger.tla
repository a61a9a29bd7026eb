---------------------------- MODULE MCStateLedger ----------------------------
(* Instances of StateLedger for TLC: two or three writers, in one process  *)
(* or in two, that append single entries and a drain of two.               *)
EXTENDS StateLedger

CONSTANTS w1, w2, w3, p1, p2, k1, k2, k3

OneProcess == [w \in Writers |-> p1]
TwoProcesses == [w \in Writers |-> IF w = w1 THEN p1 ELSE p2]

SomeBatches == {<<k1>>, <<k2>>, <<k2, k3>>}
=============================================================================
