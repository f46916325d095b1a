---------------------------- MODULE MCHotConnect ----------------------------
(* Three nodes in a row, b - a - c, all at distance 0 from each other: a   *)
(* has one normal slot for both of its neighbours, and one extra slot.     *)
EXTENDS HotConnect

CONSTANTS a, b, c

MCNode == {a, b, c}
MCLink == {{a, b}, {a, c}}
MCLeaves == {b, c}
MCScore == [n \in Node |-> IF n = c THEN 3 ELSE 1]
\* a does not know its address and no connection opens again, or it does and one may.
MCSetups == {[learner |-> {a}, opened |-> 1], [learner |-> {}, opened |-> 0]}
MCLearner == {[learner |-> {a}, opened |-> 0]}
MCSame == [x \in Node \X BOOLEAN \X Node |-> 0]
\* Until a has learnt its own address, c is in another slot than b.
MCSplit == [x \in Node \X BOOLEAN \X Node |-> IF x = <<a, FALSE, c>> THEN 1 ELSE 0]
=============================================================================
