--------------------------- MODULE MCRequestQueue ---------------------------
(* Two queues of different capacity over four nodes.                       *)
EXTENDS RequestQueue, TLC

CONSTANTS small, large, n1, n2, n3, n4

MCQueues == {small, large}
MCNodes == {n1, n2, n3, n4}
MCSymmetry == Permutations(MCNodes)
MCCapacity == [q \in MCQueues |-> IF q = small THEN 2 ELSE 3]
=============================================================================
