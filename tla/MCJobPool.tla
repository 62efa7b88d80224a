----------------------------- MODULE MCJobPool -----------------------------
(* Two workers of one pool and two rows, one of a type with one slot and    *)
(* one of an uncapped type, on which a worker that lost its lease and the   *)
(* worker that took the row over run side by side.                          *)
EXTENDS JobPool, TLC

CONSTANTS j1, j2, w1, w2, video, text

\* A worker's id is as good as the worker, so they are interchangeable.
MCWorkerId == [w \in {w1, w2} |-> w]
MCSymmetry == Permutations({w1, w2})

MCFreeType == [j \in {j1, j2} |-> text]
MCMixedType == [j \in {j1, j2} |-> IF j = j1 THEN video ELSE text]
MCPriority == [j \in {j1, j2} |-> IF j = j1 THEN 100 ELSE 50]
MCMaxAttempts == [j \in {j1, j2} |-> IF j = j1 THEN 2 ELSE 1]
MCTwoAttempts == [j \in {j1, j2} |-> 2]
MCIdempotencyKey == [j \in {j1, j2} |-> NULL]
MCTypeConcurrency == [t \in {video} |-> 1]
=============================================================================
