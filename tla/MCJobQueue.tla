---------------------------- MODULE MCJobQueue ----------------------------
(* A small instance of JobQueue: three rows, two of which share a key.      *)
EXTENDS JobQueue

CONSTANTS j1, j2, j3, w1, w2, id1, id2, key, preview, digest

MCWorkerId == [w \in {w1, w2} |-> IF w = w1 THEN id1 ELSE id2]
MCJobType == [j \in {j1, j2, j3} |-> IF j = j3 THEN digest ELSE preview]
MCPriority == [j \in {j1, j2, j3} |-> IF j = j2 THEN 50 ELSE 100]
MCMaxAttempts == [j \in {j1, j2, j3} |-> IF j = j1 THEN 2 ELSE 1]
MCIdempotencyKey == [j \in {j1, j2, j3} |-> IF j = j3 THEN NULL ELSE key]
=============================================================================
