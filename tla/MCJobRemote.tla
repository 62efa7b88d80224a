---------------------------- MODULE MCJobRemote ----------------------------
(* Two external clients, with ids of their own or both named after the      *)
(* account they share, and two rows.                                        *)
EXTENDS JobRemote

CONSTANTS j1, j2, w1, w2, id1, id2, render

MCOwnIds == [w \in Workers |-> IF w = w1 THEN id1 ELSE id2]
MCAccountId == [w \in Workers |-> id1]
MCJobType == [j \in Jobs |-> render]
MCPriority == [j \in Jobs |-> 100]
MCMaxAttempts == [j \in Jobs |-> IF j = j1 THEN 2 ELSE 1]
MCIdempotencyKey == [j \in Jobs |-> NULL]
=============================================================================
