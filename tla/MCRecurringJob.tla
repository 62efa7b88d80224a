--------------------------- MODULE MCRecurringJob ---------------------------
(* Two workers.  The nightly jobs wake at the multiples of 2; the reaper    *)
(* wakes an interval of 2 from now, or now when its batch was full.         *)
EXTENDS RecurringJob

CONSTANTS w1, w2, id1, id2

MCWorkerId == [w \in {w1, w2} |-> IF w = w1 THEN id1 ELSE id2]
MCWakeHour == [t \in Times |-> {2 * ((t \div 2) + 1)}]
MCInterval == [t \in Times |-> {t + 2}]
MCFullBatch == [t \in Times |-> {t, t + 2}]
=============================================================================
