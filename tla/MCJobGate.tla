----------------------------- MODULE MCJobGate -----------------------------
(* Three workers, a type capped at 2, one at 1 and one with a cap of 0.     *)
EXTENDS JobGate

CONSTANTS video, gif, text, w1, w2, w3

MCTypeConcurrency == [t \in {video, gif, text} |->
                        IF t = video THEN 2 ELSE IF t = gif THEN 1 ELSE 0]
=============================================================================
