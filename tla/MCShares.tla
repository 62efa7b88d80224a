------------------------------ MODULE MCShares ------------------------------
(* Two processes, a share that expires and one that does not.               *)
EXTENDS Shares, TLC

CONSTANTS p1, p2, s1, s2
=============================================================================
