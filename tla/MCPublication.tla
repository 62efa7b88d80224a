--------------------------- MODULE MCPublication ---------------------------
(* Action 1 unpublishes, for an operator; 2 and 3 are the author's.         *)
EXTENDS Publication, TLC

CONSTANTS r1, r2, p1, p2
=============================================================================
