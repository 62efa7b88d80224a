---------------------------- MODULE MCHandshake -----------------------------
(* Two instances that may each start.                                       *)
EXTENDS Handshake, TLC

CONSTANTS i1, i2
MCSymmetry == Permutations({i1, i2})
=============================================================================
