---------------------------- MODULE MCFederation ----------------------------
(* A comment on an object shared with two users of one peer, and an         *)
(* activity about it after it was made sensitive, for a peer one cannot     *)
(* encrypt to; or the comment only, for more that goes wrong.               *)
EXTENDS Federation

CONSTANTS o, p, u1, u2, d1, w1

MCRows == {<<1, p, u1>>, <<1, p, u2>>, <<2, p, u1>>, <<2, p, u2>>}
MCObjectOf == [a \in Activities |-> o]
MCVisibility == [a \in Activities |-> "explicit-share"]
MCCopies == {<<p, 1>>, <<p, 2>>}
MCComment == {<<1, p, u1>>, <<1, p, u2>>}
MCCopy == {<<p, 1>>}
MCReader == {<<p, 1>>}
=============================================================================
