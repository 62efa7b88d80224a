---------------------------- MODULE MCReceiving -----------------------------
(* A batch of a like and a comment, and a retry of the comment.             *)
EXTENDS Receiving, TLC

CONSTANTS p, u1, r1, r2

Request(rows, solo) ==
  [from |-> NULL, peer |-> p, solo |-> solo, noted |-> FALSE, answers |-> <<>>,
   rows |-> [i \in DOMAIN rows |-> <<rows[i], 0>>]]

MCRequests == {Request(<<<<1, p, u1>>, <<2, p, u1>>>>, FALSE),
               Request(<<<<2, p, u1>>>>, TRUE)}
MCCopies == {<<p, 1>>, <<p, 2>>}
MCReaders == {<<p, r1>>, <<p, r2>>}
MCSymmetry == Permutations({r1, r2})
=============================================================================
