--------------------------- MODULE FederationWire ---------------------------
(* What the two halves of federation share: the requests under way between  *)
(* a delivery worker and a peer's inbox, and the budget of things that go   *)
(* wrong.  A request is a record                                            *)
(*   from     the worker that waits for it, NULL when none does any more    *)
(*   peer     the peer it is addressed to                                   *)
(*   solo     one envelope to the inbox endpoint, not a batch               *)
(*   rows     <<row, attempts>> as listed, in the order of its envelopes    *)
(*   noted    the replay cache has noted the next envelope, it is not stored *)
(*   answers  the answers so far: stored, replayed, rejected, error         *)
EXTENDS Integers, Sequences, FiniteSets

CONSTANTS
  NULL,            \* no worker
  MaxMishaps       \* bound: faults and operator interventions

ASSUME WireAssumption == MaxMishaps \in Nat

VARIABLES
  calls,       \* requests under way
  mishaps      \* faults and interventions so far

\* A fault or an operator's intervention.
Mishap == mishaps < MaxMishaps /\ mishaps' = mishaps + 1

Answered(q) == Len(q.answers) = Len(q.rows)
Progress(q, new) == calls' = (calls \ {q}) \cup {new}
=============================================================================
