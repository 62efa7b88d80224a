----------------------------- MODULE LeasedWork -----------------------------
(***************************************************************************)
(* What the jobs package promises its producers (app/internal/jobs/jobs.go,*)
(* package comment): work is handed to one agent at a time, on a lease.    *)
(* An agent whose lease is gone may still be at it, and another may have   *)
(* the work already; but only the agent it was handed to last decides what *)
(* becomes of it, it is handed out a bounded number of times, and what is  *)
(* done stays done.                                                        *)
(*                                                                         *)
(* There are no tables, locks, slots, heartbeats or clocks here: JobPool   *)
(* implements this specification with them (ImplementsLeasedWork).         *)
(***************************************************************************)
EXTENDS Integers

CONSTANTS Units, Agents, NoOne,
          Budget    \* how often a unit may be handed out

VARIABLES
  place,    \* "nowhere", "waiting", "held", "done", "dead", "gone"
  tenant,   \* the agent that knows of the latest hand-out of each unit
  taken,    \* hand-outs of each unit since it was offered or reopened
  doing     \* the unit each agent works on, rightly or not

workVars == <<place, tenant, taken, doing>>

Init ==
  /\ place = [u \in Units |-> "nowhere"]
  /\ tenant = [u \in Units |-> NoOne]
  /\ taken = [u \in Units |-> 0]
  /\ doing = [a \in Agents |-> NoOne]

Moves(u, from, to) ==
  /\ place[u] \in from
  /\ place' = [place EXCEPT ![u] = to]

Offer(u) ==
  /\ Moves(u, {"nowhere"}, "waiting")
  /\ UNCHANGED <<tenant, taken, doing>>

HandOut(u, to) ==
  /\ Moves(u, {"waiting"}, "held")
  /\ taken[u] < Budget[u]
  /\ taken' = [taken EXCEPT ![u] = @ + 1]
  /\ tenant' = [tenant EXCEPT ![u] = to]

Take(a, u) ==
  /\ doing[a] = NoOne
  /\ HandOut(u, a)
  /\ doing' = [doing EXCEPT ![a] = u]

\* The unit was handed out and nobody knows.
TakeUnheard(u) ==
  /\ HandOut(u, NoOne)
  /\ UNCHANGED doing

\* The agent the unit was handed to last decides what becomes of it.
Settle(a, u, verdict) ==
  /\ doing[a] = u /\ tenant[u] = a
  /\ Moves(u, {"held"}, verdict)
  /\ doing' = [doing EXCEPT ![a] = NoOne]
  /\ UNCHANGED <<tenant, taken>>

\* An agent stops without a say; all of them, if their process dies.
Drop(S) ==
  /\ doing' = [a \in Agents |-> IF a \in S THEN NoOne ELSE doing[a]]
  /\ UNCHANGED <<place, tenant, taken>>

\* Leases expire: whoever held the units is not asked.
Evict(S) ==
  /\ \A u \in S : place[u] = "held"
  /\ place' = [u \in Units |-> IF u \in S THEN "waiting" ELSE place[u]]
  /\ UNCHANGED <<tenant, taken, doing>>

Cancel(u) ==
  /\ Moves(u, {"waiting", "dead"}, "dead")
  /\ UNCHANGED <<tenant, taken, doing>>

Reopen(u) ==
  /\ Moves(u, {"dead"}, "waiting")
  /\ taken' = [taken EXCEPT ![u] = 0]
  /\ UNCHANGED <<tenant, doing>>

Forget(u) ==
  /\ Moves(u, {"done"}, "gone")
  /\ UNCHANGED <<tenant, taken, doing>>

Next ==
  \/ \E u \in Units : \/ Offer(u) \/ TakeUnheard(u)
                      \/ Cancel(u) \/ Reopen(u) \/ Forget(u)
  \/ \E a \in Agents, u \in Units :
       \/ Take(a, u)
       \/ \E verdict \in {"waiting", "done", "dead"} : Settle(a, u, verdict)
  \/ \E S \in SUBSET Agents : Drop(S)
  \/ \E S \in SUBSET Units : Evict(S)

Spec == Init /\ [][Next]_workVars
=============================================================================
