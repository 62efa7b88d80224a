------------------------------ MODULE JobGate ------------------------------
(***************************************************************************)
(* The per-type concurrency gate of the in-process worker pool             *)
(* (app/internal/jobs/worker.go: Worker.claimScope, Pool.tryReserve,       *)
(* releaseReserved, release).                                              *)
(*                                                                         *)
(* A worker cannot know which type its claim will return, so it reserves a *)
(* slot on every type it may claim, hands back all but one when the claim  *)
(* resolves and keeps that one while the job runs.  Each operation holds   *)
(* Pool.typeRunningMu throughout and is one action; the claim and the run  *)
(* happen between them, with other workers' operations interleaved.        *)
(***************************************************************************)
EXTENDS Integers, FiniteSets

CONSTANTS
  Workers,         \* the goroutines of one Pool
  Types,           \* every job type a row may have
  Registered,      \* the types with a registered handler
  PoolTypes,       \* Pool.Types: what the workers are restricted to, {} if nil
  TypeConcurrency, \* the configured caps, a function on some of the types
  NULL

ASSUME JobGateAssumption ==
  /\ IsFiniteSet(Workers)
  /\ Registered \subseteq Types /\ Registered # {}
  /\ PoolTypes \subseteq Types
  /\ DOMAIN TypeConcurrency \subseteq Types
  /\ \A t \in DOMAIN TypeConcurrency : TypeConcurrency[t] \in Int
  /\ NULL \notin Types

VARIABLES
  stage,        \* where each worker is in Run: "idle", "claiming", "running"
  reserved,     \* claimTypes: the scope its claim may return, {} if any type
  runType,      \* the type of the job it is running
  held,         \* whether it keeps a reservation for that type
  typeRunning   \* Pool.typeRunning

gateVars == <<stage, reserved, runType, held, typeRunning>>

\* capFor: a missing entry, a zero and a negative all mean uncapped.
Capped(t) == t \in DOMAIN TypeConcurrency /\ TypeConcurrency[t] > 0

HasCaps == DOMAIN TypeConcurrency # {}

\* claimScope: the types the worker would like to claim, {} for any type.
Candidates == IF PoolTypes # {} THEN PoolTypes
              ELSE IF HasCaps THEN Registered ELSE {}

\* Mutant: the cap is compared with <=.
HasRoomPastCap(t) == ~Capped(t) \/ typeRunning[t] <= TypeConcurrency[t]

HasRoom(t) == ~Capped(t) \/ typeRunning[t] < TypeConcurrency[t]

\* Mutant: handing back skips neither uncapped types nor zero.
HandedBackUnchecked(types) ==
  [t \in Types |-> IF t \in types THEN typeRunning[t] - 1 ELSE typeRunning[t]]

\* The counters after one slot is handed back on each of the given types.
HandedBack(types) ==
  [t \in Types |-> IF t \in types /\ Capped(t) /\ typeRunning[t] > 0
                   THEN typeRunning[t] - 1 ELSE typeRunning[t]]

-----------------------------------------------------------------------------
Init ==
  /\ stage = [w \in Workers |-> "idle"]
  /\ reserved = [w \in Workers |-> {}]
  /\ runType = [w \in Workers |-> NULL]
  /\ held = [w \in Workers |-> FALSE]
  /\ typeRunning = [t \in Types |-> 0]

\* claimScope and tryReserve; a saturated worker backs off and stays idle.
ClaimScope(w) ==
  LET eligible == {t \in Candidates : HasRoom(t)} IN
  /\ stage[w] = "idle"
  /\ Candidates # {} => eligible # {}
  /\ typeRunning' = [t \in Types |-> IF t \in eligible /\ Capped(t)
                                     THEN typeRunning[t] + 1 ELSE typeRunning[t]]
  /\ reserved' = [reserved EXCEPT ![w] = eligible]
  /\ stage' = [stage EXCEPT ![w] = "claiming"]
  /\ UNCHANGED <<runType, held>>

\* Mutant: an empty claim forgets its reservations.
ClaimNothingKeepsSlots(w) ==
  /\ stage[w] = "claiming"
  /\ reserved' = [reserved EXCEPT ![w] = {}]
  /\ stage' = [stage EXCEPT ![w] = "idle"]
  /\ UNCHANGED <<runType, held, typeRunning>>

\* The claim failed or found nothing: releaseReserved(claimTypes, "").
ClaimNothing(w) ==
  /\ stage[w] = "claiming"
  /\ typeRunning' = HandedBack(reserved[w])
  /\ reserved' = [reserved EXCEPT ![w] = {}]
  /\ stage' = [stage EXCEPT ![w] = "idle"]
  /\ UNCHANGED <<runType, held>>

\* The claim returned a job of type t: releaseReserved(claimTypes, t).
ClaimJob(w, t) ==
  /\ stage[w] = "claiming"
  /\ reserved[w] # {} => t \in reserved[w]
  /\ typeRunning' = HandedBack(reserved[w] \ {t})
  /\ held' = [held EXCEPT ![w] = t \in reserved[w] /\ Capped(t)]
  /\ runType' = [runType EXCEPT ![w] = t]
  /\ reserved' = [reserved EXCEPT ![w] = {}]
  /\ stage' = [stage EXCEPT ![w] = "running"]

\* Mutant: the slot is not released when the run ends.
RunEndsKeepsSlot(w) ==
  /\ stage[w] = "running"
  /\ held' = [held EXCEPT ![w] = FALSE]
  /\ runType' = [runType EXCEPT ![w] = NULL]
  /\ stage' = [stage EXCEPT ![w] = "idle"]
  /\ UNCHANGED <<reserved, typeRunning>>

\* runOne returned: release(job.Type) if a reservation was kept.
RunEnds(w) ==
  /\ stage[w] = "running"
  /\ typeRunning' = IF held[w] THEN HandedBack({runType[w]}) ELSE typeRunning
  /\ held' = [held EXCEPT ![w] = FALSE]
  /\ runType' = [runType EXCEPT ![w] = NULL]
  /\ stage' = [stage EXCEPT ![w] = "idle"]
  /\ UNCHANGED reserved

Next == \E w \in Workers :
          \/ ClaimScope(w)
          \/ ClaimNothing(w)
          \/ \E t \in Types : ClaimJob(w, t)
          \/ RunEnds(w)

\* A claim is bounded by its ten second context, and handlers return.
Fairness ==
  \A w \in Workers : /\ WF_gateVars(ClaimNothing(w) \/ \E t \in Types : ClaimJob(w, t))
                     /\ WF_gateVars(RunEnds(w))

Spec == Init /\ [][Next]_gateVars /\ Fairness

-----------------------------------------------------------------------------
TypeOK ==
  /\ stage \in [Workers -> {"idle", "claiming", "running"}]
  /\ reserved \in [Workers -> SUBSET Types]
  /\ runType \in [Workers -> Types \cup {NULL}]
  /\ held \in [Workers -> BOOLEAN]
  /\ typeRunning \in [Types -> Nat]

Reserving(t) == {w \in Workers : t \in reserved[w]}
Holding(t) == {w \in Workers : held[w] /\ runType[w] = t}
RunningNow(t) == {w \in Workers : runType[w] = t}

\* No more jobs of a capped type run at once than its cap, however the polls
\* of the workers interleave (#777: the check and the increment were apart).
CapRespected ==
  \A t \in Types : Capped(t) => Cardinality(RunningNow(t)) <= TypeConcurrency[t]

\* The counter is exactly the slots somebody will hand back: none leaks, so a
\* type never wedges at its cap, and none is handed back twice.
CounterExact ==
  \A t \in Types :
    Capped(t) => typeRunning[t] = Cardinality(Reserving(t)) + Cardinality(Holding(t))

\* A capped type always has room again: no interleaving of polls that reserve
\* and give back keeps it full for ever.
NeverWedged == \A t \in Types : Capped(t) => []<>HasRoom(t)
=============================================================================
