---------------------------- MODULE JobGateProofs ----------------------------
(***************************************************************************)
(* The per-type caps hold, and no slot leaks, for any number of workers,   *)
(* types and caps.  The counter of a type is exactly the slots that        *)
(* somebody will hand back; it never passes the cap, because a slot is     *)
(* taken in the same critical section that compares; and a worker that     *)
(* runs a job of a capped type still has its slot.                         *)
(***************************************************************************)
EXTENDS JobGate, FiniteSetTheorems, TLAPS

\* What a worker keeps in each stage.
StageMatches ==
  \A w \in Workers :
    /\ stage[w] # "claiming" => reserved[w] = {}
    /\ stage[w] # "running" => runType[w] = NULL /\ ~held[w]
    /\ stage[w] = "running" => runType[w] \in Types
    /\ stage[w] = "claiming" /\ reserved[w] = {} => ~HasCaps

\* A job of a capped type runs in a slot.
CappedRunsAreHeld ==
  \A w \in Workers, t \in Types : Capped(t) /\ runType[w] = t => held[w]

\* A slot is kept for the type that runs.
HeldIsCapped == \A w \in Workers : held[w] => Capped(runType[w])

CounterWithinCap ==
  \A t \in Types : Capped(t) => typeRunning[t] <= TypeConcurrency[t]

GateInv ==
  /\ TypeOK /\ StageMatches /\ CappedRunsAreHeld /\ HeldIsCapped
  /\ CounterExact /\ CounterWithinCap

-----------------------------------------------------------------------------
LEMMA WorkerSets ==
  ASSUME NEW t
  PROVE  /\ IsFiniteSet(Reserving(t)) /\ Cardinality(Reserving(t)) \in Nat
         /\ IsFiniteSet(Holding(t)) /\ Cardinality(Holding(t)) \in Nat
<1>1. Reserving(t) \subseteq Workers /\ Holding(t) \subseteq Workers
  BY DEF Reserving, Holding
<1> QED
  BY <1>1, JobGateAssumption, FS_Subset, FS_CardinalityType

\* A worker that has no slot on t joins those that reserve one.
LEMMA SlotAdded ==
  ASSUME NEW S, IsFiniteSet(S), NEW w, w \notin S
  PROVE  Cardinality(S \cup {w}) = Cardinality(S) + 1
BY FS_AddElement

\* A worker that has a slot leaves them.
LEMMA SlotRemoved ==
  ASSUME NEW S, IsFiniteSet(S), NEW w, w \in S
  PROVE  /\ Cardinality(S \ {w}) = Cardinality(S) - 1
         /\ Cardinality(S) \in Nat /\ Cardinality(S) > 0
<1>1. Cardinality(S) \in Nat /\ Cardinality(S \ {w}) \in Nat
  BY FS_RemoveElement, FS_CardinalityType
<1>2. Cardinality(S \ {w}) = Cardinality(S) - 1
  BY FS_RemoveElement
<1> QED
  BY <1>1, <1>2

\* No operation breaks them.
LEMMA GateTypeStep == TypeOK /\ [Next]_gateVars => TypeOK'
<1> SUFFICES ASSUME TypeOK, [Next]_gateVars PROVE TypeOK'
  OBVIOUS
<1> USE JobGateAssumption DEF TypeOK
<1>0. \A types : HandedBack(types) \in [Types -> Nat]
  BY DEF HandedBack
<1>1. ASSUME NEW w \in Workers, ClaimScope(w) PROVE TypeOK'
  <2> DEFINE eligible == {t \in Candidates : HasRoom(t)}
  <2>1. eligible \subseteq Types
    BY DEF Candidates
  <2>2. /\ reserved' = [reserved EXCEPT ![w] = eligible]
        /\ stage' = [stage EXCEPT ![w] = "claiming"]
        /\ UNCHANGED <<runType, held>>
    BY <1>1 DEF ClaimScope
  <2>3. typeRunning' \in [Types -> Nat]
    BY <1>1 DEF ClaimScope
  <2> HIDE DEF eligible
  <2> QED
    BY <2>1, <2>2, <2>3
<1>2. ASSUME NEW w \in Workers, ClaimNothing(w) PROVE TypeOK'
  BY <1>0, <1>2 DEF ClaimNothing
<1>3. ASSUME NEW w \in Workers, NEW t \in Types, ClaimJob(w, t) PROVE TypeOK'
  BY <1>0, <1>3 DEF ClaimJob
<1>4. ASSUME NEW w \in Workers, RunEnds(w) PROVE TypeOK'
  BY <1>0, <1>4 DEF RunEnds
<1>5. CASE UNCHANGED gateVars
  BY <1>5 DEF gateVars
<1> QED
  BY <1>1, <1>2, <1>3, <1>4, <1>5 DEF Next

\* The worker's state and the counters stay well typed.
THEOREM GateTypeCorrect == Spec => []TypeOK
<1>1. Init => TypeOK
  BY DEF Init, TypeOK
<1> QED
  BY <1>1, GateTypeStep, PTL DEF Spec

-----------------------------------------------------------------------------
LEMMA InvInit == Init => GateInv
<1> SUFFICES ASSUME Init PROVE GateInv
  OBVIOUS
<1> USE DEF Init
<1>1. TypeOK
  BY DEF TypeOK
<1>2. StageMatches /\ CappedRunsAreHeld /\ HeldIsCapped
  BY JobGateAssumption DEF StageMatches, CappedRunsAreHeld, HeldIsCapped
<1>3. \A t : Reserving(t) = {} /\ Holding(t) = {}
  BY DEF Reserving, Holding
<1>4. CounterExact
  BY <1>3, FS_EmptySet DEF CounterExact
<1>5. CounterWithinCap
  BY JobGateAssumption DEF CounterWithinCap, Capped
<1> QED
  BY <1>1, <1>2, <1>4, <1>5 DEF GateInv

LEMMA InvClaimScope ==
  ASSUME GateInv, TypeOK', NEW w \in Workers, ClaimScope(w)
  PROVE  GateInv'
<1> DEFINE eligible == {t \in Candidates : HasRoom(t)}
<1> USE DEF GateInv
<1>1. /\ stage[w] = "idle" /\ reserved[w] = {}
      /\ reserved' = [reserved EXCEPT ![w] = eligible]
      /\ stage' = [stage EXCEPT ![w] = "claiming"]
      /\ UNCHANGED <<runType, held>>
      /\ Candidates # {} => eligible # {}
  BY DEF ClaimScope, StageMatches
<1>2. \A t \in Types : typeRunning'[t] = IF t \in eligible /\ Capped(t)
                         THEN typeRunning[t] + 1 ELSE typeRunning[t]
  BY DEF ClaimScope
<1>3. \A t \in eligible : Capped(t) => typeRunning[t] < TypeConcurrency[t]
  BY DEF HasRoom
<1>4. eligible = {} => ~HasCaps
  BY <1>1, JobGateAssumption DEF Candidates
<1> HIDE DEF eligible
<1>5. StageMatches'
  BY <1>1, <1>4 DEF StageMatches, TypeOK
<1>6. CappedRunsAreHeld' /\ HeldIsCapped'
  BY <1>1 DEF CappedRunsAreHeld, HeldIsCapped
<1>7. CounterExact'
  <2> SUFFICES ASSUME NEW t \in Types, Capped(t)
               PROVE  typeRunning'[t] = Cardinality(Reserving(t)')
                                        + Cardinality(Holding(t)')
    BY DEF CounterExact
  <2>1. Holding(t)' = Holding(t)
    BY <1>1 DEF Holding
  <2>2. w \notin Reserving(t)
    BY <1>1 DEF Reserving
  <2>3. typeRunning[t] = Cardinality(Reserving(t)) + Cardinality(Holding(t))
    BY DEF CounterExact
  <2>4. CASE t \in eligible
    <3>1. Reserving(t)' = Reserving(t) \cup {w}
      BY <1>1, <2>4 DEF Reserving, TypeOK
    <3> QED
      BY <1>2, <2>1, <2>2, <2>3, <2>4, <3>1, WorkerSets, SlotAdded
  <2>5. CASE t \notin eligible
    <3>1. Reserving(t)' = Reserving(t)
      BY <1>1, <2>5 DEF Reserving, TypeOK
    <3> QED
      BY <1>2, <2>1, <2>3, <2>5, <3>1
  <2> QED
    BY <2>4, <2>5
<1>8. CounterWithinCap'
  BY <1>2, <1>3, JobGateAssumption DEF CounterWithinCap, Capped, TypeOK
<1> QED
  BY <1>5, <1>6, <1>7, <1>8

\* What handing slots back on some types does to a counter that is exact.
LEMMA BackOnce ==
  ASSUME NEW types, NEW t \in Types, TypeOK, Capped(t), typeRunning[t] > 0
  PROVE  HandedBack(types)[t] = IF t \in types THEN typeRunning[t] - 1
                                                ELSE typeRunning[t]
BY DEF HandedBack

LEMMA BackBelow ==
  ASSUME NEW types, TypeOK, CounterWithinCap, typeRunning' = HandedBack(types)
  PROVE  CounterWithinCap'
BY JobGateAssumption DEF HandedBack, CounterWithinCap, Capped, TypeOK

LEMMA InvClaimNothing ==
  ASSUME GateInv, TypeOK', NEW w \in Workers, ClaimNothing(w)
  PROVE  GateInv'
<1> USE DEF GateInv
<1>1. /\ stage[w] = "claiming"
      /\ typeRunning' = HandedBack(reserved[w])
      /\ reserved' = [reserved EXCEPT ![w] = {}]
      /\ stage' = [stage EXCEPT ![w] = "idle"]
      /\ UNCHANGED <<runType, held>>
  BY DEF ClaimNothing
<1>2. StageMatches' /\ CappedRunsAreHeld' /\ HeldIsCapped'
  BY <1>1 DEF StageMatches, CappedRunsAreHeld, HeldIsCapped, TypeOK
<1>3. CounterExact'
  <2> SUFFICES ASSUME NEW t \in Types, Capped(t)
               PROVE  typeRunning'[t] = Cardinality(Reserving(t)')
                                        + Cardinality(Holding(t)')
    BY DEF CounterExact
  <2>1. Holding(t)' = Holding(t)
    BY <1>1 DEF Holding
  <2>2. typeRunning[t] = Cardinality(Reserving(t)) + Cardinality(Holding(t))
    BY DEF CounterExact
  <2>3. CASE t \in reserved[w]
    <3>1. w \in Reserving(t) /\ Reserving(t)' = Reserving(t) \ {w}
      BY <1>1, <2>3 DEF Reserving, TypeOK
    <3>2. Cardinality(Reserving(t)') = Cardinality(Reserving(t)) - 1
          /\ typeRunning[t] > 0
      BY <2>2, <3>1, WorkerSets, SlotRemoved
    <3> QED
      BY <1>1, <2>1, <2>2, <2>3, <3>2, BackOnce, WorkerSets
  <2>4. CASE t \notin reserved[w]
    <3>1. Reserving(t)' = Reserving(t)
      BY <1>1, <2>4 DEF Reserving, TypeOK
    <3>2. typeRunning'[t] = typeRunning[t]
      BY <1>1, <2>4 DEF HandedBack
    <3> QED
      BY <2>1, <2>2, <3>1, <3>2
  <2> QED
    BY <2>3, <2>4
<1> QED
  BY <1>1, <1>2, <1>3, BackBelow

LEMMA InvClaimJob ==
  ASSUME GateInv, TypeOK', NEW w \in Workers, NEW u \in Types, ClaimJob(w, u)
  PROVE  GateInv'
<1> USE DEF GateInv
<1>1. /\ stage[w] = "claiming"
      /\ reserved[w] # {} => u \in reserved[w]
      /\ typeRunning' = HandedBack(reserved[w] \ {u})
      /\ held' = [held EXCEPT ![w] = u \in reserved[w] /\ Capped(u)]
      /\ runType' = [runType EXCEPT ![w] = u]
      /\ reserved' = [reserved EXCEPT ![w] = {}]
      /\ stage' = [stage EXCEPT ![w] = "running"]
      /\ runType[w] = NULL /\ ~held[w]
  BY DEF ClaimJob, StageMatches
<1>2. StageMatches'
  BY <1>1 DEF StageMatches, TypeOK
<1>3. Capped(u) => u \in reserved[w]
  BY <1>1 DEF StageMatches, HasCaps, Capped
<1>4. held'[w] = (u \in reserved[w] /\ Capped(u)) /\ runType'[w] = u
      /\ \A v \in Workers \ {w} : held'[v] = held[v] /\ runType'[v] = runType[v]
  BY <1>1 DEF TypeOK
<1>5. CappedRunsAreHeld'
  BY <1>3, <1>4 DEF CappedRunsAreHeld
<1>6. HeldIsCapped'
  BY <1>4 DEF HeldIsCapped
<1>7. CounterExact'
  <2> SUFFICES ASSUME NEW t \in Types, Capped(t)
               PROVE  typeRunning'[t] = Cardinality(Reserving(t)')
                                        + Cardinality(Holding(t)')
    BY DEF CounterExact
  <2>1. typeRunning[t] = Cardinality(Reserving(t)) + Cardinality(Holding(t))
    BY DEF CounterExact
  <2>2. w \notin Holding(t)
    BY <1>1 DEF Holding
  <2>3. CASE t = u
    <3>1. w \in Reserving(t) /\ Reserving(t)' = Reserving(t) \ {w}
      BY <1>1, <1>3, <2>3 DEF Reserving, TypeOK
    <3>2. Holding(t)' = Holding(t) \cup {w}
      BY <1>3, <1>4, <2>3 DEF Holding
    <3>3. Cardinality(Reserving(t)') = Cardinality(Reserving(t)) - 1
          /\ Cardinality(Holding(t)') = Cardinality(Holding(t)) + 1
      BY <2>2, <3>1, <3>2, WorkerSets, SlotRemoved, SlotAdded
    <3>4. typeRunning'[t] = typeRunning[t]
      BY <1>1, <2>3 DEF HandedBack
    <3> QED
      BY <2>1, <3>3, <3>4, WorkerSets
  <2>4. CASE t # u
    <3>1. Holding(t)' = Holding(t)
      BY <1>1, <1>4, <2>4, <2>2 DEF Holding
    <3>2. CASE t \in reserved[w]
      <4>1. w \in Reserving(t) /\ Reserving(t)' = Reserving(t) \ {w}
        BY <1>1, <3>2 DEF Reserving, TypeOK
      <4>2. Cardinality(Reserving(t)') = Cardinality(Reserving(t)) - 1
            /\ typeRunning[t] > 0
        BY <2>1, <4>1, WorkerSets, SlotRemoved
      <4> QED
        BY <1>1, <2>1, <2>4, <3>1, <3>2, <4>2, BackOnce, WorkerSets
    <3>3. CASE t \notin reserved[w]
      <4>1. Reserving(t)' = Reserving(t)
        BY <1>1, <3>3 DEF Reserving, TypeOK
      <4>2. typeRunning'[t] = typeRunning[t]
        BY <1>1, <3>3 DEF HandedBack
      <4> QED
        BY <2>1, <3>1, <4>1, <4>2
    <3> QED
      BY <3>2, <3>3
  <2> QED
    BY <2>3, <2>4
<1> QED
  BY <1>1, <1>2, <1>5, <1>6, <1>7, BackBelow

LEMMA InvRunEnds ==
  ASSUME GateInv, TypeOK', NEW w \in Workers, RunEnds(w)
  PROVE  GateInv'
<1> USE DEF GateInv
<1>1. /\ stage[w] = "running"
      /\ typeRunning' = IF held[w] THEN HandedBack({runType[w]}) ELSE typeRunning
      /\ held' = [held EXCEPT ![w] = FALSE]
      /\ runType' = [runType EXCEPT ![w] = NULL]
      /\ stage' = [stage EXCEPT ![w] = "idle"]
      /\ UNCHANGED reserved
  BY DEF RunEnds
<1>2. StageMatches' /\ CappedRunsAreHeld' /\ HeldIsCapped'
  BY <1>1, JobGateAssumption
  DEF StageMatches, CappedRunsAreHeld, HeldIsCapped, TypeOK
<1>3. CounterExact'
  <2> SUFFICES ASSUME NEW t \in Types, Capped(t)
               PROVE  typeRunning'[t] = Cardinality(Reserving(t)')
                                        + Cardinality(Holding(t)')
    BY DEF CounterExact
  <2>1. Reserving(t)' = Reserving(t)
    BY <1>1 DEF Reserving
  <2>2. typeRunning[t] = Cardinality(Reserving(t)) + Cardinality(Holding(t))
    BY DEF CounterExact
  <2>3. CASE held[w] /\ runType[w] = t
    <3>1. w \in Holding(t) /\ Holding(t)' = Holding(t) \ {w}
      BY <1>1, <2>3 DEF Holding, TypeOK
    <3>2. Cardinality(Holding(t)') = Cardinality(Holding(t)) - 1
          /\ typeRunning[t] > 0
      BY <2>2, <3>1, WorkerSets, SlotRemoved
    <3> QED
      BY <1>1, <2>1, <2>2, <2>3, <3>2, BackOnce, WorkerSets
  <2>4. CASE ~(held[w] /\ runType[w] = t)
    <3>1. Holding(t)' = Holding(t)
      BY <1>1, <2>4 DEF Holding, TypeOK
    <3>2. typeRunning'[t] = typeRunning[t]
      BY <1>1, <2>4 DEF HandedBack
    <3> QED
      BY <2>1, <2>2, <3>1, <3>2
  <2> QED
    BY <2>3, <2>4
<1>4. CounterWithinCap'
  BY <1>1, BackBelow DEF CounterWithinCap
<1> QED
  BY <1>2, <1>3, <1>4

LEMMA InvNext == GateInv /\ TypeOK' /\ [Next]_gateVars => GateInv'
<1> SUFFICES ASSUME GateInv, TypeOK', [Next]_gateVars PROVE GateInv'
  OBVIOUS
<1>1. CASE UNCHANGED gateVars
  BY <1>1 DEF gateVars, GateInv, StageMatches, CappedRunsAreHeld, HeldIsCapped,
              CounterExact, CounterWithinCap, Reserving, Holding
<1> QED
  BY <1>1, InvClaimScope, InvClaimNothing, InvClaimJob, InvRunEnds DEF Next

LEMMA GateInvariant == Spec => []GateInv
BY InvInit, InvNext, GateTypeCorrect, PTL DEF Spec

\* The counter of a capped type is exactly the slots reserved for claims under
\* way and kept for running jobs: none leaks and none is given back twice.
THEOREM CounterIsExact == Spec => []CounterExact
<1>1. GateInv => CounterExact
  BY DEF GateInv
<1> QED
  BY <1>1, GateInvariant, PTL

\* Whoever runs a job of a capped type has one of the slots counted.
LEMMA CapFromInv == GateInv => CapRespected
<1> SUFFICES ASSUME GateInv, NEW t \in Types, Capped(t)
             PROVE  Cardinality(RunningNow(t)) <= TypeConcurrency[t]
  BY DEF CapRespected
<1> USE DEF GateInv
<1>1. RunningNow(t) = Holding(t)
  BY DEF RunningNow, Holding, CappedRunsAreHeld
<1>2. typeRunning[t] = Cardinality(Reserving(t)) + Cardinality(Holding(t))
  BY DEF CounterExact
<1>3. typeRunning[t] <= TypeConcurrency[t] /\ TypeConcurrency[t] \in Int
  BY JobGateAssumption DEF CounterWithinCap, Capped
<1> QED
  BY <1>1, <1>2, <1>3, WorkerSets

\* No more jobs of a capped type run at once than its cap (#777).
THEOREM CapHolds == Spec => []CapRespected
BY CapFromInv, GateInvariant, PTL
=============================================================================
