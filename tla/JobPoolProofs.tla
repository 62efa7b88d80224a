--------------------------- MODULE JobPoolProofs ---------------------------
(***************************************************************************)
(* Proofs about the worker pool on top of the jobs table, for any number   *)
(* of workers and rows and with every fault of JobPool.  claimed_by is all *)
(* a report has to prove that its execution is the current one: that this  *)
(* is enough rests on worker ids that differ, and on a worker not claiming *)
(* while it runs.                                                          *)
(***************************************************************************)
EXTENDS JobPool, TLAPS

(* The results about the table and the gate, for the pool's variables.  The *)
(* pool has no external workers.                                            *)
Table == INSTANCE JobQueueProofs WITH Impatient <- {}, MaxWire <- 0,
                                     task <- NULL, wire <- {}
Slots == INSTANCE JobGateProofs

\* A worker runs a job exactly while it is out of the claim loop, and the gate
\* knows the type of the job it runs.
RunsMatch ==
  \A w \in Workers :
    /\ exec[w] # "none" <=> stage[w] = "running"
    /\ exec[w] # "none" => cur[w] \in Jobs /\ runType[w] = JobType[cur[w]]
    /\ exec[w] = "none" => cur[w] = NULL

OwnerInv == TypeOK /\ RunsMatch /\ OwnerHoldsLatestClaim

-----------------------------------------------------------------------------
(* Every step of the pool is a step of the table and of the gate, or none. *)

LEMMA SameTypes ==
  /\ Queue!TypeOK <=> Table!TypeOK
  /\ Queue!TypeOK' <=> Table!TypeOK'
  /\ Gate!TypeOK <=> Slots!TypeOK
  /\ Gate!TypeOK' <=> Slots!TypeOK'
BY DEF Queue!TypeOK, Table!TypeOK, Queue!Statuses, Table!Statuses, Gate!TypeOK,
       Slots!TypeOK

\* Each instance brings its own name of the same operator.
LEMMA SameCardinality ==
  ASSUME NEW S
  PROVE  /\ Table!Cardinality(S) = Queue!Cardinality(S)
         /\ Slots!Cardinality(S) = Cardinality(S)
BY DEF Table!Cardinality, Queue!Cardinality, Slots!Cardinality, Cardinality

LEMMA SameFinite ==
  ASSUME NEW S
  PROVE  /\ Table!IsFiniteSet(S) <=> Queue!IsFiniteSet(S)
         /\ Slots!IsFiniteSet(S) <=> Gate!IsFiniteSet(S)
         /\ Slots!IsFiniteSet(S) <=> IsFiniteSet(S)
BY DEF Table!IsFiniteSet, Queue!IsFiniteSet, Slots!IsFiniteSet,
       Gate!IsFiniteSet, IsFiniteSet

\* The instances' results need their assumptions on the constants.
LEMMA TableTypeStep ==
  ASSUME Table!TypeOK, [Table!Next]_(Table!jobVars)
  PROVE  Table!TypeOK'
BY JobPoolAssumption, SameFinite, Table!TypeStep
DEF Table!TypeStep, Queue!JobQueueAssumption

LEMMA SlotsTypeStep ==
  ASSUME Slots!TypeOK, [Slots!Next]_(Slots!gateVars)
  PROVE  Slots!TypeOK'
BY JobPoolAssumption, SameFinite, Slots!GateTypeStep
DEF Slots!GateTypeStep, Gate!JobGateAssumption

LEMMA SameFirstRows ==
  ASSUME NEW S, NEW n
  PROVE  Table!FirstRows(S, n) = Queue!FirstRows(S, n)
<1>1. \A i, j : Table!Before(i, j) <=> Queue!Before(i, j)
  BY DEF Table!Before, Queue!Before
<1>2. \A j : {i \in S : Table!Before(i, j)} = {i \in S : Queue!Before(i, j)}
  BY <1>1
<1>3. \A j : Table!Cardinality({i \in S : Table!Before(i, j)})
             = Queue!Cardinality({i \in S : Queue!Before(i, j)})
  BY <1>2, SameCardinality
<1> QED
  BY <1>3 DEF Table!FirstRows, Queue!FirstRows

LEMMA PickedRows ==
  ASSUME Queue!TypeOK, NEW w \in Workers, pick[w] # {}
  PROVE  Picked(w) \in Jobs /\ Picked(w) \in pick[w]
BY DEF Queue!TypeOK, Picked

LEMMA TableStep ==
  ASSUME TypeOK, RunsMatch, [Next]_vars, ~Crash
  PROVE  [Table!Next]_(Table!jobVars)
<1> USE DEF TypeOK
<1>1. ASSUME NEW w \in Workers, PickRow(w) PROVE Table!Next
  <2>1. reserved[w] \in SUBSET Types /\ 1 \in 1..BatchLimit
    BY JobPoolAssumption DEF Gate!TypeOK, Queue!JobQueueAssumption
  <2>2. Table!PickRows(w, reserved[w], 1)
    <3>1. Table!SkipLocked(reserved[w]) = Queue!SkipLocked(reserved[w])
      BY DEF Queue!SkipLocked, Table!SkipLocked, Queue!Claimable, Table!Claimable,
        Queue!InScope, Table!InScope, Queue!Locked, Table!Locked
    <3> QED
      BY <1>1, <3>1, SameFirstRows DEF PickRow, Queue!PickRows, Table!PickRows
  <2> QED
    BY <2>1, <2>2 DEF Table!Next, Table!Claim
<1>2. ASSUME NEW w \in Workers, ClaimSucceeds(w) \/ ClaimAnswerLost(w)
      PROVE Table!Next
  <2>1. Table!CommitClaim(w)
    BY <1>2 DEF ClaimSucceeds, ClaimAnswerLost, Queue!CommitClaim,
                Table!CommitClaim
  <2> QED
    BY <2>1 DEF Table!Next, Table!Claim
<1>3. ASSUME NEW w \in Workers, ClaimFindsNothing(w)
      PROVE [Table!Next]_(Table!jobVars)
  <2>1. Table!AbortClaim(w) \/ UNCHANGED Table!jobVars
    BY <1>3 DEF ClaimFindsNothing, Queue!AbortClaim, Table!AbortClaim, queueVars,
                Table!jobVars
  <2> QED
    BY <2>1 DEF Table!Next, Table!Claim
<1>4. ASSUME NEW w \in Workers, Heartbeat(w) \/ Report(w)
      PROVE [Table!Next]_(Table!jobVars)
  <2>1. cur[w] \in Jobs
    BY <1>4 DEF Heartbeat, Report, RunsMatch
  <2>2. \/ Table!HeartbeatJob(w, cur[w]) \/ Table!CompleteJob(w, cur[w])
        \/ \E terminal \in BOOLEAN : Table!FailJob(w, cur[w], terminal)
        \/ UNCHANGED Table!jobVars
    BY <1>4 DEF Heartbeat, Report, Queue!HeartbeatJob, Table!HeartbeatJob,
      Queue!CompleteJob, Table!CompleteJob, Queue!FailJob, Table!FailJob,
      Queue!Owns, Table!Owns, queueVars, Table!jobVars
  <2> QED
    BY <2>1, <2>2 DEF Table!Next, Table!Report
<1>5. CASE Watchdog
  <2>1. Table!RequeueStuckJobs
    BY <1>5 DEF Watchdog, Queue!RequeueStuckJobs, Table!RequeueStuckJobs,
                Queue!Stuck, Table!Stuck
  <2> QED
    BY <2>1 DEF Table!Next
<1>6. ASSUME NEW j \in Jobs, RowStep(j) PROVE Table!Next
  <2>1. \/ Table!EnqueueJob(j) \/ Table!Admin(j) \/ Table!LeaseExpires(j)
        \/ Table!ScheduleComes(j)
    BY <1>6 DEF RowStep, Enqueue, AdminRequeue, AdminCancel, Purge, TimePasses,
      Queue!EnqueueJob, Table!EnqueueJob, Queue!KeyFree, Table!KeyFree,
      Queue!InFlight, Table!InFlight, Table!Admin, Queue!AdminRequeueJob,
      Table!AdminRequeueJob, Queue!AdminCancelJob, Table!AdminCancelJob,
      Queue!PurgeOldDoneJobs, Table!PurgeOldDoneJobs, Queue!LeaseExpires,
      Table!LeaseExpires, Queue!ScheduleComes, Table!ScheduleComes,
      Queue!Locked, Table!Locked
  <2> QED
    BY <2>1 DEF Table!Next
<1>7. ASSUME UNCHANGED queueVars PROVE UNCHANGED Table!jobVars
  BY <1>7 DEF queueVars, Table!jobVars
<1> QED
  BY <1>1, <1>2, <1>3, <1>4, <1>5, <1>6, <1>7
  DEF Next, WorkerStep, Claiming, Running, Process, Poll, HandlerReturns,
      HeartbeatLosesLease, Drained, ReportFails, StopWorker, Stop, Stopped,
      Restart, vars

LEMMA SlotsStep ==
  ASSUME TypeOK, [Next]_vars, ~Crash
  PROVE  [Slots!Next]_(Slots!gateVars)
<1> USE DEF TypeOK
<1>1. ASSUME NEW w \in Workers, Poll(w) PROVE Slots!Next
  <2>1. Slots!ClaimScope(w)
    BY <1>1 DEF Poll, Gate!ClaimScope, Slots!ClaimScope, Gate!Candidates,
      Slots!Candidates, Gate!HasCaps, Slots!HasCaps, Gate!HasRoom, Slots!HasRoom,
      Gate!Capped, Slots!Capped
  <2> QED
    BY <2>1 DEF Slots!Next
<1>2. ASSUME NEW w \in Workers, ClaimSucceeds(w) PROVE Slots!Next
  <2>1. JobType[Picked(w)] \in Types
    BY <1>2, PickedRows, JobPoolAssumption
    DEF ClaimSucceeds, Queue!JobQueueAssumption
  <2>2. Slots!ClaimJob(w, JobType[Picked(w)])
    BY <1>2 DEF ClaimSucceeds, Gate!ClaimJob, Slots!ClaimJob, Gate!HandedBack,
                Slots!HandedBack, Gate!Capped, Slots!Capped
  <2> QED
    BY <2>1, <2>2 DEF Slots!Next
<1>3. ASSUME NEW w \in Workers, ClaimAnswerLost(w) \/ ClaimFindsNothing(w)
      PROVE Slots!Next
  <2>1. Slots!ClaimNothing(w)
    BY <1>3 DEF ClaimAnswerLost, ClaimFindsNothing, Gate!ClaimNothing,
      Slots!ClaimNothing, Gate!HandedBack, Slots!HandedBack, Gate!Capped,
      Slots!Capped
  <2> QED
    BY <2>1 DEF Slots!Next
<1>4. ASSUME NEW w \in Workers,
             Drained(w) \/ Report(w) \/ ReportFails(w) \/ StopWorker(w)
      PROVE Slots!Next
  <2>1. Slots!RunEnds(w)
    BY <1>4 DEF Drained, Report, ReportFails, StopWorker, Gate!RunEnds,
      Slots!RunEnds, Gate!HandedBack, Slots!HandedBack, Gate!Capped, Slots!Capped
  <2> QED
    BY <2>1 DEF Slots!Next
<1>5. ASSUME UNCHANGED gateVars PROVE UNCHANGED Slots!gateVars
  BY <1>5 DEF gateVars, Slots!gateVars
<1> QED
  BY <1>1, <1>2, <1>3, <1>4, <1>5
  DEF Next, WorkerStep, Claiming, Running, Process, PickRow, HandlerReturns,
      Heartbeat, HeartbeatLosesLease, Stop, Stopped, Restart, Watchdog, RowStep,
      Enqueue, AdminRequeue, AdminCancel, Purge, TimePasses, vars

-----------------------------------------------------------------------------
\* The table and the gate keep their types, and so does what the pool adds.
LEMMA PoolTypeStep ==
  ASSUME TypeOK, RunsMatch, [Next]_vars
  PROVE  TypeOK'
<1>1. CASE Crash
  <2>1. Queue!TypeOK' /\ Gate!TypeOK'
    BY <1>1 DEF Crash, TypeOK, Queue!TypeOK, Gate!TypeOK
  <2> QED
    BY <1>1, <2>1 DEF Crash, TypeOK, history
<1>2. CASE ~Crash
  <2>1. Queue!TypeOK' /\ Gate!TypeOK'
    <3>1. [Table!Next]_(Table!jobVars) /\ [Slots!Next]_(Slots!gateVars)
      BY <1>2, TableStep, SlotsStep
    <3>2. Table!TypeOK /\ Slots!TypeOK
      BY SameTypes DEF TypeOK
    <3>3. Table!TypeOK'
      BY <3>1, <3>2, TableTypeStep
    <3>4. Slots!TypeOK'
      BY <3>1, <3>2, SlotsTypeStep
    <3> QED
      BY <3>3, <3>4, SameTypes
  <2>2. ASSUME NEW w \in Workers, ClaimSucceeds(w) \/ ClaimAnswerLost(w)
        PROVE  TypeOK'
    <3>1. Picked(w) \in Jobs
      BY <2>2, PickedRows DEF TypeOK, ClaimSucceeds, ClaimAnswerLost
    <3> QED
      BY <2>1, <2>2, <3>1 DEF TypeOK, ClaimSucceeds, ClaimAnswerLost, runVars
  <2>3. ASSUME NEW w \in Workers, Poll(w) \/ PickRow(w) \/ ClaimFindsNothing(w)
        PROVE  TypeOK'
    BY <2>1, <2>3 DEF TypeOK, Poll, PickRow, ClaimFindsNothing, runVars, history
  <2>4. ASSUME NEW w \in Workers, Running(w) PROVE TypeOK'
    BY <2>1, <2>4 DEF TypeOK, Running, HandlerReturns, Heartbeat,
      HeartbeatLosesLease, Drained, Report, ReportFails, StopWorker, StopsRunning,
      runVars, history
  <2>5. CASE Process
    BY <1>2, <2>1, <2>5 DEF TypeOK, Process, Stop, Stopped, Restart, Watchdog,
      runVars, history
  <2>6. ASSUME NEW j \in Jobs, RowStep(j) PROVE TypeOK'
    BY <2>1, <2>6 DEF TypeOK, RowStep, Enqueue, AdminRequeue, AdminCancel, Purge,
      TimePasses, runVars, history
  <2>7. CASE UNCHANGED vars
    BY <2>1, <2>7 DEF TypeOK, vars, runVars, history
  <2> QED
    BY <2>2, <2>3, <2>4, <2>5, <2>6, <2>7 DEF Next, WorkerStep, Claiming
<1> QED
  BY <1>1, <1>2

\* A worker leaves and enters the claim loop as it starts and ends a run.
LEMMA RunsMatchStep ==
  ASSUME TypeOK, RunsMatch, [Next]_vars
  PROVE  RunsMatch'
<1> USE DEF TypeOK, Gate!TypeOK, RunsMatch
<1>1. ASSUME NEW w \in Workers, Poll(w) \/ PickRow(w) PROVE RunsMatch'
  BY <1>1 DEF Poll, PickRow, Gate!ClaimScope, gateVars, runVars
<1>2. ASSUME NEW w \in Workers, ClaimSucceeds(w) PROVE RunsMatch'
  <2>1. Picked(w) \in Jobs
    BY <1>2, PickedRows DEF ClaimSucceeds
  <2> QED
    BY <1>2, <2>1 DEF ClaimSucceeds, Gate!ClaimJob
<1>3. ASSUME NEW w \in Workers, ClaimAnswerLost(w) \/ ClaimFindsNothing(w)
      PROVE RunsMatch'
  BY <1>3 DEF ClaimAnswerLost, ClaimFindsNothing, Gate!ClaimNothing, runVars
<1>4. ASSUME NEW w \in Workers,
             HandlerReturns(w) \/ Heartbeat(w) \/ HeartbeatLosesLease(w)
      PROVE RunsMatch'
  BY <1>4 DEF HandlerReturns, Heartbeat, HeartbeatLosesLease, gateVars, runVars
<1>5. ASSUME NEW w \in Workers,
             Drained(w) \/ Report(w) \/ ReportFails(w) \/ StopWorker(w)
      PROVE RunsMatch'
  BY <1>5 DEF Drained, Report, ReportFails, StopWorker, StopsRunning, Gate!RunEnds
<1>6. CASE Crash
  BY <1>6 DEF Crash
<1>7. CASE UNCHANGED <<gateVars, runVars>>
  BY <1>7 DEF gateVars, runVars
<1> QED
  BY <1>1, <1>2, <1>3, <1>4, <1>5, <1>6, <1>7
  DEF Next, WorkerStep, Claiming, Running, Process, RowStep, Stop, Stopped,
      Restart, Watchdog, Enqueue, AdminRequeue, AdminCancel, Purge, TimePasses,
      vars

LEMMA PoolInit == Init => OwnerInv
<1> SUFFICES ASSUME Init PROVE OwnerInv
  OBVIOUS
<1>1. Queue!TypeOK
  BY DEF Init, Queue!Init, Queue!TypeOK, Queue!Statuses
<1>2. Gate!TypeOK
  BY DEF Init, Gate!Init, Gate!TypeOK
<1>3. TypeOK
  BY <1>1, <1>2 DEF Init, TypeOK
<1>4. RunsMatch /\ OwnerHoldsLatestClaim
  BY DEF Init, Gate!Init, RunsMatch, OwnerHoldsLatestClaim
<1> QED
  BY <1>3, <1>4 DEF OwnerInv

\* The pool, its gate and the table stay well typed through every fault.
THEOREM PoolTypeCorrect == Spec => [](TypeOK /\ RunsMatch)
BY PoolInit, PoolTypeStep, RunsMatchStep, PTL DEF Spec, OwnerInv

-----------------------------------------------------------------------------
\* A step that neither starts a run nor claims keeps the owners apart.
LEMMA OwnerKept ==
  ASSUME OwnerInv,
         \A w \in Workers : exec'[w] # "none" => exec[w] # "none" /\ cur'[w] = cur[w],
         \A w \in Workers, j \in Jobs : Queue!Owns(w, j)' => Queue!Owns(w, j),
         holder' = holder
  PROVE  OwnerHoldsLatestClaim'
BY DEF OwnerInv, OwnerHoldsLatestClaim, RunsMatch

\* A claim takes the rows it commits away from every other worker, because
\* their ids differ.
LEMMA OwnerStep ==
  ASSUME OwnerInv, [Next]_vars
  PROVE  OwnerHoldsLatestClaim'
<1> USE DEF OwnerInv, TypeOK
<1>1. ASSUME NEW w \in Workers, ClaimSucceeds(w) PROVE OwnerHoldsLatestClaim'
  <2>1. Picked(w) \in Jobs /\ Picked(w) \in pick[w]
    BY <1>1, PickedRows DEF ClaimSucceeds
  <2>2. /\ Queue!CommitClaim(w)
        /\ cur' = [cur EXCEPT ![w] = Picked(w)]
        /\ holder' = [holder EXCEPT ![Picked(w)] = w]
        /\ \A v \in Workers \ {w} : exec'[v] = exec[v]
    BY <1>1 DEF ClaimSucceeds
  <2> SUFFICES ASSUME NEW v \in Workers, exec'[v] # "none", Queue!Owns(v, cur[v])'
               PROVE  holder'[cur'[v]] = v
    BY DEF OwnerHoldsLatestClaim
  <2>3. CASE v = w
    BY <2>1, <2>2, <2>3
  <2>4. CASE v # w
    <3>1. cur'[v] = cur[v] /\ cur[v] \in Jobs /\ exec[v] # "none"
      BY <2>2, <2>4 DEF RunsMatch
    <3>2. cur[v] \notin pick[w] /\ Queue!Owns(v, cur[v])
      BY <2>2, <2>4, <3>1, JobPoolAssumption
      DEF Queue!CommitClaim, Queue!Owns, Queue!TypeOK
    <3>3. holder[cur[v]] = v
      BY <3>1, <3>2 DEF OwnerHoldsLatestClaim
    <3> QED
      BY <2>1, <2>2, <3>1, <3>2, <3>3
  <2> QED
    BY <2>3, <2>4
<1>2. ASSUME NEW w \in Workers, ClaimAnswerLost(w) PROVE OwnerHoldsLatestClaim'
  <2>1. Picked(w) \in Jobs /\ Picked(w) \in pick[w]
    BY <1>2, PickedRows DEF ClaimAnswerLost
  <2>2. /\ Queue!CommitClaim(w)
        /\ UNCHANGED <<cur, exec>>
        /\ holder' = [holder EXCEPT ![Picked(w)] = NULL]
        /\ exec[w] = "none"
    BY <1>2 DEF ClaimAnswerLost, runVars, RunsMatch
  <2> SUFFICES ASSUME NEW v \in Workers, exec'[v] # "none", Queue!Owns(v, cur[v])'
               PROVE  holder'[cur'[v]] = v
    BY DEF OwnerHoldsLatestClaim
  <2>3. v # w /\ cur'[v] = cur[v] /\ cur[v] \in Jobs /\ exec[v] # "none"
    BY <2>2 DEF RunsMatch
  <2>4. cur[v] \notin pick[w] /\ Queue!Owns(v, cur[v])
    BY <2>2, <2>3, JobPoolAssumption DEF Queue!CommitClaim, Queue!Owns, Queue!TypeOK
  <2>5. holder[cur[v]] = v
    BY <2>3, <2>4 DEF OwnerHoldsLatestClaim
  <2> QED
    BY <2>1, <2>2, <2>3, <2>4, <2>5
<1>3. ASSUME NEW w \in Workers,
             Poll(w) \/ PickRow(w) \/ ClaimFindsNothing(w) \/ Drained(w)
             \/ ReportFails(w) \/ StopWorker(w) \/ HandlerReturns(w)
             \/ HeartbeatLosesLease(w)
      PROVE OwnerHoldsLatestClaim'
  <2>1. UNCHANGED <<status, claimedBy, holder>>
    BY <1>3 DEF Poll, PickRow, ClaimFindsNothing, Drained, ReportFails, StopWorker,
      HandlerReturns, HeartbeatLosesLease, Queue!PickRows, Queue!AbortClaim,
      queueVars, history
  <2>2. \A v \in Workers : exec'[v] # "none" => exec[v] # "none" /\ cur'[v] = cur[v]
    BY <1>3 DEF Poll, PickRow, ClaimFindsNothing, Drained, ReportFails, StopWorker,
      HandlerReturns, HeartbeatLosesLease, StopsRunning, runVars
  <2> QED
    BY <2>1, <2>2, OwnerKept DEF Queue!Owns
<1>4. ASSUME NEW w \in Workers, Heartbeat(w) PROVE OwnerHoldsLatestClaim'
  BY <1>4, OwnerKept DEF Heartbeat, Queue!HeartbeatJob, Queue!Owns, runVars, history
<1>5. ASSUME NEW w \in Workers, Report(w) PROVE OwnerHoldsLatestClaim'
  <2>1. \A v \in Workers : exec'[v] # "none" => exec[v] # "none" /\ cur'[v] = cur[v]
    BY <1>5 DEF Report, StopsRunning
  <2>2. \A v \in Workers, j \in Jobs : Queue!Owns(v, j)' => Queue!Owns(v, j)
    BY <1>5 DEF Report, Queue!CompleteJob, Queue!FailJob, Queue!Owns,
                Queue!TypeOK, RunsMatch, queueVars
  <2> QED
    BY <1>5, <2>1, <2>2, OwnerKept DEF Report, history
<1>6. CASE Stop \/ Stopped \/ Restart
  BY <1>6, OwnerKept DEF Stop, Stopped, Restart, Queue!Owns, queueVars, runVars,
                         history
<1>7. CASE Crash
  BY <1>7 DEF Crash, OwnerHoldsLatestClaim
<1>8. CASE Watchdog
  <2>1. \A v \in Workers, j \in Jobs : Queue!Owns(v, j)' => Queue!Owns(v, j)
    BY <1>8 DEF Watchdog, Queue!RequeueStuckJobs, Queue!Owns, Queue!TypeOK
  <2> QED
    BY <1>8, <2>1, OwnerKept DEF Watchdog, runVars, history
<1>9. ASSUME NEW j \in Jobs, RowStep(j) PROVE OwnerHoldsLatestClaim'
  <2>1. UNCHANGED <<runVars, holder>>
    BY <1>9 DEF RowStep, Enqueue, AdminRequeue, AdminCancel, Purge, TimePasses,
                history
  <2>2. \A v \in Workers, i \in Jobs : Queue!Owns(v, i)' => Queue!Owns(v, i)
    BY <1>9 DEF RowStep, Enqueue, AdminRequeue, AdminCancel, Purge, TimePasses,
      Queue!EnqueueJob, Queue!AdminRequeueJob, Queue!AdminCancelJob,
      Queue!PurgeOldDoneJobs, Queue!LeaseExpires, Queue!ScheduleComes,
      Queue!Owns, Queue!TypeOK
  <2> QED
    BY <2>1, <2>2, OwnerKept DEF runVars
<1>10. CASE UNCHANGED vars
  BY <1>10, OwnerKept DEF vars, queueVars, runVars, history, Queue!Owns
<1> QED
  BY <1>1, <1>2, <1>3, <1>4, <1>5, <1>6, <1>7, <1>8, <1>9, <1>10
  DEF Next, WorkerStep, Claiming, Running, Process

LEMMA OwnerInvariant == Spec => []OwnerInv
<1>1. OwnerInv /\ [Next]_vars => OwnerInv'
  BY PoolTypeStep, RunsMatchStep, OwnerStep DEF OwnerInv
<1> QED
  BY <1>1, PoolInit, PTL DEF Spec

\* As long as a row carries the id of a worker that runs it, the run is the
\* row's latest claim: an execution whose lease was lost can neither extend
\* nor finish what another worker claimed since.
THEOREM OwnerIsLatest == Spec => []OwnerHoldsLatestClaim
<1>1. OwnerInv => OwnerHoldsLatestClaim
  BY DEF OwnerInv
<1> QED
  BY <1>1, OwnerInvariant, PTL

-----------------------------------------------------------------------------
\* A report that changes a row comes from the worker with its latest claim.
THEOREM ReportsAreCurrent == Spec => ReportsOnlyByHolder
<1>1. ASSUME OwnerInv, [Next]_vars, NEW w \in Workers, NEW j \in Jobs,
             cur[w] = j, exec[w] = "returned", exec'[w] = "none",
             status'[j] # status[j]
      PROVE  holder[j] = w
  <2> USE DEF OwnerInv, TypeOK
  <2>1. ASSUME NEW v \in Workers, Poll(v) \/ Claiming(v) PROVE exec'[w] # "none"
    BY <1>1, <2>1 DEF Poll, Claiming, PickRow, ClaimSucceeds, ClaimAnswerLost,
                      ClaimFindsNothing, runVars
  <2>2. ASSUME NEW v \in Workers, HandlerReturns(v) \/ Heartbeat(v)
                                  \/ HeartbeatLosesLease(v)
        PROVE  exec'[w] # "none"
    BY <1>1, <2>2 DEF HandlerReturns, Heartbeat, HeartbeatLosesLease, runVars
  <2>3. ASSUME NEW v \in Workers, Drained(v) \/ ReportFails(v) \/ StopWorker(v)
        PROVE  status' = status
    BY <2>3 DEF Drained, ReportFails, StopWorker, queueVars
  <2>4. ASSUME NEW v \in Workers, Report(v) PROVE holder[j] = w
    <3>1. v = w
      BY <1>1, <2>4 DEF Report, StopsRunning
    <3>2. Queue!Owns(w, j)
      BY <1>1, <2>4, <3>1 DEF Report, queueVars, Queue!CompleteJob, Queue!FailJob
    <3> QED
      BY <1>1, <3>2 DEF OwnerHoldsLatestClaim
  <2>5. CASE Process \/ \E i \in Jobs : RowStep(i)
    BY <1>1, <2>5 DEF Process, Stop, Stopped, Crash, Restart, Watchdog, RowStep,
      Enqueue, AdminRequeue, AdminCancel, Purge, TimePasses, runVars, queueVars
  <2>6. CASE UNCHANGED vars
    BY <1>1, <2>6 DEF vars, queueVars
  <2> QED
    BY <1>1, <2>1, <2>2, <2>3, <2>4, <2>5, <2>6 DEF Next, WorkerStep, Running
<1>2. OwnerInv /\ [Next]_vars =>
        [\A w \in Workers, j \in Jobs :
           /\ cur[w] = j /\ exec[w] = "returned" /\ exec'[w] = "none"
           /\ status'[j] # status[j]
           => holder[j] = w]_vars
  BY <1>1
<1> QED
  BY <1>2, OwnerInvariant, PTL DEF Spec, ReportsOnlyByHolder

-----------------------------------------------------------------------------
(* The gate's invariant holds in the pool, whose crash empties it.         *)

LEMMA SlotsEmpty ==
  /\ Slots!Init => Slots!GateInv
  /\ Slots!Init' => Slots!GateInv'
<1>1. Slots!Init => Slots!GateInv
  BY JobPoolAssumption, SameFinite, Slots!InvInit
  DEF Slots!InvInit, Gate!JobGateAssumption
<1>2. Slots!Init' => Slots!GateInv'
  BY <1>1, PTL
<1> QED
  BY <1>1, <1>2

LEMMA SlotsInvStep ==
  ASSUME TypeOK, RunsMatch, Slots!GateInv, [Next]_vars
  PROVE  Slots!GateInv'
<1>1. CASE Crash
  <2>1. Slots!Init'
    BY <1>1 DEF Crash, Slots!Init
  <2> QED
    BY <2>1, SlotsEmpty
<1>2. CASE ~Crash
  <2>1. [Slots!Next]_(Slots!gateVars)
    BY <1>2, SlotsStep
  <2>2. Slots!TypeOK'
    BY <2>1, SlotsTypeStep, SameTypes DEF TypeOK
  <2> QED
    BY <2>1, <2>2, JobPoolAssumption, SameFinite, Slots!InvNext
    DEF Slots!InvNext, Gate!JobGateAssumption
<1> QED
  BY <1>1, <1>2

LEMMA SlotsInvariant == Spec => [](Slots!GateInv)
<1>1. Init => Slots!GateInv
  <2>1. Init => Slots!Init
    BY DEF Init, Gate!Init, Slots!Init
  <2> QED
    BY <2>1, SlotsEmpty
<1> QED
  BY <1>1, SlotsInvStep, PoolTypeCorrect, PTL DEF Spec

\* The handlers of a capped type, those that still run after their lease was
\* lost included, are within its cap (#777).
THEOREM HandlersCapped == Spec => []HandlersWithinCap
<1>1. TypeOK /\ RunsMatch /\ Slots!GateInv => HandlersWithinCap
  <2> SUFFICES ASSUME TypeOK, RunsMatch, Slots!GateInv,
                      NEW t \in Types, Gate!Capped(t)
               PROVE  Cardinality({w \in Workers : cur[w] # NULL /\ JobType[cur[w]] = t})
                        <= TypeConcurrency[t]
    BY DEF HandlersWithinCap
  <2>1. Slots!CapRespected
    BY JobPoolAssumption, SameFinite, Slots!CapFromInv
    DEF Slots!CapFromInv, Gate!JobGateAssumption
  <2>2. Slots!Cardinality(Slots!RunningNow(t)) <= TypeConcurrency[t]
    BY <2>1 DEF Slots!CapRespected, Slots!Capped, Gate!Capped
  <2>3. \A w \in Workers : runType[w] = t <=> cur[w] # NULL /\ JobType[cur[w]] = t
    BY JobPoolAssumption DEF RunsMatch, Slots!GateInv, Slots!StageMatches, TypeOK,
      Gate!TypeOK, Gate!JobGateAssumption
  <2>4. {w \in Workers : cur[w] # NULL /\ JobType[cur[w]] = t} = Slots!RunningNow(t)
    BY <2>3 DEF Slots!RunningNow
  <2> QED
    BY <2>2, <2>4, SameCardinality
<1> QED
  BY <1>1, SlotsInvariant, PoolTypeCorrect, PTL

-----------------------------------------------------------------------------
(***************************************************************************)
(* The pool implements LeasedWork, for any number of workers and rows and  *)
(* with every fault: each statement, each end of a run and each crash maps *)
(* to a step of the abstract specification or to a stutter.  What makes    *)
(* the mapping hold is that a row stays claimable while it is locked, that *)
(* a claim with LIMIT 1 locks one row, and OwnerHoldsLatestClaim.          *)
(***************************************************************************)
\* ClaimNext asks for one row, and the order of the queue is total.
OneRowPicked == \A w \in Workers : \A i, j \in pick[w] : i = j

RefInv ==
  /\ TypeOK /\ RunsMatch /\ OwnerHoldsLatestClaim
  /\ Table!PickedRowsStayClaimable /\ Table!EnqueuedInOrder
  /\ OneRowPicked

-----------------------------------------------------------------------------
(* The invariant.                                                          *)

LEMMA RefInit == Init => RefInv
<1> SUFFICES ASSUME Init PROVE RefInv
  OBVIOUS
<1>1. TypeOK /\ RunsMatch /\ OwnerHoldsLatestClaim
  BY PoolInit DEF OwnerInv
<1>2. OneRowPicked /\ Table!PickedRowsStayClaimable /\ Table!EnqueuedInOrder
  BY DEF Init, Queue!Init, OneRowPicked, Table!PickedRowsStayClaimable,
         Table!EnqueuedInOrder
<1> QED
  BY <1>1, <1>2 DEF RefInv

LEMMA OneRowStep ==
  ASSUME RefInv, [Next]_vars
  PROVE  OneRowPicked'
<1> USE DEF RefInv, OneRowPicked
<1>1. \A w \in Workers : pick'[w] \in {{}, pick[w]} => \A i, j \in pick'[w] : i = j
  OBVIOUS
<1>2. ASSUME NEW w \in Workers, PickRow(w) PROVE OneRowPicked'
  <2>1. pick' = [pick EXCEPT ![w] =
                   Table!FirstRows(Table!SkipLocked(reserved[w]), 1)]
    <3>1. Table!SkipLocked(reserved[w]) = Queue!SkipLocked(reserved[w])
      BY DEF Queue!SkipLocked, Table!SkipLocked, Queue!Claimable, Table!Claimable,
        Queue!InScope, Table!InScope, Queue!Locked, Table!Locked
    <3> QED
      BY <1>2, <3>1, SameFirstRows DEF PickRow, Queue!PickRows
  <2>2. \A i, j \in Table!FirstRows(Table!SkipLocked(reserved[w]), 1) : i = j
    BY JobPoolAssumption, SameFinite, SameTypes, Table!OnlyOneFirst
    DEF Table!OnlyOneFirst, Queue!JobQueueAssumption, TypeOK
  <2> QED
    BY <2>1, <2>2 DEF TypeOK, Queue!TypeOK
<1>3. ASSUME NEW w \in Workers, ClaimSucceeds(w) \/ ClaimAnswerLost(w)
                                \/ ClaimFindsNothing(w)
      PROVE OneRowPicked'
  BY <1>3 DEF ClaimSucceeds, ClaimAnswerLost, ClaimFindsNothing, Queue!CommitClaim,
              Queue!AbortClaim, queueVars, TypeOK, Queue!TypeOK
<1>4. CASE Crash
  BY <1>4 DEF Crash
<1>5. CASE UNCHANGED pick
  BY <1>5
<1>6. ASSUME NEW w \in Workers, Poll(w) \/ Running(w) PROVE UNCHANGED pick
  BY <1>6 DEF Poll, Running, HandlerReturns, Heartbeat, HeartbeatLosesLease, Drained,
    Report, ReportFails, StopWorker, Queue!HeartbeatJob, Queue!CompleteJob,
    Queue!FailJob, queueVars
<1>7. ASSUME NEW j \in Jobs, RowStep(j) PROVE UNCHANGED pick
  BY <1>7 DEF RowStep, Enqueue, AdminRequeue, AdminCancel, Purge, TimePasses,
    Queue!EnqueueJob, Queue!AdminRequeueJob, Queue!AdminCancelJob,
    Queue!PurgeOldDoneJobs, Queue!LeaseExpires, Queue!ScheduleComes
<1>8. CASE Stop \/ Stopped \/ Restart \/ Watchdog \/ UNCHANGED vars
  BY <1>8, <1>5 DEF Stop, Stopped, Restart, Watchdog, Queue!RequeueStuckJobs,
    queueVars, vars
<1> QED
  BY <1>2, <1>3, <1>4, <1>5, <1>6, <1>7, <1>8
  DEF Next, WorkerStep, Claiming, Process

LEMMA RefStep == RefInv /\ [Next]_vars => RefInv'
<1> SUFFICES ASSUME RefInv, [Next]_vars PROVE RefInv'
  OBVIOUS
<1>1. OwnerInv
  BY DEF RefInv, OwnerInv
<1>2. TypeOK' /\ RunsMatch' /\ OwnerHoldsLatestClaim'
  BY <1>1, PoolTypeStep, RunsMatchStep, OwnerStep DEF OwnerInv
<1>3. Table!RowsInv
  BY SameTypes DEF RefInv, TypeOK, Table!RowsInv
<1>4. CASE Crash
  BY <1>2, <1>4, OneRowStep DEF Crash, RefInv, Table!PickedRowsStayClaimable,
    Table!EnqueuedInOrder
<1>5. CASE ~Crash
  <2>1. [Table!Next]_(Table!jobVars)
    BY <1>5, TableStep DEF RefInv
  <2>2. Table!TypeOK'
    BY <1>2, SameTypes DEF TypeOK
  <2>3. Table!PickedRowsStayClaimable'
    BY <1>3, <2>1, <2>2, JobPoolAssumption, SameFinite, Table!LocksHold
    DEF Table!LocksHold, Queue!JobQueueAssumption
  <2>4. Table!EnqueuedInOrder'
    BY <1>3, <2>1, JobPoolAssumption, SameFinite, Table!OrderStep
    DEF Table!OrderStep, Queue!JobQueueAssumption, RefInv
  <2> QED
    BY <1>2, <2>3, <2>4, OneRowStep DEF RefInv
<1> QED
  BY <1>4, <1>5

-----------------------------------------------------------------------------
(***************************************************************************)
(* How often a handler starts.  The claim counts before the handler starts,*)
(* so a start is a counted claim whatever dies afterwards; that the count  *)
(* stays within max_attempts is a fact about the table, where a claim's row *)
(* lock keeps everybody else from the row between the check and the count. *)
(***************************************************************************)
StartsCounted == \A j \in Jobs : starts[j] <= attempts[j]

LEMMA StartsCountedStep == OwnerInv /\ StartsCounted /\ [Next]_vars => StartsCounted'
<1> SUFFICES ASSUME OwnerInv, StartsCounted, [Next]_vars PROVE StartsCounted'
  OBVIOUS
<1> USE DEF OwnerInv, TypeOK, Queue!TypeOK, StartsCounted
<1>1. ASSUME NEW w \in Workers, ClaimSucceeds(w) PROVE StartsCounted'
  <2>1. Picked(w) \in Jobs /\ Picked(w) \in pick[w]
    BY <1>1, PickedRows DEF ClaimSucceeds
  <2>2. \A j \in Jobs : attempts'[j] = IF j \in pick[w] THEN attempts[j] + 1
                                                       ELSE attempts[j]
    BY <1>1 DEF ClaimSucceeds, Queue!CommitClaim
  <2>3. \A j \in Jobs : starts'[j] = starts[j] \/ (j = Picked(w)
                                                 /\ starts'[j] = starts[j] + 1)
    BY <1>1 DEF ClaimSucceeds
  <2> QED
    BY <2>1, <2>2, <2>3
<1>2. ASSUME NEW w \in Workers, ClaimAnswerLost(w) PROVE StartsCounted'
  BY <1>2 DEF ClaimAnswerLost, Queue!CommitClaim
<1>3. ASSUME NEW w \in Workers, Poll(w) \/ PickRow(w) \/ ClaimFindsNothing(w)
      PROVE StartsCounted'
  BY <1>3 DEF Poll, PickRow, ClaimFindsNothing, Queue!PickRows, Queue!AbortClaim,
              queueVars, history
<1>4. ASSUME NEW w \in Workers, Running(w) PROVE StartsCounted'
  BY <1>4 DEF Running, HandlerReturns, Heartbeat, HeartbeatLosesLease, Drained,
    Report, ReportFails, StopWorker, Queue!HeartbeatJob, Queue!CompleteJob,
    Queue!FailJob, queueVars, history
<1>5. CASE Process
  BY <1>5 DEF Process, Stop, Stopped, Crash, Restart, Watchdog,
              Queue!RequeueStuckJobs, queueVars, history
<1>6. ASSUME NEW j \in Jobs, AdminRequeue(j) PROVE StartsCounted'
  BY <1>6 DEF AdminRequeue, Queue!AdminRequeueJob
<1>7. ASSUME NEW j \in Jobs, Enqueue(j) \/ AdminCancel(j) \/ Purge(j) \/ TimePasses(j)
      PROVE StartsCounted'
  BY <1>7 DEF Enqueue, AdminCancel, Purge, TimePasses, Queue!EnqueueJob,
    Queue!AdminCancelJob, Queue!PurgeOldDoneJobs, Queue!LeaseExpires,
    Queue!ScheduleComes, history
<1>8. CASE UNCHANGED vars
  BY <1>8 DEF vars, queueVars, history
<1> QED
  BY <1>1, <1>2, <1>3, <1>4, <1>5, <1>6, <1>7, <1>8
  DEF Next, WorkerStep, Claiming, RowStep

\* The count is within the cap at every step of the pool: a crash leaves the
\* table's counts alone, and every other step is one of its statements.
LEMMA AttemptsCapStep ==
  ASSUME RefInv, Table!AttemptsWithinCap, [Next]_vars
  PROVE  Table!AttemptsWithinCap'
<1>1. Table!RowsInv
  BY SameTypes DEF RefInv, TypeOK, Table!RowsInv
<1>2. CASE Crash
  BY <1>2 DEF Crash, Table!AttemptsWithinCap
<1>3. CASE ~Crash
  <2>1. [Table!Next]_(Table!jobVars)
    BY <1>3, TableStep DEF RefInv
  <2> QED
    BY <1>1, <2>1, JobPoolAssumption, SameFinite, Table!AttemptsStep
    DEF Table!AttemptsStep, Queue!JobQueueAssumption
<1> QED
  BY <1>2, <1>3

StartsInv == RefInv /\ Table!AttemptsWithinCap /\ StartsCounted

\* Between two operator requeues the handler of a job starts at most
\* max_attempts times, with any number of workers and with every crash, lost
\* answer, failed report and expired lease in between.
THEOREM StartsBounded == Spec => []StartsWithinCap
<1>1. Init => StartsInv
  <2>1. Init => Table!AttemptsWithinCap /\ StartsCounted
    BY JobPoolAssumption
    DEF Init, Queue!Init, Table!AttemptsWithinCap, StartsCounted,
        Queue!JobQueueAssumption
  <2> QED
    BY <2>1, RefInit DEF StartsInv
<1>2. StartsInv /\ [Next]_vars => StartsInv'
  BY RefStep, AttemptsCapStep, StartsCountedStep DEF StartsInv, RefInv, OwnerInv
<1>3. StartsInv => StartsWithinCap
  <2> SUFFICES ASSUME StartsInv, NEW j \in Jobs PROVE starts[j] <= MaxAttempts[j]
    BY DEF StartsWithinCap
  <2>1. starts[j] <= attempts[j] /\ attempts[j] <= MaxAttempts[j]
    BY DEF StartsInv, StartsCounted, Table!AttemptsWithinCap
  <2>2. starts[j] \in Nat /\ attempts[j] \in Nat /\ MaxAttempts[j] \in Nat
    BY JobPoolAssumption
    DEF StartsInv, RefInv, TypeOK, Queue!TypeOK, Queue!JobQueueAssumption
  <2> QED
    BY <2>1, <2>2
<1> QED
  BY <1>1, <1>2, <1>3, PTL DEF Spec

-----------------------------------------------------------------------------
(* The mapping.                                                            *)

place == [j \in Jobs |-> PlaceOf[status[j]]]

LEMMA Places ==
  /\ PlaceOf["absent"] = "nowhere" /\ PlaceOf["pending"] = "waiting"
  /\ PlaceOf["running"] = "held" /\ PlaceOf["done"] = "done"
  /\ PlaceOf["failed"] = "dead" /\ PlaceOf["cancelled"] = "dead"
  /\ PlaceOf["purged"] = "gone"
BY DEF PlaceOf

\* A claim hands out the row it locked, which nobody else changed since.
LEMMA ClaimHandsOut ==
  ASSUME RefInv, NEW w \in Workers, Queue!CommitClaim(w)
  PROVE  LET j == Picked(w) IN
         /\ j \in Jobs
         /\ place[j] = "waiting" /\ place' = [place EXCEPT ![j] = "held"]
         /\ attempts[j] < MaxAttempts[j]
         /\ attempts' = [attempts EXCEPT ![j] = @ + 1]
<1> DEFINE j == Picked(w)
<1> USE DEF RefInv, TypeOK
<1>1. pick[w] # {}
  BY DEF Queue!CommitClaim
<1>2. j \in Jobs /\ j \in pick[w]
  BY <1>1, PickedRows
<1>3. pick[w] = {j}
  BY <1>2 DEF OneRowPicked
<1>4. status[j] = "pending" /\ attempts[j] < MaxAttempts[j]
  BY <1>2 DEF Table!PickedRowsStayClaimable, Table!Claimable
<1> HIDE DEF j
<1>5. /\ status' = [status EXCEPT ![j] = "running"]
      /\ attempts' = [attempts EXCEPT ![j] = @ + 1]
  BY <1>2, <1>3 DEF Queue!CommitClaim, Queue!TypeOK
<1>6. place[j] = "waiting"
  BY <1>2, <1>4, Places DEF place
<1>7. place' = [place EXCEPT ![j] = "held"]
  BY <1>2, <1>5, Places DEF place, Queue!TypeOK
<1> QED
  BY <1>2, <1>4, <1>5, <1>6, <1>7 DEF j

\* The row operations of the enqueuer, the operator and the clock.
LEMMA RowSteps ==
  ASSUME RefInv, NEW j \in Jobs, RowStep(j)
  PROVE  [Work!Next]_(Work!workVars)
<1> USE DEF RefInv, TypeOK
<1>1. UNCHANGED <<holder, cur>>
  BY DEF RowStep, Enqueue, AdminRequeue, AdminCancel, Purge, TimePasses, runVars,
         history
<1>2. CASE Enqueue(j)
  <2>1. /\ status[j] \in {"absent"} /\ status' = [status EXCEPT ![j] = "pending"]
        /\ UNCHANGED attempts
    BY <1>2 DEF Enqueue, Queue!EnqueueJob
  <2>2. place[j] = "nowhere" /\ place' = [place EXCEPT ![j] = "waiting"]
    BY <2>1, Places DEF place, Queue!TypeOK
  <2>3. Work!Offer(j)
    BY <1>1, <2>1, <2>2 DEF Work!Offer, Work!Moves, place
  <2> QED
    BY <2>3 DEF Work!Next
<1>3. CASE AdminRequeue(j)
  <2>1. /\ status[j] \in {"failed", "cancelled"}
        /\ status' = [status EXCEPT ![j] = "pending"]
        /\ attempts' = [attempts EXCEPT ![j] = 0]
    BY <1>3 DEF AdminRequeue, Queue!AdminRequeueJob
  <2>2. place[j] = "dead" /\ place' = [place EXCEPT ![j] = "waiting"]
    BY <2>1, Places DEF place, Queue!TypeOK
  <2>3. Work!Reopen(j)
    BY <1>1, <2>1, <2>2 DEF Work!Reopen, Work!Moves, place
  <2> QED
    BY <2>3 DEF Work!Next
<1>4. CASE AdminCancel(j)
  <2>1. /\ status[j] \in {"pending", "failed"}
        /\ status' = [status EXCEPT ![j] = "cancelled"]
        /\ UNCHANGED attempts
    BY <1>4 DEF AdminCancel, Queue!AdminCancelJob
  <2>2. place[j] \in {"waiting", "dead"} /\ place' = [place EXCEPT ![j] = "dead"]
    BY <2>1, Places DEF place, Queue!TypeOK
  <2>3. Work!Cancel(j)
    BY <1>1, <2>1, <2>2 DEF Work!Cancel, Work!Moves, place
  <2> QED
    BY <2>3 DEF Work!Next
<1>5. CASE Purge(j)
  <2>1. /\ status[j] \in {"done"} /\ status' = [status EXCEPT ![j] = "purged"]
        /\ UNCHANGED attempts
    BY <1>5 DEF Purge, Queue!PurgeOldDoneJobs
  <2>2. place[j] = "done" /\ place' = [place EXCEPT ![j] = "gone"]
    BY <2>1, Places DEF place, Queue!TypeOK
  <2>3. Work!Forget(j)
    BY <1>1, <2>1, <2>2 DEF Work!Forget, Work!Moves, place
  <2> QED
    BY <2>3 DEF Work!Next
<1>6. CASE TimePasses(j)
  <2>1. UNCHANGED <<status, attempts>>
    BY <1>6 DEF TimePasses, Queue!LeaseExpires, Queue!ScheduleComes
  <2> QED
    BY <1>1, <2>1 DEF Work!workVars
<1> QED
  BY <1>2, <1>3, <1>4, <1>5, <1>6 DEF RowStep

-----------------------------------------------------------------------------
(* The worker's side.                                                      *)

\* A run that ends without a word is dropped.
LEMMA RunDropped ==
  ASSUME RefInv, NEW w \in Workers, StopsRunning(w), UNCHANGED <<status, attempts, holder>>
  PROVE  Work!Next
<1>1. cur' = [v \in Workers |-> IF v \in {w} THEN NULL ELSE cur[v]]
  BY DEF StopsRunning, RefInv, TypeOK
<1>2. Work!Drop({w})
  BY <1>1 DEF Work!Drop
<1> QED
  BY <1>2 DEF Work!Next

LEMMA ClaimSteps ==
  ASSUME RefInv, NEW w \in Workers, Poll(w) \/ Claiming(w)
  PROVE  [Work!Next]_(Work!workVars)
<1> USE DEF RefInv, TypeOK
<1>1. CASE ClaimSucceeds(w)
  <2> DEFINE j == Picked(w)
  <2>1. /\ cur' = [cur EXCEPT ![w] = j]
        /\ holder' = [holder EXCEPT ![j] = w]
        /\ stage[w] = "claiming" /\ Queue!CommitClaim(w)
    BY <1>1 DEF ClaimSucceeds
  <2>2. cur[w] = NULL
    BY <2>1 DEF RunsMatch
  <2>3. /\ j \in Jobs /\ place[j] = "waiting" /\ place' = [place EXCEPT ![j] = "held"]
        /\ attempts[j] < MaxAttempts[j]
        /\ attempts' = [attempts EXCEPT ![j] = @ + 1]
    BY <2>1, ClaimHandsOut
  <2> HIDE DEF j
  <2>4. Work!Take(w, j)
    BY <2>1, <2>2, <2>3 DEF Work!Take, Work!HandOut, Work!Moves, place
  <2> QED
    BY <2>3, <2>4 DEF Work!Next
<1>2. CASE ClaimAnswerLost(w)
  <2> DEFINE j == Picked(w)
  <2>1. /\ UNCHANGED cur
        /\ holder' = [holder EXCEPT ![j] = NULL]
        /\ Queue!CommitClaim(w)
    BY <1>2 DEF ClaimAnswerLost, runVars
  <2>2. /\ j \in Jobs /\ place[j] = "waiting" /\ place' = [place EXCEPT ![j] = "held"]
        /\ attempts[j] < MaxAttempts[j]
        /\ attempts' = [attempts EXCEPT ![j] = @ + 1]
    BY <2>1, ClaimHandsOut
  <2> HIDE DEF j
  <2>3. Work!TakeUnheard(j)
    BY <2>1, <2>2 DEF Work!TakeUnheard, Work!HandOut, Work!Moves, place
  <2> QED
    BY <2>2, <2>3 DEF Work!Next
<1>3. CASE Poll(w) \/ PickRow(w) \/ ClaimFindsNothing(w)
  BY <1>3 DEF Poll, PickRow, ClaimFindsNothing, Queue!PickRows, Queue!AbortClaim,
    queueVars, runVars, history, Work!workVars
<1> QED
  BY <1>1, <1>2, <1>3 DEF Claiming

\* A report settles the unit only if the row still carries the worker's id,
\* and then the row's latest claim is the one the worker runs.
LEMMA ReportSteps ==
  ASSUME RefInv, NEW w \in Workers, Report(w)
  PROVE  [Work!Next]_(Work!workVars)
<1> DEFINE j == cur[w]
<1> USE DEF RefInv, TypeOK
<1>1. /\ exec[w] = "returned" /\ StopsRunning(w) /\ UNCHANGED holder
      /\ cur' = [cur EXCEPT ![w] = NULL]
  BY DEF Report, StopsRunning, history
<1>2. j \in Jobs
  BY <1>1 DEF RunsMatch
<1>3. CASE UNCHANGED queueVars
  BY <1>1, <1>3, RunDropped DEF queueVars
<1>4. ASSUME NEW to \in {"done", "failed", "pending"}, Queue!Owns(w, j),
             status' = [status EXCEPT ![j] = to], UNCHANGED attempts
      PROVE  Work!Next
  <2>1. PICK u \in Jobs, verdict \in {"waiting", "done", "dead"} :
          u = j /\ verdict = PlaceOf[to]
    BY <1>2, Places
  <2>2. holder[u] = w
    BY <1>1, <1>4, <2>1 DEF OwnerHoldsLatestClaim
  <2>3. place[u] = "held"
    BY <1>4, <2>1, Places DEF place, Queue!Owns
  <2>4. place' = [place EXCEPT ![u] = verdict]
    BY <1>4, <2>1 DEF place, Queue!TypeOK
  <2>5. Work!Settle(w, u, verdict)
    BY <1>1, <1>4, <2>1, <2>2, <2>3, <2>4 DEF Work!Settle, Work!Moves, place
  <2> QED
    BY <2>5 DEF Work!Next
<1>5. CASE Queue!CompleteJob(w, j)
  BY <1>4, <1>5 DEF Queue!CompleteJob
<1>6. CASE Queue!FailJob(w, j, outcome[w] = "terminal")
  <2>1. \/ status' = [status EXCEPT ![j] = "failed"]
        \/ status' = [status EXCEPT ![j] = "pending"]
    BY <1>6 DEF Queue!FailJob
  <2>2. Queue!Owns(w, j) /\ UNCHANGED attempts
    BY <1>6 DEF Queue!FailJob
  <2> QED
    BY <1>4, <2>1, <2>2
<1> QED
  BY <1>3, <1>5, <1>6 DEF Report

LEMMA RunningSteps ==
  ASSUME RefInv, NEW w \in Workers, Running(w)
  PROVE  [Work!Next]_(Work!workVars)
<1>1. CASE HandlerReturns(w) \/ Heartbeat(w) \/ HeartbeatLosesLease(w)
  BY <1>1 DEF HandlerReturns, Heartbeat, HeartbeatLosesLease, Queue!HeartbeatJob,
    queueVars, runVars, history, Work!workVars
<1>2. CASE Drained(w) \/ ReportFails(w) \/ StopWorker(w)
  BY <1>2, RunDropped DEF Drained, ReportFails, StopWorker, queueVars, history
<1> QED
  BY <1>1, <1>2, ReportSteps DEF Running

-----------------------------------------------------------------------------
\* The crash drops every run, the watchdog evicts the rows whose lease ended.
LEMMA ProcessSteps ==
  ASSUME RefInv, Process
  PROVE  [Work!Next]_(Work!workVars)
<1> USE DEF RefInv, TypeOK
<1>1. CASE Crash
  <2>1. cur' = [v \in Workers |-> IF v \in Workers THEN NULL ELSE cur[v]]
    BY <1>1 DEF Crash
  <2>2. Work!Drop(Workers)
    BY <1>1, <2>1 DEF Work!Drop, Crash, history
  <2> QED
    BY <2>2 DEF Work!Next
<1>2. CASE Watchdog
  <2>1. PICK S \in SUBSET Jobs : S = {j \in Jobs : Queue!Stuck(j)}
    OBVIOUS
  <2>2. status' = [j \in Jobs |-> IF j \in S THEN "pending" ELSE status[j]]
    BY <1>2, <2>1 DEF Watchdog, Queue!RequeueStuckJobs
  <2>3. \A j \in S : status[j] = "running"
    BY <2>1 DEF Queue!Stuck
  <2>4. UNCHANGED <<attempts, holder, cur>>
    BY <1>2 DEF Watchdog, Queue!RequeueStuckJobs, runVars, history
  <2>5. \A j \in S : place[j] = "held"
    BY <2>3, Places DEF place
  <2>6. place' = [j \in Jobs |-> IF j \in S THEN "waiting" ELSE place[j]]
    BY <2>2, Places DEF place
  <2>7. Work!Evict(S)
    BY <2>4, <2>5, <2>6 DEF Work!Evict, place
  <2> QED
    BY <2>7 DEF Work!Next
<1>3. CASE Stop \/ Stopped \/ Restart
  BY <1>3 DEF Stop, Stopped, Restart, queueVars, runVars, history, Work!workVars
<1> QED
  BY <1>1, <1>2, <1>3 DEF Process

LEMMA WorkInit == Init => Work!Init
<1> SUFFICES ASSUME Init PROVE Work!Init
  OBVIOUS
<1>1. /\ status = [j \in Jobs |-> "absent"] /\ attempts = [j \in Jobs |-> 0]
      /\ holder = [j \in Jobs |-> NULL] /\ cur = [w \in Workers |-> NULL]
  BY DEF Init, Queue!Init
<1> QED
  BY <1>1, Places DEF Work!Init

\* The pool implements leased work: whatever fails, only the execution that
\* was handed a row last settles it, a row is handed out within its budget,
\* and what is done stays done.
THEOREM PoolImplementsLeasedWork == Spec => ImplementsLeasedWork
<1>1. RefInv /\ [Next]_vars => [Work!Next]_(Work!workVars)
  <2>1. UNCHANGED vars => UNCHANGED Work!workVars
    BY DEF vars, queueVars, runVars, history, Work!workVars
  <2> QED
    BY <2>1, RowSteps, ClaimSteps, RunningSteps, ProcessSteps
    DEF Next, WorkerStep
<1> QED
  BY <1>1, RefInit, RefStep, WorkInit, PTL
  DEF Spec, ImplementsLeasedWork, Work!Spec
=============================================================================
