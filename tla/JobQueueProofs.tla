--------------------------- MODULE JobQueueProofs ---------------------------
(***************************************************************************)
(* Proofs about the jobs table, for any rows, clients, keys and caps: what *)
(* the statements of queries.sql preserve however they interleave, and, at *)
(* the end, what the external workers of JobRemote may do to each other    *)
(* when their requests reach those statements late or twice.               *)
(***************************************************************************)
EXTENDS JobRemote, FiniteSetTheorems, TLAPS

(* The claim is the only statement that moves attempts up, and the lock it *)
(* holds is why the row it moves still has an attempt left at the commit.  *)
RowsInv == TypeOK /\ PickedRowsStayClaimable

-----------------------------------------------------------------------------
(* FOR UPDATE SKIP LOCKED picks rows that are claimable and locked by no   *)
(* other claim.                                                            *)
LEMMA PickedAreFree ==
  ASSUME NEW scope, NEW limit, NEW j \in FirstRows(SkipLocked(scope), limit)
  PROVE  j \in Jobs /\ j \notin Locked /\ Claimable(j)
BY DEF FirstRows, SkipLocked

\* No statement breaks the types of the columns.
LEMMA TypeStep == TypeOK /\ [Next]_jobVars => TypeOK'
<1> SUFFICES ASSUME TypeOK, [Next]_jobVars PROVE TypeOK'
  OBVIOUS
<1> USE DEF TypeOK, Statuses
<1>1. ASSUME NEW j \in Jobs, EnqueueJob(j) PROVE TypeOK'
  BY <1>1 DEF EnqueueJob
<1>2. ASSUME NEW j \in Jobs, Admin(j) PROVE TypeOK'
  BY <1>2 DEF Admin, AdminRequeueJob, AdminCancelJob, PurgeOldDoneJobs
<1>3. ASSUME NEW j \in Jobs, LeaseExpires(j) \/ ScheduleComes(j) PROVE TypeOK'
  BY <1>3 DEF LeaseExpires, ScheduleComes
<1>4. ASSUME NEW w \in Workers, NEW scope, NEW limit, PickRows(w, scope, limit)
      PROVE TypeOK'
  <2>1. FirstRows(SkipLocked(scope), limit) \subseteq Jobs
    BY PickedAreFree
  <2> QED
    BY <1>4, <2>1 DEF PickRows
<1>5. ASSUME NEW w \in Workers, CommitClaim(w) PROVE TypeOK'
  BY <1>5 DEF CommitClaim
<1>6. ASSUME NEW w \in Workers, AbortClaim(w) PROVE TypeOK'
  BY <1>6 DEF AbortClaim
<1>7. ASSUME NEW w \in Workers, NEW j \in Jobs, Report(w, j) PROVE TypeOK'
  BY <1>7 DEF Report, HeartbeatJob, CompleteJob, FailJob
<1>8. CASE RequeueStuckJobs
  BY <1>8 DEF RequeueStuckJobs
<1>9. CASE UNCHANGED jobVars
  BY <1>9 DEF jobVars
<1> QED
  BY <1>1, <1>2, <1>3, <1>4, <1>5, <1>6, <1>7, <1>8, <1>9 DEF Next, Claim

\* Every statement keeps the columns of the table well typed.
THEOREM TypeCorrect == Spec => []TypeOK
<1>1. Init => TypeOK
  BY DEF Init, TypeOK, Statuses
<1> QED
  BY <1>1, TypeStep, PTL DEF Spec

-----------------------------------------------------------------------------
\* Rows stay locked by at most one claim, and claimable, until it commits.
LEMMA LocksHold ==
  ASSUME RowsInv, [Next]_jobVars, TypeOK'
  PROVE  PickedRowsStayClaimable'
<1> USE DEF RowsInv, TypeOK, PickedRowsStayClaimable
<1>1. ASSUME NEW j \in Jobs, EnqueueJob(j) PROVE PickedRowsStayClaimable'
  BY <1>1 DEF EnqueueJob, Claimable
<1>2. ASSUME NEW j \in Jobs, Admin(j) PROVE PickedRowsStayClaimable'
  BY <1>2 DEF Admin, AdminRequeueJob, AdminCancelJob, PurgeOldDoneJobs,
              Claimable, Locked
<1>3. ASSUME NEW j \in Jobs, LeaseExpires(j) \/ ScheduleComes(j)
      PROVE PickedRowsStayClaimable'
  BY <1>3 DEF LeaseExpires, ScheduleComes, Claimable
<1>4. ASSUME NEW w \in Workers, NEW scope, NEW limit, PickRows(w, scope, limit)
      PROVE PickedRowsStayClaimable'
  <2> DEFINE new == FirstRows(SkipLocked(scope), limit)
  <2>1. \A j \in new : j \in Jobs /\ Claimable(j)
                       /\ \A v \in Workers : j \notin pick[v]
    BY PickedAreFree DEF Locked
  <2>2. pick' = [pick EXCEPT ![w] = new]
    BY <1>4 DEF PickRows
  <2>3. \A j \in Jobs : Claimable(j)' = Claimable(j)
    BY <1>4 DEF PickRows, Claimable
  <2> HIDE DEF new
  <2> QED
    BY <2>1, <2>2, <2>3
<1>5. ASSUME NEW w \in Workers, CommitClaim(w) PROVE PickedRowsStayClaimable'
  BY <1>5 DEF CommitClaim, Claimable
<1>6. ASSUME NEW w \in Workers, AbortClaim(w) PROVE PickedRowsStayClaimable'
  BY <1>6 DEF AbortClaim, Claimable
<1>7. ASSUME NEW w \in Workers, NEW j \in Jobs, Report(w, j)
      PROVE PickedRowsStayClaimable'
  BY <1>7 DEF Report, HeartbeatJob, CompleteJob, FailJob, Owns, Claimable
<1>8. CASE RequeueStuckJobs
  BY <1>8 DEF RequeueStuckJobs, Stuck, Claimable
<1>9. CASE UNCHANGED jobVars
  BY <1>9 DEF jobVars, Claimable
<1> QED
  BY <1>1, <1>2, <1>3, <1>4, <1>5, <1>6, <1>7, <1>8, <1>9 DEF Next, Claim

\* No other statement slips in between a claim's SELECT and its UPDATE.
THEOREM PicksHold == Spec => []PickedRowsStayClaimable
<1>1. Init => PickedRowsStayClaimable
  BY DEF Init, PickedRowsStayClaimable
<1>2. TypeOK /\ TypeOK' /\ PickedRowsStayClaimable /\ [Next]_jobVars
      => PickedRowsStayClaimable'
  BY LocksHold DEF RowsInv
<1> QED
  BY <1>1, <1>2, TypeCorrect, PTL DEF Spec

-----------------------------------------------------------------------------
(* The order of the claim is total, so LIMIT 1 picks one row.              *)

EnqueuedInOrder ==
  \A i \in Jobs : status[i] # "absent" =>
    /\ enqueuedAt[i] < clock
    /\ \A j \in Jobs \ {i} : status[j] # "absent" => enqueuedAt[i] # enqueuedAt[j]

LEMMA OrderStep ==
  ASSUME RowsInv, EnqueuedInOrder, [Next]_jobVars
  PROVE  EnqueuedInOrder'
<1> USE DEF RowsInv, TypeOK, EnqueuedInOrder
<1>1. ASSUME NEW j \in Jobs, EnqueueJob(j) PROVE EnqueuedInOrder'
  BY <1>1 DEF EnqueueJob
<1>2. CASE /\ UNCHANGED <<enqueuedAt, clock>>
           /\ \A j \in Jobs : status[j] = "absent" => status'[j] = "absent"
  BY <1>2
<1>3. ASSUME NEW w \in Workers, CommitClaim(w) PROVE EnqueuedInOrder'
  BY <1>2, <1>3 DEF CommitClaim, PickedRowsStayClaimable, Claimable
<1>4. ASSUME NEW w \in Workers, NEW j \in Jobs, Report(w, j) PROVE EnqueuedInOrder'
  BY <1>2, <1>4 DEF Report, HeartbeatJob, CompleteJob, FailJob, Owns
<1>5. ASSUME NEW j \in Jobs, Admin(j) \/ LeaseExpires(j) \/ ScheduleComes(j)
      PROVE EnqueuedInOrder'
  BY <1>2, <1>5 DEF Admin, AdminRequeueJob, AdminCancelJob, PurgeOldDoneJobs,
                    LeaseExpires, ScheduleComes
<1>6. ASSUME NEW w \in Workers, NEW scope, NEW limit,
             PickRows(w, scope, limit) \/ AbortClaim(w)
      PROVE EnqueuedInOrder'
  BY <1>2, <1>6 DEF PickRows, AbortClaim
<1>7. CASE RequeueStuckJobs \/ UNCHANGED jobVars
  BY <1>2, <1>7 DEF RequeueStuckJobs, Stuck, jobVars
<1> QED
  BY <1>1, <1>3, <1>4, <1>5, <1>6, <1>7 DEF Next, Claim

LEMMA OnlyOneFirst ==
  ASSUME TypeOK, EnqueuedInOrder, NEW scope,
         NEW i \in FirstRows(SkipLocked(scope), 1),
         NEW j \in FirstRows(SkipLocked(scope), 1)
  PROVE  i = j
<1> DEFINE S == SkipLocked(scope)
<1>1. S \subseteq Jobs /\ \A k \in S : status[k] # "absent"
  BY DEF SkipLocked, Claimable
<1>2. ASSUME NEW k \in FirstRows(S, 1), NEW h \in S PROVE ~Before(h, k)
  <2> DEFINE B == {g \in S : Before(g, k)}
  <2>1. IsFiniteSet(B) /\ Cardinality(B) < 1
    BY <1>1, <1>2, JobQueueAssumption, FS_Subset DEF FirstRows
  <2>2. B = {}
    BY <2>1, FS_EmptySet, FS_CardinalityType
  <2> QED
    BY <1>2, <2>2
<1>3. i \in S /\ j \in S
  BY DEF FirstRows
<1>4. ~Before(i, j) /\ ~Before(j, i)
  BY <1>2, <1>3
<1> QED
  BY <1>1, <1>3, <1>4, JobQueueAssumption DEF Before, EnqueuedInOrder, TypeOK

-----------------------------------------------------------------------------
\* The claim is the only statement that adds to attempts.
LEMMA AttemptsStep ==
  RowsInv /\ AttemptsWithinCap /\ [Next]_jobVars => AttemptsWithinCap'
<1> SUFFICES ASSUME RowsInv, AttemptsWithinCap, [Next]_jobVars
             PROVE  AttemptsWithinCap'
  OBVIOUS
<1> USE JobQueueAssumption DEF RowsInv, TypeOK, AttemptsWithinCap
<1>1. ASSUME NEW j \in Jobs, EnqueueJob(j) PROVE AttemptsWithinCap'
  BY <1>1 DEF EnqueueJob
<1>2. ASSUME NEW j \in Jobs, Admin(j) PROVE AttemptsWithinCap'
  BY <1>2 DEF Admin, AdminRequeueJob, AdminCancelJob, PurgeOldDoneJobs
<1>3. ASSUME NEW j \in Jobs, LeaseExpires(j) \/ ScheduleComes(j)
      PROVE AttemptsWithinCap'
  BY <1>3 DEF LeaseExpires, ScheduleComes
<1>4. ASSUME NEW w \in Workers, NEW scope, NEW limit, PickRows(w, scope, limit)
      PROVE AttemptsWithinCap'
  BY <1>4 DEF PickRows
<1>5. ASSUME NEW w \in Workers, CommitClaim(w) PROVE AttemptsWithinCap'
  <2>1. \A j \in pick[w] : attempts[j] < MaxAttempts[j]
    BY <1>5 DEF PickedRowsStayClaimable, Claimable
  <2>2. \A j \in Jobs : attempts'[j] = IF j \in pick[w] THEN attempts[j] + 1
                                                       ELSE attempts[j]
    BY <1>5 DEF CommitClaim
  <2> QED
    BY <2>1, <2>2
<1>6. ASSUME NEW w \in Workers, AbortClaim(w) PROVE AttemptsWithinCap'
  BY <1>6 DEF AbortClaim
<1>7. ASSUME NEW w \in Workers, NEW j \in Jobs, Report(w, j)
      PROVE AttemptsWithinCap'
  BY <1>7 DEF Report, HeartbeatJob, CompleteJob, FailJob
<1>8. CASE RequeueStuckJobs
  BY <1>8 DEF RequeueStuckJobs
<1>9. CASE UNCHANGED jobVars
  BY <1>9 DEF jobVars
<1> QED
  BY <1>1, <1>2, <1>3, <1>4, <1>5, <1>6, <1>7, <1>8, <1>9 DEF Next, Claim

\* A row is claimed at most max_attempts times between two operator requeues,
\* because no statement reaches a row between the check of its attempts and
\* the commit that counts the claim.
THEOREM AttemptsBounded == Spec => []AttemptsWithinCap
<1>1. Init => AttemptsWithinCap
  BY JobQueueAssumption DEF Init, AttemptsWithinCap
<1> QED
  BY <1>1, AttemptsStep, TypeCorrect, PicksHold, PTL DEF Spec, RowsInv

-----------------------------------------------------------------------------
(* Only the INSERT and the operator's requeue put a row in flight that was *)
(* not, one at a time, and the unique index checks both.                   *)
InFlightRows == {j \in Jobs : status[j] \in InFlight}

LEMMA KeptByOthers ==
  ASSUME OneInFlightPerKey, InFlightRows' \subseteq InFlightRows
  PROVE  OneInFlightPerKey'
BY DEF OneInFlightPerKey, InFlightRows

LEMMA KeptByIndex ==
  ASSUME OneInFlightPerKey, NEW j \in Jobs, KeyFree(j),
         InFlightRows' \subseteq InFlightRows \cup {j}
  PROVE  OneInFlightPerKey'
BY DEF OneInFlightPerKey, InFlightRows, KeyFree

\* No type and key have two rows in flight.
THEOREM KeysUnique == Spec => []OneInFlightPerKey
<1>1. Init => OneInFlightPerKey
  BY DEF Init, OneInFlightPerKey, InFlight
<1>2. RowsInv /\ OneInFlightPerKey /\ [Next]_jobVars => OneInFlightPerKey'
  <2> SUFFICES ASSUME RowsInv, OneInFlightPerKey, [Next]_jobVars
               PROVE  OneInFlightPerKey'
    OBVIOUS
  <2> USE DEF RowsInv, TypeOK
  <2>1. ASSUME NEW j \in Jobs, EnqueueJob(j) PROVE OneInFlightPerKey'
    <3>1. InFlightRows' \subseteq InFlightRows \cup {j}
      BY <2>1 DEF EnqueueJob, InFlightRows
    <3> QED
      BY <2>1, <3>1, KeptByIndex DEF EnqueueJob
  <2>2. ASSUME NEW j \in Jobs, Admin(j) PROVE OneInFlightPerKey'
    <3>1. CASE AdminRequeueJob(j)
      <4>1. InFlightRows' \subseteq InFlightRows \cup {j}
        BY <3>1 DEF AdminRequeueJob, InFlightRows
      <4> QED
        BY <3>1, <4>1, KeptByIndex DEF AdminRequeueJob
    <3>2. CASE AdminCancelJob(j) \/ PurgeOldDoneJobs(j)
      <4>1. InFlightRows' \subseteq InFlightRows
        BY <3>2 DEF AdminCancelJob, PurgeOldDoneJobs, InFlightRows, InFlight
      <4> QED
        BY <4>1, KeptByOthers
    <3> QED
      BY <2>2, <3>1, <3>2 DEF Admin
  <2>3. ASSUME NEW w \in Workers, CommitClaim(w) PROVE OneInFlightPerKey'
    <3>1. InFlightRows' \subseteq InFlightRows
      BY <2>3 DEF CommitClaim, InFlightRows, InFlight, PickedRowsStayClaimable,
                  Claimable
    <3> QED
      BY <3>1, KeptByOthers
  <2>4. ASSUME NEW w \in Workers, NEW j \in Jobs, Report(w, j)
        PROVE OneInFlightPerKey'
    <3>1. InFlightRows' \subseteq InFlightRows
      BY <2>4 DEF Report, HeartbeatJob, CompleteJob, FailJob, Owns,
                  InFlightRows, InFlight
    <3> QED
      BY <3>1, KeptByOthers
  <2>5. CASE RequeueStuckJobs
    <3>1. InFlightRows' \subseteq InFlightRows
      BY <2>5 DEF RequeueStuckJobs, Stuck, InFlightRows, InFlight
    <3> QED
      BY <3>1, KeptByOthers
  <2>6. CASE status' = status
    BY <2>6, KeptByOthers DEF InFlightRows
  <2> QED
    BY <2>1, <2>2, <2>3, <2>4, <2>5, <2>6
    DEF Next, Claim, PickRows, AbortClaim, LeaseExpires, ScheduleComes, jobVars
<1> QED
  BY <1>1, <1>2, TypeCorrect, PicksHold, PTL DEF Spec, RowsInv

-----------------------------------------------------------------------------
\* A running row has an owner and a lease, so that the watchdog can find it;
\* one that went back to the queue or failed has neither, so that no late
\* report finds it.
THEOREM ClaimsTracked == Spec => []ClaimMatchesStatus
<1>1. Init => ClaimMatchesStatus
  BY DEF Init, ClaimMatchesStatus
<1>2. RowsInv /\ ClaimMatchesStatus /\ [Next]_jobVars => ClaimMatchesStatus'
  <2> SUFFICES ASSUME RowsInv, ClaimMatchesStatus, [Next]_jobVars
               PROVE  ClaimMatchesStatus'
    OBVIOUS
  <2> USE DEF RowsInv, TypeOK, ClaimMatchesStatus
  <2>1. ASSUME NEW j \in Jobs, EnqueueJob(j) PROVE ClaimMatchesStatus'
    BY <2>1 DEF EnqueueJob
  <2>2. ASSUME NEW j \in Jobs, Admin(j) PROVE ClaimMatchesStatus'
    BY <2>2 DEF Admin, AdminRequeueJob, AdminCancelJob, PurgeOldDoneJobs
  <2>3. ASSUME NEW j \in Jobs, LeaseExpires(j) \/ ScheduleComes(j)
        PROVE ClaimMatchesStatus'
    BY <2>3 DEF LeaseExpires, ScheduleComes
  <2>4. ASSUME NEW w \in Workers, NEW scope, NEW limit, PickRows(w, scope, limit)
        PROVE ClaimMatchesStatus'
    BY <2>4 DEF PickRows
  <2>5. ASSUME NEW w \in Workers, CommitClaim(w) PROVE ClaimMatchesStatus'
    BY <2>5, JobQueueAssumption DEF CommitClaim
  <2>6. ASSUME NEW w \in Workers, AbortClaim(w) PROVE ClaimMatchesStatus'
    BY <2>6 DEF AbortClaim
  <2>7. ASSUME NEW w \in Workers, NEW j \in Jobs, Report(w, j)
        PROVE ClaimMatchesStatus'
    BY <2>7 DEF Report, HeartbeatJob, CompleteJob, FailJob, Owns
  <2>8. CASE RequeueStuckJobs
    BY <2>8 DEF RequeueStuckJobs
  <2>9. CASE UNCHANGED jobVars
    BY <2>9 DEF jobVars
  <2> QED
    BY <2>1, <2>2, <2>3, <2>4, <2>5, <2>6, <2>7, <2>8, <2>9 DEF Next, Claim
<1> QED
  BY <1>1, <1>2, TypeCorrect, PicksHold, PTL DEF Spec, RowsInv

-----------------------------------------------------------------------------
\* A finished row is never run again: a claim holds no finished row, and the
\* reports, the watchdog and the operator check the status they act on.
THEOREM DoneStaysDone == Spec => DoneIsFinal
<1>1. RowsInv /\ [Next]_jobVars
      => [\A j \in Jobs : status[j] = "done" => status'[j] \in {"done", "purged"}]_status
  <2> SUFFICES ASSUME RowsInv, [Next]_jobVars, NEW j \in Jobs, status[j] = "done"
               PROVE  status'[j] \in {"done", "purged"}
    OBVIOUS
  <2> USE DEF RowsInv, TypeOK
  <2>1. ASSUME NEW i \in Jobs, EnqueueJob(i) PROVE status'[j] = "done"
    BY <2>1 DEF EnqueueJob
  <2>2. ASSUME NEW i \in Jobs, Admin(i) PROVE status'[j] \in {"done", "purged"}
    BY <2>2 DEF Admin, AdminRequeueJob, AdminCancelJob, PurgeOldDoneJobs
  <2>3. ASSUME NEW w \in Workers, CommitClaim(w) PROVE status'[j] = "done"
    BY <2>3 DEF CommitClaim, PickedRowsStayClaimable, Claimable
  <2>4. ASSUME NEW w \in Workers, NEW i \in Jobs, Report(w, i)
        PROVE status'[j] = "done"
    BY <2>4 DEF Report, HeartbeatJob, CompleteJob, FailJob, Owns
  <2>5. CASE RequeueStuckJobs
    BY <2>5 DEF RequeueStuckJobs, Stuck
  <2>6. CASE status' = status
    BY <2>6
  <2> QED
    BY <2>1, <2>2, <2>3, <2>4, <2>5, <2>6
    DEF Next, Claim, PickRows, AbortClaim, LeaseExpires, ScheduleComes, jobVars
<1> QED
  BY <1>1, TypeCorrect, PicksHold, PTL DEF Spec, RowsInv, DoneIsFinal

-----------------------------------------------------------------------------
(* External workers: every request the server serves is a statement of the *)
(* table, and a late one must not touch a later claim's work.              *)
\* The external workers name themselves, each by an id of its own.
OwnIds == \A v, w \in Workers : WorkerId[v] = WorkerId[w] => v = w

\* The attempts of a claim only fall behind the row's: whoever works on the
\* latest claim of a running row is its owner, and a client that waits has one
\* claim per request.
RemoteInv ==
  /\ RemoteTypeOK
  /\ \A w \in Workers, j \in Jobs : task[w][j] <= attempts[j]
  /\ \A j \in Jobs : status[j] = "running" => attempts[j] > 0
  /\ \A w \in Workers, j \in Jobs :
       status[j] = "running" /\ task[w][j] = attempts[j] => claimedBy[j] = WorkerId[w]
  /\ \A r \in wire : r.client \notin Impatient =>
       pick[r.client] = {} /\ task[r.client][r.job] \in {0, r.claim}

\* What every statement but the claim's commit does to a row and its owner.
Stays == /\ TypeOK'
         /\ UNCHANGED attempts
         /\ \A j \in Jobs : status'[j] = "running"
                              => status[j] = "running" /\ claimedBy'[j] = claimedBy[j]

LEMMA RemoteStatements ==
  ASSUME TypeOK
  PROVE  /\ \A w \in Workers, j \in Jobs :
              \/ HeartbeatJob(w, j) \/ CompleteJob(w, j)
              \/ FailJob(w, j, TRUE) \/ FailJob(w, j, FALSE)
              => Stays /\ UNCHANGED pick
         /\ \A j \in Jobs : \/ EnqueueJob(j) \/ LeaseExpires(j)
                            \/ ScheduleComes(j)
                            => Stays /\ UNCHANGED pick
         /\ RequeueStuckJobs => Stays /\ UNCHANGED pick
<1> USE DEF TypeOK, Statuses, Stays
<1>1. ASSUME NEW w \in Workers, NEW j \in Jobs,
             HeartbeatJob(w, j) \/ CompleteJob(w, j)
      PROVE  Stays /\ UNCHANGED pick
  BY <1>1 DEF HeartbeatJob, CompleteJob
<1>2. ASSUME NEW w \in Workers, NEW j \in Jobs, NEW terminal \in BOOLEAN,
             FailJob(w, j, terminal)
      PROVE  Stays /\ UNCHANGED pick
  BY <1>2 DEF FailJob
<1>3. ASSUME NEW j \in Jobs, EnqueueJob(j)
      PROVE  Stays /\ UNCHANGED pick
  BY <1>3 DEF EnqueueJob
<1>4. ASSUME NEW j \in Jobs, LeaseExpires(j) \/ ScheduleComes(j)
      PROVE  Stays /\ UNCHANGED pick
  BY <1>4 DEF LeaseExpires, ScheduleComes
<1>5. ASSUME RequeueStuckJobs PROVE Stays /\ UNCHANGED pick
  BY <1>5 DEF RequeueStuckJobs
<1> QED
  BY <1>1, <1>2, <1>3, <1>4, <1>5

\* The clients' tasks only end, or keep, while such a statement runs.
LEMMA RemoteStays ==
  ASSUME RemoteInv, Stays,
         task' \in [Workers -> [Jobs -> Nat]],
         \A w \in Workers, j \in Jobs : task'[w][j] \in {0, task[w][j]},
         wire' \subseteq wire,
         \A r \in wire' : r.client \notin Impatient => pick'[r.client] = {}
  PROVE  RemoteInv'
<1>t. /\ attempts \in [Jobs -> Nat] /\ task \in [Workers -> [Jobs -> Nat]]
      /\ wire \subseteq Requests
  BY DEF RemoteInv, RemoteTypeOK, TypeOK
<1>1. RemoteTypeOK'
  BY <1>t DEF RemoteTypeOK, Stays, Requests, Ops
<1>2. \A w \in Workers, j \in Jobs : task'[w][j] <= attempts'[j]
  BY <1>t DEF RemoteInv, Stays
<1>3. \A j \in Jobs : status'[j] = "running" => attempts'[j] > 0
  BY DEF RemoteInv, Stays
<1>4. \A w \in Workers, j \in Jobs :
        status'[j] = "running" /\ task'[w][j] = attempts'[j] => claimedBy'[j] = WorkerId[w]
  BY <1>3, <1>t DEF RemoteInv, Stays
<1>5. \A r \in wire' : r.client \notin Impatient =>
        pick'[r.client] = {} /\ task'[r.client][r.job] \in {0, r.claim}
  BY <1>t DEF RemoteInv, Requests
<1> QED
  BY <1>1, <1>2, <1>3, <1>4, <1>5 DEF RemoteInv

LEMMA RemoteStep == RemoteInv /\ [RemoteNext]_(remoteVars) => RemoteInv'
<1> SUFFICES ASSUME RemoteInv, [RemoteNext]_(remoteVars) PROVE RemoteInv'
  OBVIOUS
<1>t. /\ TypeOK
      /\ task \in [Workers -> [Jobs -> Nat]]
      /\ wire \subseteq Requests
      /\ attempts \in [Jobs -> Nat] /\ pick \in [Workers -> SUBSET Jobs]
      /\ \A r \in wire : r.client \notin Impatient => pick[r.client] = {}
      /\ \A r \in wire : r.client \in Workers /\ r.job \in Jobs
      /\ \A w \in Workers, j \in Jobs : task[w][j] <= attempts[j]
  BY DEF RemoteInv, RemoteTypeOK, TypeOK, Requests
<1>1. ASSUME NEW w \in Workers, ClaimStarts(w) PROVE RemoteInv'
  <2>1. /\ ~Waiting(w) /\ UNCHANGED <<task, wire>>
        /\ UNCHANGED <<status, attempts, claimedBy, lease, due, enqueuedAt, clock>>
    BY <1>1 DEF ClaimStarts, PickRows
  <2>2. PICK scope, limit : PickRows(w, scope, limit)
    BY <1>1 DEF ClaimStarts
  <2> DEFINE new == FirstRows(SkipLocked(scope), limit)
  <2>3. new \subseteq Jobs
    BY DEF FirstRows, SkipLocked
  <2>4. pick' = [pick EXCEPT ![w] = new]
    BY <2>2 DEF PickRows
  <2> HIDE DEF new
  <2>5. TypeOK'
    BY <2>1, <2>3, <2>4, <1>t DEF TypeOK
  <2>6. Stays
    BY <2>1, <2>5 DEF Stays
  <2>7. \A r \in wire : r.client \notin Impatient => r.client # w
    BY <2>1 DEF Waiting
  <2>8. \A r \in wire' : r.client \notin Impatient => pick'[r.client] = {}
    BY <2>1, <2>4, <2>7, <1>t
  <2> QED
    BY <2>1, <2>6, <2>8, <1>t, RemoteStays
<1>2. ASSUME NEW w \in Workers, ClaimEnds(w) PROVE RemoteInv'
  <2>1. /\ pick[w] # {}
        /\ status' = [j \in Jobs |-> IF j \in pick[w] THEN "running" ELSE status[j]]
        /\ attempts' = [j \in Jobs |-> IF j \in pick[w] THEN attempts[j] + 1 ELSE attempts[j]]
        /\ claimedBy' = [j \in Jobs |-> IF j \in pick[w] THEN WorkerId[w] ELSE claimedBy[j]]
        /\ lease' = [j \in Jobs |-> IF j \in pick[w] THEN "live" ELSE lease[j]]
        /\ pick' = [pick EXCEPT ![w] = {}]
        /\ UNCHANGED <<due, enqueuedAt, clock, wire>>
    BY <1>2 DEF ClaimEnds, CommitClaim
  <2>2. /\ task' \in [Workers -> [Jobs -> Nat]]
        /\ \A v \in Workers, j \in Jobs :
             \/ task'[v][j] = task[v][j]
             \/ v = w /\ j \in pick[w] /\ task'[v][j] = attempts[j] + 1
        /\ \A v \in Workers : v # w => task'[v] = task[v]
    <3> DEFINE new == [j \in Jobs |-> IF j \in pick[w] THEN attempts[j] + 1 ELSE task[w][j]]
    <3>1. UNCHANGED task \/ task' = [task EXCEPT ![w] = new]
      BY <1>2 DEF ClaimEnds
    <3>2. /\ new \in [Jobs -> Nat]
          /\ \A j \in Jobs : \/ new[j] = task[w][j]
                             \/ j \in pick[w] /\ new[j] = attempts[j] + 1
      <4>1. task[w] \in [Jobs -> Nat]
        BY <1>t
      <4>2. \A j \in Jobs : attempts[j] + 1 \in Nat
        BY <1>t
      <4> QED
        BY <4>1, <4>2
    <3> HIDE DEF new
    <3>3. CASE UNCHANGED task
      BY <3>3, <1>t
    <3>4. CASE task' = [task EXCEPT ![w] = new]
      <4>1. task' \in [Workers -> [Jobs -> Nat]]
        BY <3>4, <3>2, <1>t
      <4>2. task'[w] = new /\ \A v \in Workers : v # w => task'[v] = task[v]
        BY <3>4, <1>t
      <4> QED
        BY <4>1, <4>2, <3>2
    <3> QED
      BY <3>1, <3>3, <3>4
  <2>3. TypeOK'
    BY <2>1, <1>t DEF TypeOK, Statuses
  <2>4. RemoteTypeOK'
    BY <2>1, <2>2, <2>3, <1>t DEF RemoteTypeOK, Requests, Ops
  <2>5. \A v \in Workers, j \in Jobs : task'[v][j] <= attempts'[j]
    BY <2>1, <2>2, <1>t
  <2>6. \A j \in Jobs : status'[j] = "running" => attempts'[j] > 0
    BY <2>1, <1>t DEF RemoteInv
  <2>7. \A v \in Workers, j \in Jobs :
          status'[j] = "running" /\ task'[v][j] = attempts'[j] => claimedBy'[j] = WorkerId[v]
    <3> SUFFICES ASSUME NEW v \in Workers, NEW j \in Jobs,
                        status'[j] = "running", task'[v][j] = attempts'[j]
                 PROVE  claimedBy'[j] = WorkerId[v]
      OBVIOUS
    <3>1. CASE j \in pick[w]
      <4>1. attempts'[j] = attempts[j] + 1 /\ claimedBy'[j] = WorkerId[w]
        BY <2>1, <3>1
      <4>2. v = w
        BY <2>2, <4>1, <1>t
      <4> QED
        BY <4>1, <4>2
    <3>2. CASE j \notin pick[w]
      BY <2>1, <2>2, <3>2 DEF RemoteInv
    <3> QED
      BY <3>1, <3>2
  <2>8. \A r \in wire' : r.client \notin Impatient =>
          pick'[r.client] = {} /\ task'[r.client][r.job] \in {0, r.claim}
    <3> SUFFICES ASSUME NEW r \in wire, r.client \notin Impatient
                 PROVE  pick'[r.client] = {} /\ task'[r.client][r.job] \in {0, r.claim}
      BY <2>1
    <3>1. r.client # w /\ pick[r.client] = {}
      BY <2>1, <1>t
    <3> QED
      BY <2>1, <2>2, <3>1, <1>t DEF RemoteInv
  <2> QED
    BY <2>4, <2>5, <2>6, <2>7, <2>8 DEF RemoteInv
<1>3. ASSUME NEW w \in Workers, ClientCrash(w) PROVE RemoteInv'
  <2>1. /\ task' = [task EXCEPT ![w] = [j \in Jobs |-> 0]]
        /\ wire' \subseteq wire
        /\ pick' = [pick EXCEPT ![w] = {}]
        /\ UNCHANGED <<status, attempts, claimedBy, lease, due, enqueuedAt, clock>>
    BY <1>3 DEF ClientCrash
  <2>2. TypeOK'
    BY <2>1, <1>t DEF TypeOK
  <2>3. Stays
    BY <2>1, <2>2 DEF Stays
  <2>4. /\ task' \in [Workers -> [Jobs -> Nat]]
        /\ \A v \in Workers, j \in Jobs : task'[v][j] \in {0, task[v][j]}
    BY <2>1, <1>t
  <2>5. \A r \in wire' : r.client \notin Impatient => pick'[r.client] = {}
    BY <2>1, <1>t
  <2> QED
    BY <2>1, <2>3, <2>4, <2>5, RemoteStays
<1>4. ASSUME NEW w \in Workers, NEW j \in Jobs, NEW op \in Ops, Send(w, j, op)
      PROVE  RemoteInv'
  <2> DEFINE sent == [client |-> w, job |-> j, op |-> op, claim |-> task[w][j]]
  <2>1. /\ pick[w] = {} /\ wire' = wire \cup {sent}
        /\ UNCHANGED <<status, attempts, claimedBy, lease, due, enqueuedAt, clock, pick, task>>
    BY <1>4 DEF Send, jobVars
  <2>2. sent \in Requests
    BY <1>t DEF Requests
  <2>3. sent.client = w /\ sent.job = j /\ sent.claim = task[w][j]
    OBVIOUS
  <2> HIDE DEF sent
  <2>4. RemoteTypeOK'
    BY <2>1, <2>2, <1>t DEF RemoteTypeOK, TypeOK, Requests, Ops,
       Statuses
  <2>5. \A r \in wire' : r.client \notin Impatient =>
          pick'[r.client] = {} /\ task'[r.client][r.job] \in {0, r.claim}
    BY <2>1, <2>3, <1>t DEF RemoteInv
  <2> QED
    BY <2>1, <2>4, <2>5 DEF RemoteInv
<1>5. ASSUME NEW r \in wire, Serve(r) PROVE RemoteInv'
  <2>1. r.client \in Workers /\ r.job \in Jobs
    BY <1>t
  <2>2. Effect(r) \/ UNCHANGED jobVars
    BY <1>5 DEF Serve
  <2>3. Stays /\ UNCHANGED pick
    <3>1. Effect(r) => Stays /\ UNCHANGED pick
      BY <2>1, <1>t, RemoteStatements DEF Effect
    <3>2. UNCHANGED jobVars => Stays /\ UNCHANGED pick
      BY <1>t DEF jobVars, Stays, TypeOK
    <3> QED
      BY <2>2, <3>1, <3>2
  <2>4. UNCHANGED task \/ task' = [task EXCEPT ![r.client][r.job] = 0]
    BY <1>5 DEF Serve, Answered
  <2>5. /\ task' \in [Workers -> [Jobs -> Nat]]
        /\ \A v \in Workers, j \in Jobs : task'[v][j] \in {0, task[v][j]}
    <3> DEFINE new == [task[r.client] EXCEPT ![r.job] = 0]
    <3>1. UNCHANGED task \/ task' = [task EXCEPT ![r.client] = new]
      BY <2>4
    <3>2. /\ new \in [Jobs -> Nat]
          /\ \A j \in Jobs : new[j] \in {0, task[r.client][j]}
      BY <2>1, <1>t
    <3> HIDE DEF new
    <3> QED
      BY <2>1, <3>1, <3>2, <1>t
  <2>6. wire' \subseteq wire
    BY <1>5 DEF Serve
  <2> QED
    BY <2>3, <2>5, <2>6, <1>t, RemoteStays
<1>6. ASSUME NEW r \in wire, Lose(r) PROVE RemoteInv'
  <2>1. wire' \subseteq wire /\ UNCHANGED task /\ UNCHANGED jobVars
    BY <1>6 DEF Lose
  <2>2. Stays /\ UNCHANGED pick
    BY <2>1, <1>t DEF jobVars, Stays, TypeOK
  <2> QED
    BY <2>1, <2>2, <1>t, RemoteStays
<1>7. CASE Elsewhere
  <2>1. UNCHANGED <<task, wire>> /\ Stays /\ UNCHANGED pick
    BY <1>7, <1>t, RemoteStatements DEF Elsewhere
  <2> QED
    BY <2>1, <1>t, RemoteStays
<1>8. CASE UNCHANGED remoteVars
  <2>1. UNCHANGED wire /\ UNCHANGED task /\ UNCHANGED jobVars
    BY <1>8 DEF remoteVars
  <2>2. Stays /\ UNCHANGED pick
    BY <2>1, <1>t DEF jobVars, Stays, TypeOK
  <2> QED
    BY <2>1, <2>2, <1>t, RemoteStays
<1> QED
  BY <1>1, <1>2, <1>3, <1>4, <1>5, <1>6, <1>7, <1>8 DEF RemoteNext

\* A request that the server accepts, however late and from whichever client,
\* is not about a claim that somebody else was given since: if every client has
\* an id of its own.
THEOREM LateRequestsAreCurrent ==
  OwnIds /\ RemoteSpec => []AcceptedRequestsAreCurrent
<1> SUFFICES ASSUME OwnIds PROVE RemoteSpec => []AcceptedRequestsAreCurrent
  OBVIOUS
<1>1. RemoteInit => RemoteInv
  BY JobQueueAssumption DEF RemoteInit, Init, RemoteInv, RemoteTypeOK,
     TypeOK, Statuses
<1>2. RemoteInv => AcceptedRequestsAreCurrent
  <2> SUFFICES ASSUME RemoteInv, NEW r \in wire, Owns(r.client, r.job)
               PROVE  /\ \A w \in Workers \ {r.client} : task[w][r.job] # attempts[r.job]
                      /\ r.client \notin Impatient => task[r.client][r.job] \in {0, r.claim}
    BY DEF AcceptedRequestsAreCurrent
  <2>1. r.client \in Workers /\ r.job \in Jobs
    BY DEF RemoteInv, RemoteTypeOK, Requests
  <2>2. status[r.job] = "running" /\ claimedBy[r.job] = WorkerId[r.client]
    BY DEF Owns
  <2> QED
    BY <2>1, <2>2 DEF RemoteInv, OwnIds
<1> QED
  BY <1>1, <1>2, RemoteStep, PTL DEF RemoteSpec
=============================================================================
