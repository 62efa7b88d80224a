------------------------------ MODULE JobQueue ------------------------------
(***************************************************************************)
(* The jobs table of the background work queue, and the SQL statements     *)
(* that change it (app/internal/jobs: queries.sql, jobs.go, admin.go).     *)
(*                                                                         *)
(* Every statement is one action, taken by any client at any moment: this  *)
(* is the most general client, of which the in-process pool (JobPool) and  *)
(* the HTTP surface of external workers are special cases.  A claim is two *)
(* steps, the row lock of FOR UPDATE SKIP LOCKED and the commit, because   *)
(* other statements see the table in between.                              *)
(*                                                                         *)
(* A row's type, priority, max_attempts and idempotency key never change   *)
(* after the INSERT, so they are constants of the row's id.  Wall clock    *)
(* time appears as two facts about a row: whether scheduled_for has come   *)
(* (due) and whether lease_expires_at has passed (lease = "expired").      *)
(***************************************************************************)
EXTENDS Integers, FiniteSets

CONSTANTS
  Jobs,            \* ids the INSERT may draw (gen_random_uuid: never reused)
  Types,           \* job types
  Workers,         \* clients that claim: goroutines of pools, external slots
  WorkerId,        \* the claimed_by string each client uses
  NULL,            \* the SQL NULL
  JobType,         \* type of each row
  Priority,        \* priority of each row, lower runs sooner
  MaxAttempts,     \* max_attempts of each row
  IdempotencyKey,  \* (type, idempotency_key) of each row, NULL if none
  BatchLimit       \* what ClaimBatch clamps the limit to (25)

ASSUME JobQueueAssumption ==
  /\ IsFiniteSet(Jobs)
  /\ JobType \in [Jobs -> Types]
  /\ Priority \in [Jobs -> Int]
  /\ MaxAttempts \in [Jobs -> Nat]
  /\ BatchLimit \in Nat \ {0}
  /\ NULL \notin {WorkerId[w] : w \in Workers}

VARIABLES
  status,       \* lifecycle of each row; "absent" before, "purged" after
  attempts,     \* claims since the INSERT or the last admin requeue
  claimedBy,    \* claimed_by
  lease,        \* lease_expires_at: NULL, in the future, in the past
  due,          \* scheduled_for is NULL or has come
  enqueuedAt,   \* enqueued_at, as the position in the order of INSERTs
  clock,        \* number of INSERTs so far
  pick          \* rows locked by each client's uncommitted claim statement

jobVars == <<status, attempts, claimedBy, lease, due, enqueuedAt, clock, pick>>

Statuses == {"absent", "pending", "running", "done", "failed", "cancelled",
             "purged"}
InFlight == {"pending", "running"}

-----------------------------------------------------------------------------
(* What the WHERE clauses and the unique index say.                        *)

\* Mutant: the unique index covers pending rows only.
KeyFreeOfPending(j) ==
  \/ IdempotencyKey[j] = NULL
  \/ \A i \in Jobs \ {j} : status[i] = "pending"
                             => IdempotencyKey[i] # IdempotencyKey[j]

\* Mutant: it covers running rows only.
KeyFreeOfRunning(j) ==
  \/ IdempotencyKey[j] = NULL
  \/ \A i \in Jobs \ {j} : status[i] = "running"
                             => IdempotencyKey[i] # IdempotencyKey[j]

\* uq_jobs_idempotency_key: at most one in-flight row per (type, key).
KeyFree(j) ==
  \/ IdempotencyKey[j] = NULL
  \/ \A i \in Jobs \ {j} : status[i] \in InFlight
                             => IdempotencyKey[i] # IdempotencyKey[j]

\* Mutant: the claim does not look at attempts.
ClaimableForEver(j) == status[j] = "pending" /\ due[j]

Claimable(j) == /\ status[j] = "pending"
                /\ due[j]
                /\ attempts[j] < MaxAttempts[j]

\* An empty scope claims any type.
InScope(j, scope) == scope = {} \/ JobType[j] \in scope

Locked == UNION {pick[w] : w \in Workers}

\* Mutant: a plain SELECT, without FOR UPDATE SKIP LOCKED.
SelectUnlocked(scope) == {j \in Jobs : Claimable(j) /\ InScope(j, scope)}

SkipLocked(scope) == {j \in Jobs \ Locked : Claimable(j) /\ InScope(j, scope)}

\* ORDER BY priority ASC, enqueued_at ASC LIMIT n
Before(i, j) == \/ Priority[i] < Priority[j]
                \/ Priority[i] = Priority[j] /\ enqueuedAt[i] < enqueuedAt[j]

FirstRows(S, n) == {j \in S : Cardinality({i \in S : Before(i, j)}) < n}

\* Mutants: a report names the row and the worker, or only a running row.
OwnsAnyStatus(w, j) == claimedBy[j] = WorkerId[w]
OwnsAnyWorker(w, j) == status[j] = "running"

Owns(w, j) == status[j] = "running" /\ claimedBy[j] = WorkerId[w]

\* Mutant: the watchdog leaves exhausted rows alone.
StuckWithAttempts(j) ==
  status[j] = "running" /\ lease[j] = "expired" /\ attempts[j] < MaxAttempts[j]

Stuck(j) == status[j] = "running" /\ lease[j] = "expired"

-----------------------------------------------------------------------------
Init ==
  /\ status = [j \in Jobs |-> "absent"]
  /\ attempts = [j \in Jobs |-> 0]
  /\ claimedBy = [j \in Jobs |-> NULL]
  /\ lease = [j \in Jobs |-> "none"]
  /\ due = [j \in Jobs |-> FALSE]
  /\ enqueuedAt = [j \in Jobs |-> 0]
  /\ clock = 0
  /\ pick = [w \in Workers |-> {}]

\* EnqueueJob: a fresh row, unless the unique index rejects it.
EnqueueJob(j) ==
  /\ status[j] = "absent"
  /\ KeyFree(j)
  /\ status' = [status EXCEPT ![j] = "pending"]
  /\ \E scheduledNow \in BOOLEAN : due' = [due EXCEPT ![j] = scheduledNow]
  /\ enqueuedAt' = [enqueuedAt EXCEPT ![j] = clock]
  /\ clock' = clock + 1
  /\ UNCHANGED <<attempts, claimedBy, lease, pick>>

\* ClaimNextJob / ClaimJobBatch, the inner SELECT: locks the first limit rows.
PickRows(w, scope, limit) ==
  /\ pick[w] = {}
  /\ SkipLocked(scope) # {}
  /\ pick' = [pick EXCEPT ![w] = FirstRows(SkipLocked(scope), limit)]
  /\ UNCHANGED <<status, attempts, claimedBy, lease, due, enqueuedAt, clock>>

\* Mutant: attempts are counted elsewhere, not by the claim.
CommitUncounted(w) ==
  /\ pick[w] # {}
  /\ status' = [j \in Jobs |-> IF j \in pick[w] THEN "running" ELSE status[j]]
  /\ claimedBy' =
       [j \in Jobs |-> IF j \in pick[w] THEN WorkerId[w] ELSE claimedBy[j]]
  /\ lease' = [j \in Jobs |-> IF j \in pick[w] THEN "live" ELSE lease[j]]
  /\ pick' = [pick EXCEPT ![w] = {}]
  /\ UNCHANGED <<attempts, due, enqueuedAt, clock>>

\* The UPDATE of the picked rows, and the commit that releases the locks.
CommitClaim(w) ==
  /\ pick[w] # {}
  /\ status' = [j \in Jobs |-> IF j \in pick[w] THEN "running" ELSE status[j]]
  /\ attempts' =
       [j \in Jobs |-> IF j \in pick[w] THEN attempts[j] + 1 ELSE attempts[j]]
  /\ claimedBy' =
       [j \in Jobs |-> IF j \in pick[w] THEN WorkerId[w] ELSE claimedBy[j]]
  /\ lease' = [j \in Jobs |-> IF j \in pick[w] THEN "live" ELSE lease[j]]
  /\ pick' = [pick EXCEPT ![w] = {}]
  /\ UNCHANGED <<due, enqueuedAt, clock>>

\* The claim's connection or context is gone: the statement rolls back.
AbortClaim(w) ==
  /\ pick[w] # {}
  /\ pick' = [pick EXCEPT ![w] = {}]
  /\ UNCHANGED <<status, attempts, claimedBy, lease, due, enqueuedAt, clock>>

\* HeartbeatJob: extends the lease, even one that has already expired.
HeartbeatJob(w, j) ==
  /\ Owns(w, j)
  /\ lease' = [lease EXCEPT ![j] = "live"]
  /\ UNCHANGED <<status, attempts, claimedBy, due, enqueuedAt, clock, pick>>

\* CompleteJob: claimed_by and the lease stay on the finished row.
CompleteJob(w, j) ==
  /\ Owns(w, j)
  /\ status' = [status EXCEPT ![j] = "done"]
  /\ UNCHANGED <<attempts, claimedBy, lease, due, enqueuedAt, clock, pick>>

\* FailJob: back to pending while attempts are left, unless terminal.
FailJob(w, j, terminal) ==
  /\ Owns(w, j)
  /\ status' = [status EXCEPT ![j] =
                  IF terminal \/ attempts[j] >= MaxAttempts[j]
                  THEN "failed" ELSE "pending"]
  /\ claimedBy' = [claimedBy EXCEPT ![j] = NULL]
  /\ lease' = [lease EXCEPT ![j] = "none"]
  /\ UNCHANGED <<attempts, due, enqueuedAt, clock, pick>>

\* Mutant: the requeue keeps claimed_by.
RequeueKeepingOwner ==
  /\ \E j \in Jobs : Stuck(j)
  /\ status' = [j \in Jobs |-> IF Stuck(j) THEN "pending" ELSE status[j]]
  /\ lease' = [j \in Jobs |-> IF Stuck(j) THEN "none" ELSE lease[j]]
  /\ UNCHANGED <<attempts, claimedBy, due, enqueuedAt, clock, pick>>

\* RequeueStuckJobs: one UPDATE over every row whose lease has expired.
RequeueStuckJobs ==
  /\ \E j \in Jobs : Stuck(j)
  /\ status' = [j \in Jobs |-> IF Stuck(j) THEN "pending" ELSE status[j]]
  /\ claimedBy' = [j \in Jobs |-> IF Stuck(j) THEN NULL ELSE claimedBy[j]]
  /\ lease' = [j \in Jobs |-> IF Stuck(j) THEN "none" ELSE lease[j]]
  /\ UNCHANGED <<attempts, due, enqueuedAt, clock, pick>>

\* PurgeOldDoneJobs, on a row past its retention.
PurgeOldDoneJobs(j) ==
  /\ status[j] = "done"
  /\ status' = [status EXCEPT ![j] = "purged"]
  /\ UNCHANGED <<attempts, claimedBy, lease, due, enqueuedAt, clock, pick>>

\* Mutant: the operator's requeue gives one attempt back.
AdminRequeueOneAttempt(j) ==
  /\ status[j] \in {"failed", "cancelled"}
  /\ KeyFree(j)
  /\ status' = [status EXCEPT ![j] = "pending"]
  /\ attempts' = [attempts EXCEPT ![j] = @ - 1]
  /\ claimedBy' = [claimedBy EXCEPT ![j] = NULL]
  /\ lease' = [lease EXCEPT ![j] = "none"]
  /\ UNCHANGED <<due, enqueuedAt, clock, pick>>

\* AdminRequeueJob: an operator retries a dead row; the index may refuse it.
AdminRequeueJob(j) ==
  /\ status[j] \in {"failed", "cancelled"}
  /\ KeyFree(j)
  /\ status' = [status EXCEPT ![j] = "pending"]
  /\ attempts' = [attempts EXCEPT ![j] = 0]
  /\ claimedBy' = [claimedBy EXCEPT ![j] = NULL]
  /\ lease' = [lease EXCEPT ![j] = "none"]
  /\ UNCHANGED <<due, enqueuedAt, clock, pick>>

\* AdminCancelJob waits for a row lock and then finds the row running.
AdminCancelJob(j) ==
  /\ status[j] \in {"pending", "failed"}
  /\ j \notin Locked
  /\ status' = [status EXCEPT ![j] = "cancelled"]
  /\ UNCHANGED <<attempts, claimedBy, lease, due, enqueuedAt, clock, pick>>

\* The two ways in which the passage of time changes what a row means.
LeaseExpires(j) ==
  /\ status[j] = "running" /\ lease[j] = "live"
  /\ lease' = [lease EXCEPT ![j] = "expired"]
  /\ UNCHANGED <<status, attempts, claimedBy, due, enqueuedAt, clock, pick>>

ScheduleComes(j) ==
  /\ status[j] \notin {"absent", "purged"} /\ ~due[j]
  /\ due' = [due EXCEPT ![j] = TRUE]
  /\ UNCHANGED <<status, attempts, claimedBy, lease, enqueuedAt, clock, pick>>

-----------------------------------------------------------------------------
Admin(j) == AdminRequeueJob(j) \/ AdminCancelJob(j) \/ PurgeOldDoneJobs(j)

Claim(w) == \/ \E scope \in SUBSET Types, limit \in 1..BatchLimit : PickRows(w, scope, limit)
            \/ CommitClaim(w)
            \/ AbortClaim(w)

Report(w, j) == \/ HeartbeatJob(w, j)
                \/ CompleteJob(w, j)
                \/ \E terminal \in BOOLEAN : FailJob(w, j, terminal)

Next ==
  \/ \E j \in Jobs : EnqueueJob(j) \/ Admin(j) \/ LeaseExpires(j) \/ ScheduleComes(j)
  \/ \E w \in Workers : Claim(w)
  \/ \E w \in Workers, j \in Jobs : Report(w, j)
  \/ RequeueStuckJobs

Spec == Init /\ [][Next]_jobVars

-----------------------------------------------------------------------------
TypeOK ==
  /\ status \in [Jobs -> Statuses]
  /\ attempts \in [Jobs -> Nat]
  /\ claimedBy \in [Jobs -> {WorkerId[w] : w \in Workers} \cup {NULL}]
  /\ lease \in [Jobs -> {"none", "live", "expired"}]
  /\ due \in [Jobs -> BOOLEAN]
  /\ enqueuedAt \in [Jobs -> Nat]
  /\ clock \in Nat
  /\ pick \in [Workers -> SUBSET Jobs]

\* No type and key have two rows in flight, whichever of an enqueue, a retry,
\* the watchdog or an operator's requeue put them there.
OneInFlightPerKey ==
  \A i, j \in Jobs :
    /\ i # j
    /\ status[i] \in InFlight /\ status[j] \in InFlight
    /\ IdempotencyKey[i] # NULL
    => IdempotencyKey[i] # IdempotencyKey[j]

\* A row is claimed at most max_attempts times between two operator requeues,
\* also when its workers die without reporting: the count moves at the claim.
AttemptsWithinCap == \A j \in Jobs : attempts[j] <= MaxAttempts[j]

\* A row lock is held by one claim only, and what it locked stays claimable
\* until the claim commits: no statement slips in between SELECT and UPDATE.
PickedRowsStayClaimable ==
  \A w \in Workers : \A j \in pick[w] :
    /\ Claimable(j)
    /\ \A v \in Workers \ {w} : j \notin pick[v]

\* A running row always has an owner and a lease, so the watchdog can find it;
\* a row that went back to the queue or failed has neither.
ClaimMatchesStatus ==
  \A j \in Jobs :
    /\ status[j] = "running" => claimedBy[j] # NULL /\ lease[j] # "none"
    /\ status[j] \in {"absent", "pending", "failed"}
         => claimedBy[j] = NULL /\ lease[j] = "none"

\* "Returns any job whose lease has expired to the pending pool so another
\* worker can pick it up" (RequeueStuckJobs): a row that is back in the queue
\* has an attempt left.
QueuedRowsCanBeClaimed ==
  \A j \in Jobs : status[j] = "pending" => attempts[j] < MaxAttempts[j]

\* A finished row is history: no late report, watchdog tick or operator action
\* runs it again (it can only be purged).
DoneIsFinal ==
  [][\A j \in Jobs : status[j] = "done" => status'[j] \in {"done", "purged"}]_status
=============================================================================
