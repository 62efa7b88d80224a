------------------------------ MODULE JobPool ------------------------------
(***************************************************************************)
(* The in-process worker pool on top of the jobs table                     *)
(* (app/internal/jobs/worker.go: Worker.Run, runOne, report, Pool.Start,   *)
(* Pool.Stop), with the faults it meets: database errors, answers lost     *)
(* after the statement committed, leases that expire under a live worker,  *)
(* graceful shutdown, and a crash and restart of the process.              *)
(*                                                                         *)
(* Queue is the table (JobQueue), Gate the per-type caps (JobGate).        *)
(***************************************************************************)
EXTENDS Integers, FiniteSets

CONSTANTS Jobs, Types, Workers, WorkerId, NULL, JobType, Priority, MaxAttempts,
          IdempotencyKey, BatchLimit, Registered, PoolTypes, TypeConcurrency,
          Faults  \* which of "dberror", "shutdown", "crash", "admin" happen

VARIABLES
  status, attempts, claimedBy, lease, due, enqueuedAt, clock, pick,  \* Queue
  stage, reserved, runType, held, typeRunning,                       \* Gate
  cur,      \* the job each worker runs
  exec,     \* runOne: "none", "handling", "returned", "draining"
  outcome,  \* what the handler returned: "ok", "error", "terminal"
  mode,     \* the process: "up", "stopping" (ctx cancelled), "down"
  holder,   \* history: the worker that was told of the row's latest claim
  starts    \* history: handler runs since the INSERT or the admin requeue

Queue == INSTANCE JobQueue
Gate == INSTANCE JobGate

\* Pool.Start numbers its goroutines and prefixes the id of the process.
ASSUME JobPoolAssumption ==
  /\ Queue!JobQueueAssumption
  /\ Gate!JobGateAssumption
  /\ NULL \notin Jobs
  /\ \A v, w \in Workers : WorkerId[v] = WorkerId[w] => v = w

queueVars == <<status, attempts, claimedBy, lease, due, enqueuedAt, clock, pick>>
gateVars == <<stage, reserved, runType, held, typeRunning>>
runVars == <<cur, exec, outcome>>
history == <<holder, starts>>
vars == <<queueVars, gateVars, runVars, mode, history>>

\* The row picked by w's claim (LIMIT 1).
Picked(w) == CHOOSE j \in Jobs : j \in pick[w]

StopsRunning(w) ==
  /\ cur' = [cur EXCEPT ![w] = NULL]
  /\ exec' = [exec EXCEPT ![w] = "none"]
  /\ outcome' = [outcome EXCEPT ![w] = NULL]

-----------------------------------------------------------------------------
Init ==
  /\ Queue!Init
  /\ Gate!Init
  /\ cur = [w \in Workers |-> NULL]
  /\ exec = [w \in Workers |-> "none"]
  /\ outcome = [w \in Workers |-> NULL]
  /\ mode = "up"
  /\ holder = [j \in Jobs |-> NULL]
  /\ starts = [j \in Jobs |-> 0]

\* Run: the worker asks the gate what it may claim.
Poll(w) ==
  /\ mode = "up"
  /\ Gate!ClaimScope(w)
  /\ UNCHANGED <<queueVars, runVars, mode, history>>

\* Run: ClaimNext reaches the database and locks the first row.
PickRow(w) ==
  /\ stage[w] = "claiming"
  /\ Queue!PickRows(w, reserved[w], 1)
  /\ UNCHANGED <<gateVars, runVars, mode, history>>

\* Run: the claim committed and the worker knows.  A job without a handler is
\* failed terminally without a run.
ClaimSucceeds(w) ==
  LET j == Picked(w) IN
  /\ stage[w] = "claiming" /\ pick[w] # {}
  /\ Queue!CommitClaim(w)
  /\ Gate!ClaimJob(w, JobType[j])
  /\ cur' = [cur EXCEPT ![w] = j]
  /\ holder' = [holder EXCEPT ![j] = w]
  /\ IF JobType[j] \in Registered
     THEN /\ exec' = [exec EXCEPT ![w] = "handling"]
          /\ starts' = [starts EXCEPT ![j] = @ + 1]
          /\ UNCHANGED outcome
     ELSE /\ exec' = [exec EXCEPT ![w] = "returned"]
          /\ outcome' = [outcome EXCEPT ![w] = "terminal"]
          /\ UNCHANGED starts
  /\ UNCHANGED mode

\* Run: the claim committed but its answer was lost (timeout, connection,
\* cancelled context): nobody runs the row until its lease expires.
ClaimAnswerLost(w) ==
  /\ "dberror" \in Faults \/ mode = "stopping"
  /\ stage[w] = "claiming" /\ pick[w] # {}
  /\ Queue!CommitClaim(w)
  /\ Gate!ClaimNothing(w)
  /\ holder' = [holder EXCEPT ![Picked(w)] = NULL]
  /\ UNCHANGED <<runVars, mode, starts>>

\* Run: the queue is empty in this scope, or the claim failed without effect.
ClaimFindsNothing(w) ==
  /\ stage[w] = "claiming"
  /\ \/ pick[w] = {} /\ Queue!SkipLocked(reserved[w]) = {}
     \/ "dberror" \in Faults \/ mode = "stopping"
  /\ IF pick[w] = {} THEN UNCHANGED queueVars ELSE Queue!AbortClaim(w)
  /\ Gate!ClaimNothing(w)
  /\ UNCHANGED <<runVars, mode, history>>

\* runOne: Handle returns or panics (a panic is an error).
HandlerReturns(w) ==
  /\ exec[w] = "handling"
  /\ exec' = [exec EXCEPT ![w] = "returned"]
  /\ \E result \in {"ok", "error", "terminal"} :
       outcome' = [outcome EXCEPT ![w] = result]
  /\ UNCHANGED <<queueVars, gateVars, cur, mode, history>>

\* runOne: the heartbeat ticker; a failed statement is logged and ignored.
Heartbeat(w) ==
  /\ mode = "up"
  /\ exec[w] = "handling"
  /\ Queue!HeartbeatJob(w, cur[w])
  /\ UNCHANGED <<gateVars, runVars, mode, history>>

\* Mutant: the slot is released before the cancelled handler has returned.
LosesLeaseAndSlot(w) ==
  /\ mode = "up"
  /\ exec[w] = "handling"
  /\ ~Queue!Owns(w, cur[w])
  /\ Gate!RunEnds(w)
  /\ exec' = [exec EXCEPT ![w] = "draining"]
  /\ UNCHANGED <<queueVars, cur, outcome, mode, history>>

\* runOne: ErrLeaseLost cancels the handler, which may still run for a while.
HeartbeatLosesLease(w) ==
  /\ mode = "up"
  /\ exec[w] = "handling"
  /\ ~Queue!Owns(w, cur[w])
  /\ exec' = [exec EXCEPT ![w] = "draining"]
  /\ UNCHANGED <<queueVars, gateVars, cur, outcome, mode, history>>

\* runOne: <-done after a lost lease; nothing is reported.
Drained(w) ==
  /\ exec[w] = "draining"
  /\ Gate!RunEnds(w)
  /\ StopsRunning(w)
  /\ UNCHANGED <<queueVars, mode, history>>

\* report: Complete or Fail reaches the database, which may find that the
\* lease is gone; Run then gives the slot back.
Report(w) ==
  LET j == cur[w] IN
  /\ mode = "up"
  /\ exec[w] = "returned"
  /\ \/ outcome[w] = "ok" /\ Queue!CompleteJob(w, j)
     \/ outcome[w] # "ok" /\ Queue!FailJob(w, j, outcome[w] = "terminal")
     \/ ~Queue!Owns(w, j) /\ UNCHANGED queueVars
  /\ Gate!RunEnds(w)
  /\ StopsRunning(w)
  /\ UNCHANGED <<mode, history>>

\* report: the statement failed; it is logged and the row stays running.
ReportFails(w) ==
  /\ "dberror" \in Faults
  /\ mode = "up"
  /\ exec[w] = "returned"
  /\ Gate!RunEnds(w)
  /\ StopsRunning(w)
  /\ UNCHANGED <<queueVars, mode, history>>

-----------------------------------------------------------------------------
(* Shutdown, crash and restart of the process.                             *)

\* Pool.Stop, or the cancellation of the server's context.
Stop ==
  /\ "shutdown" \in Faults
  /\ mode = "up"
  /\ mode' = "stopping"
  /\ UNCHANGED <<queueVars, gateVars, runVars, history>>

\* runOne after ctx.Done: wait for the handler, then Fail(ctx, ...), or report
\* with it: the context is the cancelled one, so no statement is sent.
StopWorker(w) ==
  /\ mode = "stopping"
  /\ exec[w] \in {"handling", "returned"}
  /\ Gate!RunEnds(w)
  /\ StopsRunning(w)
  /\ UNCHANGED <<queueVars, mode, history>>

Stopped ==
  /\ mode = "stopping"
  /\ \A w \in Workers : stage[w] = "idle"
  /\ mode' = "down"
  /\ UNCHANGED <<queueVars, gateVars, runVars, history>>

\* Uncommitted claims roll back, everything in memory is gone.
Crash ==
  /\ "crash" \in Faults
  /\ mode # "down"
  /\ mode' = "down"
  /\ pick' = [w \in Workers |-> {}]
  /\ stage' = [w \in Workers |-> "idle"]
  /\ reserved' = [w \in Workers |-> {}]
  /\ runType' = [w \in Workers |-> NULL]
  /\ held' = [w \in Workers |-> FALSE]
  /\ typeRunning' = [t \in Types |-> 0]
  /\ cur' = [w \in Workers |-> NULL]
  /\ exec' = [w \in Workers |-> "none"]
  /\ outcome' = [w \in Workers |-> NULL]
  /\ UNCHANGED <<status, attempts, claimedBy, lease, due, enqueuedAt, clock,
                 history>>

\* Pool.Start in a new process, with the same worker ids (the hostname).
Restart ==
  /\ mode = "down"
  /\ mode' = "up"
  /\ UNCHANGED <<queueVars, gateVars, runVars, history>>

-----------------------------------------------------------------------------
(* The watchdog goroutine, and what happens to rows from outside.          *)

Watchdog ==
  /\ mode = "up"
  /\ Queue!RequeueStuckJobs
  /\ UNCHANGED <<gateVars, runVars, mode, history>>

Purge(j) ==
  /\ mode = "up"
  /\ Queue!PurgeOldDoneJobs(j)
  /\ UNCHANGED <<gateVars, runVars, mode, history>>

AdminRequeue(j) ==
  /\ "admin" \in Faults
  /\ Queue!AdminRequeueJob(j)
  /\ starts' = [starts EXCEPT ![j] = 0]
  /\ UNCHANGED <<gateVars, runVars, mode, holder>>

AdminCancel(j) ==
  /\ "admin" \in Faults
  /\ Queue!AdminCancelJob(j)
  /\ UNCHANGED <<gateVars, runVars, mode, history>>

Enqueue(j) ==
  /\ Queue!EnqueueJob(j)
  /\ UNCHANGED <<gateVars, runVars, mode, history>>

TimePasses(j) ==
  /\ Queue!LeaseExpires(j) \/ Queue!ScheduleComes(j)
  /\ UNCHANGED <<gateVars, runVars, mode, history>>

-----------------------------------------------------------------------------
Claiming(w) == PickRow(w) \/ ClaimSucceeds(w) \/ ClaimAnswerLost(w)
               \/ ClaimFindsNothing(w)

Running(w) == HandlerReturns(w) \/ Heartbeat(w) \/ HeartbeatLosesLease(w)
              \/ Drained(w) \/ Report(w) \/ ReportFails(w) \/ StopWorker(w)

WorkerStep(w) == Poll(w) \/ Claiming(w) \/ Running(w)

Process == Stop \/ Stopped \/ Crash \/ Restart \/ Watchdog

RowStep(j) == Enqueue(j) \/ AdminRequeue(j) \/ AdminCancel(j) \/ Purge(j)
              \/ TimePasses(j)

Next == \/ \E w \in Workers : WorkerStep(w)
        \/ Process
        \/ \E j \in Jobs : RowStep(j)

\* The Run loop polls for ever and a free worker of the pool wins the row in
\* the end; handlers return; the watchdog ticks; clocks advance; a process
\* that stopped is started again.  Database errors do not go on for ever.
Fairness ==
  /\ \A w \in Workers :
       /\ WF_vars(Poll(w)) /\ WF_vars(Claiming(w))
       /\ SF_vars(PickRow(w)) /\ SF_vars(ClaimSucceeds(w))
       /\ WF_vars(HandlerReturns(w)) /\ WF_vars(Drained(w))
       /\ WF_vars(Report(w)) /\ WF_vars(StopWorker(w))
  /\ WF_vars(Watchdog) /\ WF_vars(Stopped) /\ WF_vars(Restart)
  /\ \A j \in Jobs : WF_vars(TimePasses(j))

Spec == Init /\ [][Next]_vars
FairSpec == Spec /\ Fairness

-----------------------------------------------------------------------------
TypeOK ==
  /\ Queue!TypeOK
  /\ Gate!TypeOK
  /\ cur \in [Workers -> Jobs \cup {NULL}]
  /\ exec \in [Workers -> {"none", "handling", "returned", "draining"}]
  /\ outcome \in [Workers -> {"ok", "error", "terminal", NULL}]
  /\ mode \in {"up", "stopping", "down"}
  /\ holder \in [Jobs -> Workers \cup {NULL}]
  /\ starts \in [Jobs -> Nat]

\* A row's claimed_by is trusted to identify an execution: whenever a worker
\* runs a job and the row still carries its id, the row's latest claim is the
\* one it runs.  So an execution whose lease was lost, and whose row another
\* worker claimed since, can neither extend the lease nor finish the row.
OwnerHoldsLatestClaim ==
  \A w \in Workers :
    exec[w] # "none" /\ Queue!Owns(w, cur[w]) => holder[cur[w]] = w

\* The same as a fact about steps: a report that changes a row comes from the
\* worker that holds its latest claim.
ReportsOnlyByHolder ==
  [][\A w \in Workers, j \in Jobs :
       /\ cur[w] = j /\ exec[w] = "returned" /\ exec'[w] = "none"
       /\ status'[j] # status[j]
       => holder[j] = w]_vars

\* A job that kills or hangs its worker every time is not run for ever: between
\* two operator requeues its handler starts at most max_attempts times, although
\* the crash, the lost report or the lost lease puts the row back in the queue.
StartsWithinCap == \A j \in Jobs : starts[j] <= MaxAttempts[j]

\* Handlers running per capped type, those draining after a lost lease
\* included, stay within the cap.
HandlersWithinCap ==
  \A t \in Types : Gate!Capped(t) =>
    Cardinality({w \in Workers : cur[w] # NULL /\ JobType[cur[w]] = t})
      <= TypeConcurrency[t]

\* The pool implements the promise of LeasedWork: a row is a unit of work, the
\* holder of its latest claim the one agent that may settle it.
PlaceOf == [absent |-> "nowhere", pending |-> "waiting", running |-> "held",
            done |-> "done", failed |-> "dead", cancelled |-> "dead",
            purged |-> "gone"]

Work == INSTANCE LeasedWork WITH
          Units <- Jobs, Agents <- Workers, NoOne <- NULL, Budget <- MaxAttempts,
          place <- [j \in Jobs |-> PlaceOf[status[j]]],
          tenant <- holder, taken <- attempts, doing <- cur

\* Every behaviour of the pool is one of leased work: no fault lets an
\* execution that is not the latest settle its row, hands a row out more often
\* than its budget, or takes a finished row back.
ImplementsLeasedWork == Work!Spec

\* The process stops or crashes any number of times, but not for ever.
StaysUp == <>[](mode = "up")

\* No claim is left dangling: whatever became of the worker that claimed a
\* row (error, lost answer, shutdown, crash), the row leaves "running".
RunningRowsSettle ==
  StaysUp => \A j \in Jobs : status[j] = "running" ~> status[j] # "running"

\* A row that can be claimed is claimed in the end: no reservation of another
\* worker, lost answer or restart starves it.
ClaimableRowsAreClaimed ==
  StaysUp => \A j \in Jobs : Queue!Claimable(j) ~> ~Queue!Claimable(j)

\* "Worker is shutting down: report failure so the watchdog won't have to."
\* When runOne leaves a running row because of ctx.Done, the row is back.
ShutdownReportsFailure ==
  [][\A w \in Workers :
       /\ mode = "stopping" /\ exec[w] = "handling" /\ exec'[w] = "none"
       /\ Queue!Owns(w, cur[w])
       => status'[cur[w]] # "running"]_vars
=============================================================================
