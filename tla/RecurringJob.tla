---------------------------- MODULE RecurringJob ----------------------------
(***************************************************************************)
(* Recurring work without a cron: a job that does its sweep, enqueues its  *)
(* own next tick and finishes (scheduledactions/reaper.go, softdelete/     *)
(* coordinator.go, audit/retention.go, search/saved/coordinator.go,        *)
(* email/digest/coordinator.go), seeded by EnsureScheduled or its like at  *)
(* every boot.  The tick's timestamp is both its scheduled_for and,        *)
(* formatted to the second, its idempotency key.                           *)
(*                                                                         *)
(* One unit of time is the resolution of the key.  The application and the *)
(* database share a clock, as on the one host of docker-compose.yml.       *)
(***************************************************************************)
EXTENDS Integers, FiniteSets

CONSTANTS
  Workers, WorkerId, NULL,
  MaxAttempts,   \* attempts of a tick (3 by default)
  NextTick,      \* for each time, the ticks a run at that time may enqueue
  LogsEnqueueErrors,  \* the digest logs a failed re-enqueue and succeeds
  Copies,        \* bound: rows that may ever be enqueued for one timestamp
  MaxTime,       \* bound: how long the model runs
  MaxBoots       \* bound: how often EnsureScheduled runs

Times == 0..MaxTime
Horizon == UNION {NextTick[t] : t \in Times}

ASSUME RecurringAssumption ==
  /\ LogsEnqueueErrors \in BOOLEAN
  /\ MaxTime \in Nat /\ Copies \in Nat /\ MaxBoots \in Nat
  /\ \A t \in Times : NextTick[t] \subseteq Nat /\ NextTick[t] # {}
  /\ NULL \notin Horizon

Ticks == Horizon \X (1..Copies)
At(j) == j[1]

VARIABLES
  status, attempts, claimedBy, lease, due, enqueuedAt, clock, pick,  \* Queue
  now,     \* the clock
  step,    \* what each worker does
  tick,    \* the row it runs
  target,  \* the timestamp it has computed for the next tick
  boots    \* how often EnsureScheduled has run

Queue == INSTANCE JobQueue WITH
           Jobs <- Ticks, Types <- {"tick"}, BatchLimit <- 1,
           JobType <- [j \in Ticks |-> "tick"],
           Priority <- [j \in Ticks |-> 100],
           MaxAttempts <- [j \in Ticks |-> MaxAttempts],
           IdempotencyKey <- [j \in Ticks |-> At(j)]

queueVars == <<status, attempts, claimedBy, lease, due, enqueuedAt, clock, pick>>
runVars == <<step, tick, target>>
vars == <<queueVars, now, runVars, boots>>

Steps == {"idle", "sweeping", "enqueueing", "looking", "succeeded", "failed"}

InFlight(j) == status[j] \in {"pending", "running"}

AfterEnqueueError == IF LogsEnqueueErrors THEN "succeeded" ELSE "failed"

Goto(w, s) == step' = [step EXCEPT ![w] = s]

Init ==
  /\ Queue!Init
  /\ now = 0
  /\ step = [w \in Workers |-> "idle"]
  /\ tick = [w \in Workers |-> NULL]
  /\ target = [w \in Workers |-> NULL]
  /\ boots = 0

\* The INSERT of Enqueue, when the unique index lets it through.
Insert(t) ==
  \E j \in Ticks :
    /\ At(j) = t
    /\ Queue!EnqueueJob(j)
    /\ due'[j] = (t <= now)

KeyTaken(t) == \E j \in Ticks : At(j) = t /\ InFlight(j)

\* EnsureScheduled, at boot.  If the key is taken the tick is already there.
EnsureScheduled ==
  /\ boots < MaxBoots
  /\ \E next \in NextTick[now] :
       IF KeyTaken(next) THEN UNCHANGED queueVars ELSE Insert(next)
  /\ boots' = boots + 1
  /\ UNCHANGED <<now, runVars>>

-----------------------------------------------------------------------------
PickTick(w) ==
  /\ step[w] = "idle"
  /\ Queue!PickRows(w, {}, 1)
  /\ UNCHANGED <<now, runVars, boots>>

ClaimTick(w) ==
  /\ Queue!CommitClaim(w)
  /\ tick' = [tick EXCEPT ![w] = CHOOSE j \in Ticks : j \in pick[w]]
  /\ Goto(w, "sweeping")
  /\ UNCHANGED <<now, target, boots>>

\* Handle, the sweep: done, and the next tick computed, or an error.
Sweep(w) ==
  /\ step[w] = "sweeping"
  /\ \/ /\ \E next \in NextTick[now] : target' = [target EXCEPT ![w] = next]
        /\ Goto(w, "enqueueing")
     \/ Goto(w, "failed") /\ UNCHANGED target
  /\ UNCHANGED <<queueVars, now, tick, boots>>

\* Mutant: the handler ignores the error of its re-enqueue.
InsertNextOrIgnore(w) ==
  /\ step[w] = "enqueueing"
  /\ \/ Insert(target[w])
     \/ UNCHANGED queueVars
  /\ Goto(w, "succeeded")
  /\ UNCHANGED <<now, tick, target, boots>>

\* Enqueue, the INSERT: a row, a unique violation or a database error.
InsertNext(w) ==
  /\ step[w] = "enqueueing"
  /\ \/ Insert(target[w]) /\ Goto(w, "succeeded")
     \/ KeyTaken(target[w]) /\ Goto(w, "looking") /\ UNCHANGED queueVars
     \/ Goto(w, AfterEnqueueError) /\ UNCHANGED queueVars
  /\ UNCHANGED <<now, tick, target, boots>>

\* Enqueue, GetJobByIdempotencyKey: the row in flight, whichever it is, or
\* "idempotency lookup raced", which the handler returns as its error.
LookUpNext(w) ==
  /\ step[w] = "looking"
  /\ Goto(w, IF KeyTaken(target[w]) THEN "succeeded" ELSE AfterEnqueueError)
  /\ UNCHANGED <<queueVars, now, tick, target, boots>>

\* report: a lost lease leaves the row to whoever has it now.
ReportTick(w) ==
  /\ \/ step[w] = "succeeded" /\ Queue!CompleteJob(w, tick[w])
     \/ step[w] = "failed" /\ Queue!FailJob(w, tick[w], FALSE)
     \/ /\ step[w] \in {"succeeded", "failed"}
        /\ ~Queue!Owns(w, tick[w])
        /\ UNCHANGED queueVars
  /\ Goto(w, "idle")
  /\ tick' = [tick EXCEPT ![w] = NULL]
  /\ target' = [target EXCEPT ![w] = NULL]
  /\ UNCHANGED <<now, boots>>

\* The worker's process dies anywhere in the run.
CrashWorker(w) ==
  /\ step[w] # "idle"
  /\ Goto(w, "idle")
  /\ tick' = [tick EXCEPT ![w] = NULL]
  /\ target' = [target EXCEPT ![w] = NULL]
  /\ UNCHANGED <<queueVars, now, boots>>

Watchdog ==
  /\ \/ \E j \in Ticks : Queue!LeaseExpires(j)
     \/ Queue!RequeueStuckJobs
  /\ UNCHANGED <<now, runVars, boots>>

TimePasses ==
  /\ now < MaxTime
  /\ now' = now + 1
  /\ due' = [j \in Ticks |-> due[j] \/ (status[j] # "absent" /\ At(j) <= now')]
  /\ UNCHANGED <<status, attempts, claimedBy, lease, enqueuedAt, clock, pick,
                 runVars, boots>>

Next ==
  \/ EnsureScheduled \/ Watchdog \/ TimePasses
  \/ \E w \in Workers :
       \/ PickTick(w) \/ ClaimTick(w) \/ Sweep(w) \/ InsertNext(w)
       \/ LookUpNext(w) \/ ReportTick(w) \/ CrashWorker(w)

Spec == Init /\ [][Next]_vars

-----------------------------------------------------------------------------
TypeOK ==
  /\ Queue!TypeOK
  /\ now \in Times
  /\ step \in [Workers -> Steps]
  /\ tick \in [Workers -> Ticks \cup {NULL}]
  /\ target \in [Workers -> Horizon \cup {NULL}]
  /\ boots \in 0..MaxBoots

\* Once seeded, the work keeps a tick in flight through every crash, retry,
\* expired lease and concurrent boot; only a tick that used up its attempts
\* ends it.
ChainSurvives ==
  boots > 0 => \/ \E j \in Ticks : InFlight(j)
               \/ \E j \in Ticks : status[j] = "failed"

\* However many boots, retries and late executions enqueue a next tick, they
\* collapse to one row.
OneFutureTick ==
  Cardinality({j \in Ticks : status[j] = "pending" /\ At(j) > now}) <= 1
=============================================================================
