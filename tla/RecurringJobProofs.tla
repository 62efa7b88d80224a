------------------------- MODULE RecurringJobProofs -------------------------
(***************************************************************************)
(* A job that enqueues its own next tick, for any workers, clocks, boots   *)
(* and numbers of rows.  The chain lives because a run that is about to    *)
(* succeed has seen a later tick in flight, and whoever ends that tick has *)
(* seen one later still.  There is one future tick because, when every run *)
(* aims at the same wake hour, all that is in the future is that hour, and *)
(* the unique index lets one row of it in.                                 *)
(***************************************************************************)
EXTENDS RecurringJob, FiniteSetTheorems, TLAPS

\* What a claim has locked is pending and due, and no other claim holds it.
PicksPending ==
  \A w \in Workers : \A j \in pick[w] :
    /\ due[j] /\ status[j] = "pending"
    /\ \A v \in Workers : j \in pick[v] => v = w

\* What runs has come due.
Started ==
  /\ \A j \in Ticks : due[j] => At(j) <= now
  /\ \A j \in Ticks : status[j] = "running" => due[j]
  /\ PicksPending
  /\ \A w \in Workers : step[w] # "idle" => tick[w] \in Ticks /\ At(tick[w]) <= now
  /\ \A w \in Workers : step[w] \in {"enqueueing", "looking"} => target[w] \in Horizon

RunInv == TypeOK /\ Started

\* The handlers that return the error of a re-enqueue, at timestamps that are
\* later than the run: an interval, or a wake hour that is still ahead.
LaterTicks ==
  /\ ~LogsEnqueueErrors
  /\ \A t \in Times : \A n \in NextTick[t] : n > t

\* A run that enqueues aims later than its own tick; one that succeeded has seen
\* a later tick in flight, and that tick, or one after it, still is, or failed.
SomeFailed == \E j \in Ticks : status[j] = "failed"
LaterInFlight(t) == \E j \in Ticks : InFlight(j) /\ At(j) > t

ChainInv ==
  /\ \A w \in Workers :
       step[w] \in {"enqueueing", "looking"} => target[w] > At(tick[w])
  /\ \A w \in Workers :
       step[w] = "succeeded" => SomeFailed \/ LaterInFlight(At(tick[w]))
  /\ ChainSurvives

\* The runs of one interval all aim at its end.
WakeHours ==
  \A t \in Times : \E n \in NextTick[t] :
    /\ n > t /\ NextTick[t] = {n}
    /\ \A u \in Times : t <= u /\ u < n => NextTick[u] = {n}

Future(j) == status[j] = "pending" /\ At(j) > now

FutureInv ==
  /\ \A j \in Ticks : Future(j) => At(j) \in NextTick[now]
  /\ \A w \in Workers :
       step[w] \in {"enqueueing", "looking"} /\ target[w] > now => target[w] \in NextTick[now]
  /\ \A i, j \in Ticks : Future(i) /\ Future(j) /\ At(i) = At(j) => i = j

-----------------------------------------------------------------------------
\* The rows of the table are enqueued for timestamps of the horizon.
LEMMA TickTimes ==
  /\ Horizon \subseteq Nat
  /\ \A t \in Horizon : t \in Int
  /\ NULL \notin Horizon
  /\ \A j \in Ticks : At(j) \in Horizon /\ At(j) \in Int
  /\ \A t \in Times : NextTick[t] \subseteq Horizon
<1>1. Horizon \subseteq Nat /\ NULL \notin Horizon
  BY RecurringAssumption DEF Horizon
<1>2. \A t \in Horizon : t \in Int
  BY <1>1
<1>3. \A j \in Ticks : At(j) \in Horizon
  BY DEF Ticks, At
<1>4. \A t \in Times : NextTick[t] \subseteq Horizon
  BY DEF Horizon
<1> QED
  BY <1>1, <1>2, <1>3, <1>4

\* A claim's SELECT locks rows that are pending and due.
LEMMA PickedAreDue ==
  ASSUME NEW scope, NEW limit,
         NEW j \in Queue!FirstRows(Queue!SkipLocked(scope), limit)
  PROVE  /\ j \in Ticks /\ status[j] = "pending" /\ due[j]
         /\ \A v \in Workers : j \notin pick[v]
BY DEF Queue!FirstRows, Queue!SkipLocked, Queue!Claimable, Queue!Locked

\* Enqueue adds one pending row, for a timestamp no row in flight has.
LEMMA Inserted ==
  ASSUME NEW t, Insert(t), TypeOK
  PROVE  \E j \in Ticks :
           /\ At(j) = t /\ status[j] = "absent"
           /\ status' = [status EXCEPT ![j] = "pending"]
           /\ due' \in [Ticks -> BOOLEAN]
           /\ due' = [due EXCEPT ![j] = (t <= now)]
           /\ enqueuedAt' = [enqueuedAt EXCEPT ![j] = clock]
           /\ clock' = clock + 1
           /\ \A i \in Ticks : InFlight(i) => At(i) # t
           /\ UNCHANGED <<attempts, claimedBy, lease, pick>>
<1>1. PICK j \in Ticks : At(j) = t /\ Queue!EnqueueJob(j) /\ due'[j] = (t <= now)
  BY DEF Insert
<1>2. status[j] = "absent" /\ At(j) # NULL
  BY <1>1, TickTimes DEF Queue!EnqueueJob
<1>3. \A i \in Ticks : InFlight(i) => At(i) # t
  BY <1>1, <1>2 DEF Queue!EnqueueJob, Queue!KeyFree, Queue!InFlight, InFlight
<1>4. due \in [Ticks -> BOOLEAN]
  BY DEF TypeOK, Queue!TypeOK
<1>5. PICK b \in BOOLEAN : due' = [due EXCEPT ![j] = b]
  BY <1>1 DEF Queue!EnqueueJob
<1>6. due' = [due EXCEPT ![j] = (t <= now)] /\ due' \in [Ticks -> BOOLEAN]
  BY <1>1, <1>4, <1>5
<1> QED
  BY <1>1, <1>2, <1>3, <1>6 DEF Queue!EnqueueJob

-----------------------------------------------------------------------------
\* The queue's columns keep their types, and what runs has come due.
LEMMA RunStep == RunInv /\ [Next]_vars => RunInv'
<1> SUFFICES ASSUME RunInv, [Next]_vars PROVE RunInv'
  OBVIOUS
<1> USE TickTimes
<1>t. TypeOK /\ Started
  BY DEF RunInv
<1>q. ASSUME UNCHANGED queueVars, UNCHANGED now
      PROVE  /\ Queue!TypeOK'
             /\ \A j \in Ticks : due'[j] => At(j) <= now'
             /\ \A j \in Ticks : status'[j] = "running" => due'[j]
             /\ PicksPending'
  BY <1>q, <1>t DEF queueVars, TypeOK, Started, PicksPending, Queue!TypeOK
<1>i. ASSUME NEW t \in Horizon, Insert(t), UNCHANGED now
      PROVE  /\ Queue!TypeOK'
             /\ \A j \in Ticks : due'[j] => At(j) <= now'
             /\ \A j \in Ticks : status'[j] = "running" => due'[j]
             /\ PicksPending'
  <2>1. PICK j \in Ticks :
           /\ At(j) = t /\ status[j] = "absent"
           /\ status' = [status EXCEPT ![j] = "pending"]
           /\ due' \in [Ticks -> BOOLEAN]
           /\ due' = [due EXCEPT ![j] = (t <= now)]
           /\ enqueuedAt' = [enqueuedAt EXCEPT ![j] = clock]
           /\ clock' = clock + 1
           /\ UNCHANGED <<attempts, claimedBy, lease, pick>>
    BY <1>i, <1>t, Inserted
  <2>2. Queue!TypeOK'
    BY <2>1, <1>t DEF TypeOK, Queue!TypeOK, Queue!Statuses
  <2>3. due \in [Ticks -> BOOLEAN] /\ status \in [Ticks -> Queue!Statuses]
        /\ pick \in [Workers -> SUBSET Ticks]
    BY <1>t DEF TypeOK, Queue!TypeOK
  <2>4. \A i \in Ticks : due'[i] => At(i) <= now'
    BY <1>i, <2>1, <2>3, <1>t DEF Started, PicksPending
  <2>5. \A i \in Ticks : status'[i] = "running" => due'[i]
    BY <2>1, <2>3, <1>t DEF Started, PicksPending
  <2>6. PicksPending'
    BY <2>1, <2>3, <1>t DEF Started, PicksPending
  <2> QED
    BY <2>2, <2>4, <2>5, <2>6
<1>r. ASSUME UNCHANGED <<step, tick, target>>
      PROVE  /\ step' \in [Workers -> Steps]
             /\ tick' \in [Workers -> Ticks \cup {NULL}]
             /\ target' \in [Workers -> Horizon \cup {NULL}]
             /\ UNCHANGED now =>
                 \A w \in Workers : step'[w] # "idle" => tick'[w] \in Ticks /\ At(tick'[w]) <= now'
             /\ \A w \in Workers : step'[w] \in {"enqueueing", "looking"} => target'[w] \in Horizon
  BY <1>r, <1>t DEF TypeOK, Started
<1>n. now \in Times /\ boots \in 0..MaxBoots
  BY <1>t DEF TypeOK
<1>1. CASE EnsureScheduled
  <2>1. PICK next \in NextTick[now] :
          IF KeyTaken(next) THEN UNCHANGED queueVars ELSE Insert(next)
    BY <1>1 DEF EnsureScheduled
  <2>2. next \in Horizon /\ UNCHANGED now /\ UNCHANGED <<step, tick, target>>
    BY <1>1, <1>n DEF EnsureScheduled, runVars
  <2>3. boots' \in 0..MaxBoots
    BY <1>1, <1>n, RecurringAssumption DEF EnsureScheduled
  <2> QED
    BY <2>1, <2>2, <2>3, <1>q, <1>i, <1>r, <1>n DEF RunInv, TypeOK, Started
<1>2. CASE Watchdog
  <2>1. UNCHANGED now /\ UNCHANGED <<step, tick, target>> /\ UNCHANGED boots
    BY <1>2 DEF Watchdog, runVars
  <2>2. ASSUME NEW j \in Ticks, Queue!LeaseExpires(j)
        PROVE  /\ Queue!TypeOK'
               /\ UNCHANGED <<status, due, pick>>
    BY <2>2, <1>t DEF TypeOK, Queue!TypeOK, Queue!LeaseExpires
  <2>3. ASSUME Queue!RequeueStuckJobs
        PROVE  /\ Queue!TypeOK'
               /\ UNCHANGED <<due, pick>>
               /\ \A j \in Ticks : status'[j] = "running" => status[j] = "running"
               /\ \A j \in Ticks : status[j] = "pending" => status'[j] = "pending"
    BY <2>3, <1>t DEF TypeOK, Queue!TypeOK, Queue!RequeueStuckJobs, Queue!Statuses
  <2>4. Queue!TypeOK' /\ UNCHANGED <<due, pick>>
        /\ \A j \in Ticks : status'[j] = "running" => status[j] = "running"
    BY <1>2, <2>2, <2>3 DEF Watchdog
  <2>5. \A j \in Ticks : status[j] = "pending" => status'[j] = "pending"
    BY <1>2, <2>2, <2>3 DEF Watchdog
  <2>6. pick \in [Workers -> SUBSET Ticks]
    BY <1>t DEF TypeOK, Queue!TypeOK
  <2>7. /\ \A j \in Ticks : due'[j] => At(j) <= now'
        /\ \A j \in Ticks : status'[j] = "running" => due'[j]
        /\ PicksPending'
    BY <2>1, <2>4, <2>5, <2>6, <1>t DEF Started, PicksPending
  <2> QED
    BY <2>1, <2>4, <2>7, <1>r, <1>n DEF RunInv, TypeOK, Started
<1>3. CASE TimePasses
  <2>1. /\ now' = now + 1 /\ now' \in Times
        /\ due' = [j \in Ticks |-> due[j] \/ (status[j] # "absent" /\ At(j) <= now')]
        /\ UNCHANGED <<status, attempts, claimedBy, lease, enqueuedAt, clock, pick>>
        /\ UNCHANGED <<step, tick, target>> /\ UNCHANGED boots
    BY <1>3, <1>n, RecurringAssumption DEF TimePasses, runVars, Times
  <2>2. now \in Int
    BY <1>n DEF Times
  <2>3. due \in [Ticks -> BOOLEAN]
    BY <1>t DEF TypeOK, Queue!TypeOK
  <2>4. due' \in [Ticks -> BOOLEAN]
    BY <2>1, <2>3
  <2>5. Queue!TypeOK'
    BY <2>1, <2>4, <1>t DEF TypeOK, Queue!TypeOK
  <2>6. ASSUME NEW j \in Ticks, due'[j] PROVE At(j) <= now'
    <3>1. due[j] \/ At(j) <= now'
      BY <2>1, <2>6
    <3>2. due[j] => At(j) <= now
      BY <1>t DEF Started, PicksPending
    <3>3. At(j) \in Int /\ now' = now + 1
      BY <2>1
    <3> QED
      BY <3>1, <3>2, <3>3, <2>2
  <2>7. \A j \in Ticks : due[j] => due'[j]
    BY <2>1
  <2>8. pick \in [Workers -> SUBSET Ticks]
    BY <1>t DEF TypeOK, Queue!TypeOK
  <2>9. /\ \A j \in Ticks : status'[j] = "running" => due'[j]
        /\ PicksPending'
    BY <2>1, <2>7, <2>8, <1>t DEF Started, PicksPending
  <2>10. \A w \in Workers : step'[w] # "idle" => tick'[w] \in Ticks /\ At(tick'[w]) <= now'
    BY <2>1, <2>2, <1>t DEF Started, PicksPending
  <2> QED
    BY <2>1, <2>5, <2>6, <2>9, <2>10, <1>r, <1>n DEF RunInv, TypeOK, Started
<1>4. ASSUME NEW w \in Workers, PickTick(w) PROVE RunInv'
  <2> DEFINE new == Queue!FirstRows(Queue!SkipLocked({}), 1)
  <2>1. /\ pick' = [pick EXCEPT ![w] = new]
        /\ UNCHANGED <<status, attempts, claimedBy, lease, due, enqueuedAt, clock>>
        /\ UNCHANGED now /\ UNCHANGED <<step, tick, target>> /\ UNCHANGED boots
    BY <1>4 DEF PickTick, Queue!PickRows, runVars
  <2>2. \A j \in new : /\ j \in Ticks /\ status[j] = "pending" /\ due[j]
                       /\ \A v \in Workers : j \notin pick[v]
    BY PickedAreDue
  <2> HIDE DEF new
  <2>3. pick \in [Workers -> SUBSET Ticks]
    BY <1>t DEF TypeOK, Queue!TypeOK
  <2>4. pick' \in [Workers -> SUBSET Ticks]
    BY <2>1, <2>2, <2>3
  <2>5. Queue!TypeOK'
    BY <2>1, <2>4, <1>t DEF TypeOK, Queue!TypeOK
  <2>6. /\ \A j \in Ticks : due'[j] => At(j) <= now'
        /\ \A j \in Ticks : status'[j] = "running" => due'[j]
    BY <2>1, <1>t DEF Started, PicksPending
  <2>7. PicksPending'
    BY <2>1, <2>2, <2>3, <1>t DEF Started, PicksPending
  <2> QED
    BY <2>1, <2>5, <2>6, <2>7, <1>r, <1>n DEF RunInv, TypeOK, Started
<1>5. ASSUME NEW w \in Workers, ClaimTick(w) PROVE RunInv'
  <2> DEFINE row == CHOOSE j \in Ticks : j \in pick[w]
  <2>1. /\ tick' = [tick EXCEPT ![w] = row]
        /\ step' = [step EXCEPT ![w] = "sweeping"]
        /\ UNCHANGED <<now, target, boots>>
    BY <1>5 DEF ClaimTick, Goto
  <2>2. /\ pick[w] # {}
        /\ status' = [j \in Ticks |-> IF j \in pick[w] THEN "running" ELSE status[j]]
        /\ attempts' = [j \in Ticks |-> IF j \in pick[w] THEN attempts[j] + 1 ELSE attempts[j]]
        /\ claimedBy' = [j \in Ticks |-> IF j \in pick[w] THEN WorkerId[w] ELSE claimedBy[j]]
        /\ lease' = [j \in Ticks |-> IF j \in pick[w] THEN "live" ELSE lease[j]]
        /\ pick' = [pick EXCEPT ![w] = {}]
        /\ UNCHANGED <<due, enqueuedAt, clock>>
    BY <1>5 DEF ClaimTick, Queue!CommitClaim
  <2>3. pick \in [Workers -> SUBSET Ticks] /\ status \in [Ticks -> Queue!Statuses]
    BY <1>t DEF TypeOK, Queue!TypeOK
  <2>4. row \in Ticks /\ row \in pick[w]
    BY <2>2, <2>3
  <2> HIDE DEF row
  <2>5. Queue!TypeOK'
    BY <2>2, <1>t DEF TypeOK, Queue!TypeOK, Queue!Statuses
  <2>6. /\ \A j \in Ticks : due'[j] => At(j) <= now'
        /\ \A j \in Ticks : status'[j] = "running" => due'[j]
    BY <2>1, <2>2, <2>3, <1>t DEF Started, PicksPending
  <2>7. PicksPending'
    BY <2>2, <2>3, <1>t DEF Started, PicksPending
  <2>8. tick' \in [Workers -> Ticks \cup {NULL}] /\ step' \in [Workers -> Steps]
    BY <2>1, <2>4, <1>t DEF TypeOK, Steps
  <2>9. At(row) <= now
    BY <2>4, <1>t DEF Started, PicksPending
  <2>10. step \in [Workers -> Steps] /\ tick \in [Workers -> Ticks \cup {NULL}]
    BY <1>t DEF TypeOK
  <2>11. ASSUME NEW v \in Workers, step'[v] # "idle"
         PROVE  tick'[v] \in Ticks /\ At(tick'[v]) <= now'
    BY <2>1, <2>4, <2>9, <2>10, <2>11, <1>t DEF Started, PicksPending
  <2>12. ASSUME NEW v \in Workers, step'[v] \in {"enqueueing", "looking"}
         PROVE  target'[v] \in Horizon
    BY <2>1, <2>10, <2>12, <1>t DEF Started, PicksPending
  <2>13. target' \in [Workers -> Horizon \cup {NULL}] /\ now' \in Times /\ boots' \in 0..MaxBoots
    BY <2>1, <1>t DEF TypeOK
  <2> QED
    BY <2>5, <2>6, <2>7, <2>8, <2>11, <2>12, <2>13 DEF RunInv, TypeOK, Started
<1>6. ASSUME NEW w \in Workers, Sweep(w) PROVE RunInv'
  <2>1. step[w] = "sweeping" /\ UNCHANGED queueVars /\ UNCHANGED <<now, tick, boots>>
    BY <1>6 DEF Sweep
  <2>2. \/ /\ \E next \in NextTick[now] : target' = [target EXCEPT ![w] = next]
           /\ step' = [step EXCEPT ![w] = "enqueueing"]
        \/ step' = [step EXCEPT ![w] = "failed"] /\ UNCHANGED target
    BY <1>6 DEF Sweep, Goto
  <2>3. NextTick[now] \subseteq Horizon
    BY <1>n
  <2>4. /\ step' \in [Workers -> Steps]
        /\ target' \in [Workers -> Horizon \cup {NULL}]
    BY <2>2, <2>3, <1>t DEF TypeOK, Steps
  <2>5. \A v \in Workers : step'[v] # "idle" => tick'[v] \in Ticks /\ At(tick'[v]) <= now'
    BY <2>1, <2>2, <1>t DEF TypeOK, Started
  <2>6. \A v \in Workers : step'[v] \in {"enqueueing", "looking"} => target'[v] \in Horizon
    BY <2>2, <2>3, <1>t DEF TypeOK, Started
  <2> QED
    BY <2>1, <2>4, <2>5, <2>6, <1>t, <1>q, <1>n DEF RunInv, TypeOK, Started
<1>7. ASSUME NEW w \in Workers, InsertNext(w) PROVE RunInv'
  <2>1. step[w] = "enqueueing" /\ UNCHANGED <<now, tick, target, boots>>
    BY <1>7 DEF InsertNext
  <2>2. UNCHANGED queueVars \/ Insert(target[w])
    BY <1>7 DEF InsertNext
  <2>3. target[w] \in Horizon
    BY <2>1, <1>t DEF Started, PicksPending
  <2>4. \E s \in {"succeeded", "looking", "failed"} : step' = [step EXCEPT ![w] = s]
    BY <1>7 DEF InsertNext, Goto, AfterEnqueueError
  <2>5. step' \in [Workers -> Steps]
    BY <2>4, <1>t DEF TypeOK, Steps
  <2>6. \A v \in Workers : step'[v] # "idle" => tick'[v] \in Ticks /\ At(tick'[v]) <= now'
    BY <2>1, <2>4, <1>t DEF TypeOK, Started
  <2>7. \A v \in Workers : step'[v] \in {"enqueueing", "looking"} => target'[v] \in Horizon
    BY <2>1, <2>3, <2>4, <1>t DEF TypeOK, Started
  <2> QED
    BY <2>1, <2>2, <2>3, <2>5, <2>6, <2>7, <1>t, <1>q, <1>i, <1>n DEF RunInv, TypeOK, Started
<1>8. ASSUME NEW w \in Workers, LookUpNext(w) PROVE RunInv'
  <2>1. step[w] = "looking" /\ UNCHANGED queueVars /\ UNCHANGED <<now, tick, target, boots>>
    BY <1>8 DEF LookUpNext
  <2>2. \E s \in {"succeeded", "failed"} : step' = [step EXCEPT ![w] = s]
    BY <1>8 DEF LookUpNext, Goto, AfterEnqueueError
  <2>3. step' \in [Workers -> Steps]
    BY <2>2, <1>t DEF TypeOK, Steps
  <2>4. \A v \in Workers : step'[v] # "idle" => tick'[v] \in Ticks /\ At(tick'[v]) <= now'
    BY <2>1, <2>2, <1>t DEF TypeOK, Started
  <2>5. \A v \in Workers : step'[v] \in {"enqueueing", "looking"} => target'[v] \in Horizon
    BY <2>1, <2>2, <1>t DEF TypeOK, Started
  <2> QED
    BY <2>1, <2>3, <2>4, <2>5, <1>t, <1>q, <1>n DEF RunInv, TypeOK, Started
<1>9. ASSUME NEW w \in Workers, ReportTick(w) \/ CrashWorker(w) PROVE RunInv'
  <2>1. /\ UNCHANGED <<now, boots>>
        /\ step' = [step EXCEPT ![w] = "idle"]
        /\ tick' = [tick EXCEPT ![w] = NULL]
        /\ target' = [target EXCEPT ![w] = NULL]
    BY <1>9 DEF ReportTick, CrashWorker, Goto
  <2>2. /\ step' \in [Workers -> Steps]
        /\ tick' \in [Workers -> Ticks \cup {NULL}]
        /\ target' \in [Workers -> Horizon \cup {NULL}]
    BY <2>1, <1>t DEF TypeOK, Steps
  <2>3. /\ \A v \in Workers : step'[v] # "idle" => tick'[v] \in Ticks /\ At(tick'[v]) <= now'
        /\ \A v \in Workers : step'[v] \in {"enqueueing", "looking"} => target'[v] \in Horizon
    BY <2>1, <1>t DEF TypeOK, Started
  <2>4. ASSUME Queue!CompleteJob(w, tick[w]) \/ Queue!FailJob(w, tick[w], FALSE)
        PROVE  /\ Queue!TypeOK'
               /\ \A j \in Ticks : due'[j] => At(j) <= now'
               /\ \A j \in Ticks : status'[j] = "running" => due'[j]
               /\ PicksPending'
    <3>1. UNCHANGED <<due, pick>> /\ Queue!TypeOK'
      BY <2>4, <1>t DEF TypeOK, Queue!TypeOK, Queue!CompleteJob, Queue!FailJob, Queue!Statuses
    <3>2. /\ \A j \in Ticks : status'[j] = "running" => status[j] = "running"
          /\ \A j \in Ticks : status[j] = "pending" => status'[j] = "pending"
      BY <2>4, <1>t DEF TypeOK, Queue!TypeOK, Queue!CompleteJob, Queue!FailJob, Queue!Owns
    <3>3. pick \in [Workers -> SUBSET Ticks]
      BY <1>t DEF TypeOK, Queue!TypeOK
    <3> QED
      BY <2>1, <3>1, <3>2, <3>3, <1>t DEF Started, PicksPending
  <2>5. \/ Queue!CompleteJob(w, tick[w]) \/ Queue!FailJob(w, tick[w], FALSE)
        \/ UNCHANGED queueVars
    BY <1>9 DEF ReportTick, CrashWorker
  <2> QED
    BY <2>1, <2>2, <2>3, <2>4, <2>5, <1>t, <1>q, <1>n DEF RunInv, TypeOK, Started
<1>10. CASE UNCHANGED vars
  <2>1. UNCHANGED queueVars /\ UNCHANGED now /\ UNCHANGED boots /\ UNCHANGED <<step, tick, target>>
    BY <1>10 DEF vars, runVars
  <2> QED
    BY <2>1, <1>q, <1>r, <1>n DEF RunInv, TypeOK, Started
<1> QED
  BY <1>1, <1>2, <1>3, <1>4, <1>5, <1>6, <1>7, <1>8, <1>9, <1>10 DEF Next

LEMMA RunInit == Init => RunInv
BY RecurringAssumption DEF Init, Queue!Init, RunInv, TypeOK, Queue!TypeOK,
   Queue!Statuses, Started, PicksPending, Steps, Times

\* The handlers, boots, crashes and the watchdog keep every variable well typed.
THEOREM RecurringTypeCorrect == Spec => []TypeOK
<1>1. RunInv => TypeOK
  BY DEF RunInv
<1> QED
  BY <1>1, RunInit, RunStep, PTL DEF Spec

-----------------------------------------------------------------------------
\* A row leaves the queue only into "failed", or because the run that is about
\* to succeed on it completes it; a failed row stays.
LEMMA Persist ==
  ASSUME RunInv, [Next]_vars
  PROVE  \/ \A j \in Ticks : /\ InFlight(j) => InFlight(j)' \/ status'[j] = "failed"
                             /\ status[j] = "failed" => status'[j] = "failed"
         \/ \E w \in Workers :
              /\ step[w] = "succeeded" /\ step' = [step EXCEPT ![w] = "idle"]
              /\ \A j \in Ticks : j # tick[w] => status'[j] = status[j]
              /\ UNCHANGED boots
              /\ status[tick[w]] = "running"
              /\ tick[w] \in Ticks
              /\ tick' = [tick EXCEPT ![w] = NULL]
              /\ target' = [target EXCEPT ![w] = NULL]
<1> DEFINE Kept == \A j \in Ticks : /\ InFlight(j) => InFlight(j)' \/ status'[j] = "failed"
                                    /\ status[j] = "failed" => status'[j] = "failed"
<1>t. status \in [Ticks -> Queue!Statuses] /\ TypeOK /\ Started
      /\ pick \in [Workers -> SUBSET Ticks]
  BY DEF RunInv, TypeOK, Queue!TypeOK
<1>q. UNCHANGED status => Kept
  BY DEF InFlight
<1>i. ASSUME NEW t, Insert(t) PROVE Kept
  <2>1. PICK j \in Ticks : status[j] = "absent" /\ status' = [status EXCEPT ![j] = "pending"]
    BY <1>i, <1>t, Inserted
  <2> QED
    BY <2>1, <1>t DEF InFlight
<1>1. CASE EnsureScheduled
  <2>1. UNCHANGED status \/ \E t : Insert(t)
    BY <1>1 DEF EnsureScheduled, queueVars
  <2> QED
    BY <2>1, <1>i, <1>q
<1>2. CASE Watchdog
  BY <1>2, <1>t DEF Watchdog, Queue!LeaseExpires, Queue!RequeueStuckJobs, Queue!Stuck, InFlight
<1>3. CASE TimePasses
  BY <1>3, <1>q DEF TimePasses
<1>4. ASSUME NEW w \in Workers, PickTick(w) PROVE Kept
  BY <1>4, <1>q DEF PickTick, Queue!PickRows
<1>5. ASSUME NEW w \in Workers, ClaimTick(w) PROVE Kept
  <2>1. status' = [j \in Ticks |-> IF j \in pick[w] THEN "running" ELSE status[j]]
    BY <1>5 DEF ClaimTick, Queue!CommitClaim
  <2>2. \A j \in pick[w] : status[j] # "failed"
    BY <1>5, <1>t DEF Started, PicksPending
  <2> QED
    BY <2>1, <2>2, <1>t DEF InFlight
<1>6. ASSUME NEW w \in Workers, Sweep(w) \/ LookUpNext(w) \/ CrashWorker(w) PROVE Kept
  BY <1>6, <1>q DEF Sweep, LookUpNext, CrashWorker, queueVars
<1>7. ASSUME NEW w \in Workers, InsertNext(w) PROVE Kept
  <2>1. UNCHANGED status \/ Insert(target[w])
    BY <1>7 DEF InsertNext, queueVars
  <2> QED
    BY <2>1, <1>i, <1>q
<1>10. CASE UNCHANGED vars
  BY <1>10, <1>q DEF vars, queueVars
<1>8. ASSUME NEW w \in Workers, ReportTick(w), Queue!CompleteJob(w, tick[w])
      PROVE  \/ Kept
             \/ /\ step[w] = "succeeded" /\ step' = [step EXCEPT ![w] = "idle"]
                /\ \A j \in Ticks : j # tick[w] => status'[j] = status[j]
                /\ UNCHANGED boots
                /\ status[tick[w]] = "running"
                /\ tick[w] \in Ticks
                /\ tick' = [tick EXCEPT ![w] = NULL]
                /\ target' = [target EXCEPT ![w] = NULL]
  <2>1. status' = [status EXCEPT ![tick[w]] = "done"] /\ status[tick[w]] = "running"
    BY <1>8 DEF Queue!CompleteJob, Queue!Owns
  <2>2. step[w] \in {"succeeded", "failed"}
    BY <1>8 DEF ReportTick
  <2>3. tick[w] \in Ticks
    BY <2>2, <1>t DEF Started
  <2>4. step[w] = "succeeded"
    <3>1. status'[tick[w]] = "done"
      BY <2>1, <2>3, <1>t
    <3>2. ~Queue!FailJob(w, tick[w], FALSE)
      BY <3>1, <2>3, <1>t DEF Queue!FailJob
    <3>3. status' # status
      BY <3>1, <2>1
    <3> QED
      BY <1>8, <3>2, <3>3 DEF ReportTick, queueVars
  <2> QED
    BY <1>8, <2>1, <2>3, <2>4, <1>t DEF ReportTick, Goto
<1>9. ASSUME NEW w \in Workers, ReportTick(w), ~Queue!CompleteJob(w, tick[w]) PROVE Kept
  <2>1. UNCHANGED status \/ Queue!FailJob(w, tick[w], FALSE)
    BY <1>9 DEF ReportTick, queueVars
  <2>2. ASSUME Queue!FailJob(w, tick[w], FALSE) PROVE Kept
    <3>1. \E s \in {"failed", "pending"} : status' = [status EXCEPT ![tick[w]] = s]
      BY <2>2 DEF Queue!FailJob
    <3>2. status[tick[w]] = "running"
      BY <2>2 DEF Queue!FailJob, Queue!Owns
    <3> QED
      BY <3>1, <3>2, <1>t DEF InFlight
  <2> QED
    BY <2>1, <2>2, <1>q
<1> QED
  <2>1. \/ EnsureScheduled \/ Watchdog \/ TimePasses \/ UNCHANGED vars
        \/ \E w \in Workers :
             \/ PickTick(w) \/ ClaimTick(w) \/ InsertNext(w) \/ ReportTick(w)
             \/ Sweep(w) \/ LookUpNext(w) \/ CrashWorker(w)
    BY DEF Next
  <2> QED
    BY <2>1, <1>1, <1>2, <1>3, <1>4, <1>5, <1>6, <1>7, <1>8, <1>9, <1>10

-----------------------------------------------------------------------------
\* What LaterInFlight or a failure say of the table after the step.
LaterNext(t) == \/ \E j \in Ticks : status'[j] = "failed"
                \/ \E j \in Ticks : InFlight(j)' /\ At(j) > t
AnyNext == \E j \in Ticks : InFlight(j)' \/ status'[j] = "failed"

\* While rows only leave the queue by failing, a later tick is not lost.
LEMMA KeptLater ==
  ASSUME \A j \in Ticks : /\ InFlight(j) => InFlight(j)' \/ status'[j] = "failed"
                          /\ status[j] = "failed" => status'[j] = "failed"
  PROVE  /\ \A t \in Int : SomeFailed \/ LaterInFlight(t) => LaterNext(t)
         /\ (\E j \in Ticks : InFlight(j)) \/ SomeFailed => AnyNext
BY DEF SomeFailed, LaterInFlight, LaterNext, AnyNext

\* Who completes a tick has seen a later one, so nobody loses sight of the chain.
LEMMA CompletedLater ==
  ASSUME RunInv, ChainInv, NEW w \in Workers, step[w] = "succeeded", tick[w] \in Ticks,
         \A j \in Ticks : j # tick[w] => status'[j] = status[j],
         status[tick[w]] = "running"
  PROVE  /\ \A t \in Int : SomeFailed \/ LaterInFlight(t) => LaterNext(t)
         /\ AnyNext
<1>1. SomeFailed => /\ \A t \in Int : LaterNext(t)
                    /\ AnyNext
  BY DEF SomeFailed, LaterNext, AnyNext
<1>2. SomeFailed \/ LaterInFlight(At(tick[w]))
  BY DEF ChainInv
<1>3. ASSUME ~SomeFailed
      PROVE  \E k \in Ticks : InFlight(k)' /\ At(k) > At(tick[w])
  <2>1. PICK k \in Ticks : InFlight(k) /\ At(k) > At(tick[w])
    BY <1>2, <1>3 DEF LaterInFlight
  <2>2. At(tick[w]) \in Int
    BY TickTimes
  <2>3. k # tick[w]
    BY <2>1, <2>2
  <2> QED
    BY <2>1, <2>3 DEF InFlight
<1>4. ASSUME NEW t \in Int, LaterInFlight(t), ~SomeFailed PROVE LaterNext(t)
  <2>1. PICK j \in Ticks : InFlight(j) /\ At(j) > t
    BY <1>4 DEF LaterInFlight
  <2>2. CASE j # tick[w]
    BY <2>1, <2>2 DEF InFlight, LaterNext
  <2>3. CASE j = tick[w]
    <3>1. PICK k \in Ticks : InFlight(k)' /\ At(k) > At(tick[w])
      BY <1>3, <1>4
    <3>2. At(k) > t
      BY <2>1, <2>3, <3>1, TickTimes
    <3> QED
      BY <3>1, <3>2 DEF LaterNext
  <2> QED
    BY <2>2, <2>3
<1>5. ~SomeFailed => AnyNext
  BY <1>3 DEF AnyNext
<1> QED
  BY <1>1, <1>4, <1>5

\* No handler, boot, crash, retry or expired lease breaks the chain.
LEMMA ChainStep ==
  ASSUME LaterTicks, RunInv, ChainInv, [Next]_vars
  PROVE  ChainInv'
<1> DEFINE Later(t) == SomeFailed \/ LaterInFlight(t)
           Any == (\E j \in Ticks : InFlight(j)) \/ SomeFailed
           Aims == \A w \in Workers :
                     step'[w] \in {"enqueueing", "looking"} => target'[w] > At(tick'[w])
           Seen == \A w \in Workers : step'[w] = "succeeded" => LaterNext(At(tick'[w]))
           Alive == boots' > 0 => AnyNext
<1>t. /\ step \in [Workers -> Steps]
      /\ tick \in [Workers -> Ticks \cup {NULL}]
      /\ target \in [Workers -> Horizon \cup {NULL}]
      /\ now \in Times
      /\ \A w \in Workers : step[w] # "idle" => tick[w] \in Ticks /\ At(tick[w]) <= now
      /\ \A w \in Workers : step[w] \in {"enqueueing", "looking"} => target[w] \in Horizon
  BY DEF RunInv, TypeOK, Started
<1>c. /\ \A w \in Workers :
           step[w] \in {"enqueueing", "looking"} => target[w] > At(tick[w])
      /\ \A w \in Workers : step[w] = "succeeded" => Later(At(tick[w]))
      /\ boots > 0 => Any
  BY DEF ChainInv, ChainSurvives, SomeFailed
<1>s. \A j \in Ticks : At(j) \in Int
  BY TickTimes
<1>h. ASSUME NEW next \in NextTick[now] PROVE next \in Int
  <2>1. NextTick[now] \subseteq Horizon
    BY <1>t, TickTimes
  <2>2. next \in Horizon
    BY <2>1
  <2> QED
    BY <2>2, TickTimes
<1>g. Aims /\ Seen /\ Alive => ChainInv'
  <2>1. ASSUME Alive PROVE ChainSurvives'
    BY <2>1 DEF AnyNext, ChainSurvives, InFlight
  <2>2. ASSUME Seen PROVE (\A w \in Workers :
           step[w] = "succeeded" => SomeFailed \/ LaterInFlight(At(tick[w])))'
    BY <2>2 DEF LaterNext, SomeFailed, LaterInFlight, InFlight, At
  <2> QED
    BY <2>1, <2>2 DEF ChainInv, At
<1>1. ASSUME NEW w \in Workers,
             step[w] = "succeeded", step' = [step EXCEPT ![w] = "idle"],
             \A j \in Ticks : j # tick[w] => status'[j] = status[j],
             UNCHANGED boots,
             status[tick[w]] = "running",
             tick[w] \in Ticks,
             tick' = [tick EXCEPT ![w] = NULL],
             target' = [target EXCEPT ![w] = NULL]
      PROVE  ChainInv'
  <2>1. /\ \A t \in Int : Later(t) => LaterNext(t)
        /\ AnyNext
    BY <1>1, CompletedLater
  <2> HIDE DEF Later
  <2>2. Aims
    BY <1>1, <1>t, <1>c
  <2>3. Seen
    BY <1>1, <1>t, <1>c, <1>s, <2>1
  <2> QED
    BY <2>1, <2>2, <2>3, <1>g
<1>2. ASSUME \A j \in Ticks : /\ InFlight(j) => InFlight(j)' \/ status'[j] = "failed"
                              /\ status[j] = "failed" => status'[j] = "failed"
      PROVE  ChainInv'
  <2>1. /\ \A t \in Int : Later(t) => LaterNext(t)
        /\ Any => AnyNext
    BY <1>2, KeptLater
  <2> HIDE DEF Later, Any
  <2>2. ASSUME UNCHANGED <<step, tick, target>> PROVE Aims /\ Seen
    BY <2>2, <2>1, <1>t, <1>c, <1>s
  <2>3. UNCHANGED boots => Alive
    BY <2>1, <1>c
  <2>i. ASSUME NEW t, Insert(t), t \in Int
        PROVE  /\ AnyNext
               /\ \A u \in Int : t > u => LaterNext(u)
    <3>1. PICK j \in Ticks : At(j) = t /\ status' = [status EXCEPT ![j] = "pending"]
      BY <2>i, Inserted DEF RunInv
    <3>2. InFlight(j)'
      BY <3>1 DEF InFlight, RunInv, TypeOK, Queue!TypeOK
    <3> QED
      BY <3>1, <3>2 DEF LaterNext, AnyNext
  <2>k. ASSUME NEW t, KeyTaken(t), t \in Int
        PROVE  /\ AnyNext
               /\ \A u \in Int : t > u => LaterNext(u)
    <3>1. PICK j \in Ticks : At(j) = t /\ InFlight(j)
      BY <2>k DEF KeyTaken
    <3> QED
      BY <3>1, <1>2 DEF LaterNext, AnyNext
  <2>4. CASE EnsureScheduled
    <3>1. PICK next \in NextTick[now] : KeyTaken(next) \/ Insert(next)
      BY <2>4 DEF EnsureScheduled
    <3>2. next \in Int
      BY <1>h
    <3>3. AnyNext
      BY <3>1, <3>2, <2>i, <2>k
    <3>4. UNCHANGED <<step, tick, target>>
      BY <2>4 DEF EnsureScheduled, runVars
    <3> QED
      BY <3>3, <3>4, <2>2, <1>g
  <2>5. CASE Watchdog \/ TimePasses \/ UNCHANGED vars
    BY <2>5, <2>2, <2>3, <1>g DEF Watchdog, TimePasses, vars, runVars
  <2>6. ASSUME NEW w \in Workers, PickTick(w) PROVE ChainInv'
    BY <2>6, <2>2, <2>3, <1>g DEF PickTick, runVars
  <2>7. ASSUME NEW w \in Workers, ClaimTick(w) PROVE ChainInv'
    <3>1. /\ step' = [step EXCEPT ![w] = "sweeping"]
          /\ \A v \in Workers \ {w} : tick'[v] = tick[v]
          /\ UNCHANGED <<target, boots>>
      BY <2>7, <1>t DEF ClaimTick, Goto
    <3>2. Aims /\ Seen
      BY <3>1, <2>1, <1>t, <1>c, <1>s
    <3> QED
      BY <3>1, <3>2, <2>3, <1>g
  <2>8. ASSUME NEW w \in Workers, Sweep(w) PROVE ChainInv'
    <3>1. /\ step[w] = "sweeping" /\ UNCHANGED <<tick, boots>>
          /\ \/ /\ \E next \in NextTick[now] : target' = [target EXCEPT ![w] = next]
                /\ step' = [step EXCEPT ![w] = "enqueueing"]
             \/ step' = [step EXCEPT ![w] = "failed"] /\ UNCHANGED target
      BY <2>8 DEF Sweep, Goto
    <3>2. \A next \in NextTick[now] : next > now /\ next \in Int /\ now \in Int
      BY <1>t, <1>h DEF LaterTicks, Times
    <3>3. \A next \in NextTick[now] : next > At(tick[w])
      BY <3>1, <3>2, <1>t, <1>s
    <3>4. Aims
      BY <3>1, <3>3, <1>t, <1>c
    <3>5. Seen
      BY <3>1, <2>1, <1>t, <1>c, <1>s
    <3> QED
      BY <3>1, <3>4, <3>5, <2>3, <1>g
  <2>9. ASSUME NEW w \in Workers, InsertNext(w) \/ LookUpNext(w) PROVE ChainInv'
    <3>1. /\ step[w] \in {"enqueueing", "looking"} /\ UNCHANGED <<tick, target, boots>>
          /\ \/ /\ Insert(target[w]) \/ KeyTaken(target[w])
                /\ \/ step' = [step EXCEPT ![w] = "succeeded"]
                   \/ step' = [step EXCEPT ![w] = "looking"]
             \/ step' = [step EXCEPT ![w] = "failed"]
      <4>1. AfterEnqueueError = "failed"
        BY DEF AfterEnqueueError, LaterTicks
      <4>2. CASE InsertNext(w)
        BY <4>1, <4>2 DEF InsertNext, Goto
      <4>3. CASE LookUpNext(w)
        BY <4>1, <4>3 DEF LookUpNext, Goto
      <4> QED
        BY <2>9, <4>2, <4>3
    <3>2. target[w] \in Int /\ At(tick[w]) \in Int /\ target[w] > At(tick[w])
      <4>1. target[w] \in Horizon /\ tick[w] \in Ticks
        BY <3>1, <1>t
      <4>2. target[w] \in Int
        BY <4>1, TickTimes
      <4> QED
        BY <3>1, <4>1, <4>2, <1>c, <1>s
    <3>3. Aims
      BY <3>1, <1>t, <1>c
    <3>4. Insert(target[w]) \/ KeyTaken(target[w]) => LaterNext(At(tick[w]))
      BY <3>2, <2>i, <2>k
    <3>5. ASSUME NEW v \in Workers, step'[v] = "succeeded" PROVE LaterNext(At(tick'[v]))
      <4>1. CASE v = w
        BY <4>1, <3>1, <3>4, <3>5, <1>t
      <4>2. CASE v # w
        <5>1. step[v] = "succeeded" /\ tick'[v] = tick[v]
          BY <4>2, <3>1, <3>5, <1>t
        <5> QED
          BY <5>1, <2>1, <1>t, <1>c, <1>s
      <4> QED
        BY <4>1, <4>2
    <3> QED
      BY <3>1, <3>3, <3>5, <2>3, <1>g
  <2>10. ASSUME NEW w \in Workers, ReportTick(w) \/ CrashWorker(w) PROVE ChainInv'
    <3>1. /\ step' = [step EXCEPT ![w] = "idle"]
          /\ tick' = [tick EXCEPT ![w] = NULL]
          /\ target' = [target EXCEPT ![w] = NULL]
          /\ UNCHANGED boots
      BY <2>10 DEF ReportTick, CrashWorker, Goto
    <3>2. Aims /\ Seen
      BY <3>1, <2>1, <1>t, <1>c, <1>s
    <3> QED
      BY <3>1, <3>2, <2>3, <1>g
  <2> QED
    BY <2>4, <2>5, <2>6, <2>7, <2>8, <2>9, <2>10 DEF Next
<1> QED
  BY <1>1, <1>2, Persist

\* Once seeded, the chain has a tick in flight or has failed for good: for every
\* handler that aims later than its run and returns the error of its re-enqueue.
THEOREM ChainIsKept == LaterTicks /\ Spec => []ChainSurvives
<1> SUFFICES ASSUME LaterTicks PROVE Spec => []ChainSurvives
  OBVIOUS
<1>1. Init => ChainInv
  BY DEF Init, ChainInv, ChainSurvives
<1>2. RunInv /\ ChainInv /\ [Next]_vars => ChainInv'
  BY ChainStep
<1>3. ChainInv => ChainSurvives
  BY DEF ChainInv
<1> QED
  BY <1>1, <1>2, <1>3, RunInit, RunStep, PTL DEF Spec

-----------------------------------------------------------------------------
\* Only an enqueue makes a tick future: what has run once is due.
LEMMA FutureRows ==
  ASSUME RunInv, [Next]_vars, NEW j \in Ticks, Future(j)', ~Future(j)
  PROVE  /\ UNCHANGED <<now, target>>
         /\ \/ At(j) \in NextTick[now]
            \/ \E w \in Workers : step[w] = "enqueueing" /\ target[w] = At(j)
         /\ \A i \in Ticks : i # j => status'[i] = status[i]
         /\ \A i \in Ticks : i # j /\ Future(i) => At(i) # At(j)
<1>t. /\ status \in [Ticks -> Queue!Statuses] /\ now \in Int /\ TypeOK
      /\ status[j] = "running" => At(j) <= now
  BY DEF RunInv, TypeOK, Queue!TypeOK, Times, Started
<1>s. At(j) \in Int
  BY TickTimes
<1>f. status'[j] = "pending" /\ At(j) > now'
  BY DEF Future
<1>g. status[j] # "pending" \/ ~(At(j) > now)
  BY DEF Future
<1>q. UNCHANGED <<status, now>> => FALSE
  BY <1>f, <1>g
<1>r. status[j] = "running" /\ UNCHANGED now => FALSE
  BY <1>f, <1>t, <1>s
<1>i. ASSUME NEW t, Insert(t), UNCHANGED <<now, target>>
      PROVE  /\ At(j) = t
             /\ \A i \in Ticks : i # j => status'[i] = status[i]
             /\ \A i \in Ticks : i # j /\ Future(i) => At(i) # At(j)
  <2>1. PICK k \in Ticks : /\ At(k) = t
                           /\ status' = [status EXCEPT ![k] = "pending"]
                           /\ \A i \in Ticks : InFlight(i) => At(i) # t
    BY <1>i, <1>t, Inserted
  <2>2. k = j
    BY <2>1, <1>f, <1>g, <1>i, <1>t
  <2> QED
    BY <2>1, <2>2, <1>t DEF Future, InFlight
<1>1. CASE EnsureScheduled
  <2>1. PICK next \in NextTick[now] : UNCHANGED status \/ Insert(next)
    BY <1>1 DEF EnsureScheduled, queueVars
  <2>2. UNCHANGED <<now, target>>
    BY <1>1 DEF EnsureScheduled, runVars
  <2> QED
    BY <2>1, <2>2, <1>i, <1>q
<1>2. CASE Watchdog
  <2>1. UNCHANGED now
    BY <1>2 DEF Watchdog
  <2>2. ASSUME NEW k \in Ticks, Queue!LeaseExpires(k) PROVE FALSE
    BY <2>1, <2>2, <1>q DEF Queue!LeaseExpires
  <2>3. ASSUME Queue!RequeueStuckJobs PROVE FALSE
    BY <2>1, <2>3, <1>r, <1>t, <1>f, <1>g DEF Queue!RequeueStuckJobs, Queue!Stuck
  <2> QED
    BY <1>2, <2>2, <2>3 DEF Watchdog
<1>3. CASE TimePasses
  <2>1. UNCHANGED status /\ now' = now + 1
    BY <1>3 DEF TimePasses
  <2> QED
    BY <2>1, <1>f, <1>g, <1>t, <1>s
<1>4. ASSUME NEW w \in Workers, PickTick(w) PROVE FALSE
  BY <1>4, <1>q DEF PickTick, Queue!PickRows
<1>5. ASSUME NEW w \in Workers, ClaimTick(w) PROVE FALSE
  BY <1>5, <1>f, <1>g, <1>t DEF ClaimTick, Queue!CommitClaim
<1>6. ASSUME NEW w \in Workers, Sweep(w) \/ LookUpNext(w) \/ CrashWorker(w) PROVE FALSE
  BY <1>6, <1>q DEF Sweep, LookUpNext, CrashWorker, queueVars
<1>7. ASSUME NEW w \in Workers, InsertNext(w)
      PROVE  /\ step[w] = "enqueueing" /\ target[w] = At(j)
             /\ UNCHANGED <<now, target>>
             /\ \A i \in Ticks : i # j => status'[i] = status[i]
             /\ \A i \in Ticks : i # j /\ Future(i) => At(i) # At(j)
  <2>1. /\ step[w] = "enqueueing" /\ UNCHANGED <<now, target>>
        /\ UNCHANGED status \/ Insert(target[w])
    BY <1>7 DEF InsertNext, queueVars
  <2> QED
    BY <2>1, <1>i, <1>q
<1>8. ASSUME NEW w \in Workers, ReportTick(w) PROVE FALSE
  <2>1. UNCHANGED now
    BY <1>8 DEF ReportTick
  <2>2. ~UNCHANGED status
    BY <2>1, <1>q
  <2>3. Queue!CompleteJob(w, tick[w]) \/ Queue!FailJob(w, tick[w], FALSE)
    BY <1>8, <2>2 DEF ReportTick, queueVars
  <2>4. status[tick[w]] = "running" /\ \A i \in Ticks : i # tick[w] => status'[i] = status[i]
    BY <2>3, <1>t DEF Queue!CompleteJob, Queue!FailJob, Queue!Owns
  <2>5. tick[w] # j
    BY <2>1, <2>4, <1>r
  <2> QED
    BY <2>1, <2>4, <2>5, <1>f, <1>g
<1>9. CASE UNCHANGED vars
  BY <1>9, <1>q DEF vars, queueVars
<1> QED
  BY <1>1, <1>2, <1>3, <1>4, <1>5, <1>6, <1>7, <1>8, <1>9 DEF Next

\* The rest of the interval aims at the same wake hour.
LEMMA SameHour ==
  ASSUME WakeHours, now \in Times, now' \in Times, now' = now + 1,
         NEW t \in NextTick[now], t \in Int, t > now'
  PROVE  t \in NextTick[now']
<1>1. PICK n \in NextTick[now] :
        /\ n > now /\ NextTick[now] = {n}
        /\ \A u \in Times : now <= u /\ u < n => NextTick[u] = {n}
  BY DEF WakeHours
<1>2. t = n
  BY <1>1
<1>3. now \in Int
  BY DEF Times
<1> QED
  BY <1>1, <1>2, <1>3

\* All that is still to come is the next wake hour, in one row.
LEMMA FutureStep ==
  ASSUME WakeHours, RunInv, RunInv', FutureInv, [Next]_vars
  PROVE  FutureInv'
<1>t. /\ now \in Times /\ now' \in Times /\ now \in Int
      /\ step \in [Workers -> Steps]
      /\ target \in [Workers -> Horizon \cup {NULL}]
      /\ \A w \in Workers : step[w] \in {"enqueueing", "looking"} => target[w] \in Int
      /\ \A w \in Workers : step'[w] \in {"enqueueing", "looking"} => target'[w] \in Int
  <2>1. TypeOK /\ TypeOK' /\ Started /\ Started'
    BY DEF RunInv
  <2>2. /\ now \in Times /\ now' \in Times
        /\ step \in [Workers -> Steps]
        /\ target \in [Workers -> Horizon \cup {NULL}]
    BY <2>1 DEF TypeOK
  <2>3. /\ \A w \in Workers : step[w] \in {"enqueueing", "looking"} => target[w] \in Int
        /\ \A w \in Workers : step'[w] \in {"enqueueing", "looking"} => target'[w] \in Int
    BY <2>1, TickTimes DEF Started
  <2> QED
    BY <2>2, <2>3 DEF Times
<1>n. \/ UNCHANGED now
      \/ now' = now + 1 /\ UNCHANGED <<status, step, target>>
  BY DEF Next, EnsureScheduled, Watchdog, TimePasses, PickTick, ClaimTick, Sweep,
         InsertNext, LookUpNext, ReportTick, CrashWorker, vars, runVars
<1>1. ASSUME NEW j \in Ticks, Future(j)' PROVE At(j) \in NextTick[now']
  <2>1. CASE Future(j)
    <3>1. At(j) \in NextTick[now] /\ At(j) \in Int
      BY <2>1, TickTimes DEF FutureInv
    <3>2. At(j) > now'
      BY <1>1 DEF Future
    <3> QED
      BY <3>1, <3>2, <1>t, <1>n, SameHour
  <2>2. CASE ~Future(j)
    <3>1. /\ UNCHANGED now
          /\ \/ At(j) \in NextTick[now]
             \/ \E w \in Workers : step[w] = "enqueueing" /\ target[w] = At(j)
      BY <1>1, <2>2, FutureRows
    <3>2. At(j) > now
      BY <1>1, <3>1 DEF Future
    <3> QED
      BY <3>1, <3>2 DEF FutureInv
  <2> QED
    BY <2>1, <2>2
<1>2. ASSUME NEW w \in Workers, step'[w] \in {"enqueueing", "looking"}, target'[w] > now'
      PROVE  target'[w] \in NextTick[now']
  <2>1. CASE step[w] \in {"enqueueing", "looking"} /\ target'[w] = target[w]
    <3>1. target[w] > now /\ target[w] \in Int
      BY <1>2, <2>1, <1>n, <1>t
    <3>2. target[w] \in NextTick[now]
      BY <2>1, <3>1 DEF FutureInv
    <3> QED
      BY <2>1, <3>1, <3>2, <1>2, <1>t, <1>n, SameHour
  <2>2. CASE ~(step[w] \in {"enqueueing", "looking"} /\ target'[w] = target[w])
    <3>1. \E v \in Workers : Sweep(v) /\ v = w /\ step'[v] = "enqueueing"
      <4>1. ASSUME NEW v \in Workers, Sweep(v) PROVE v = w /\ step'[v] = "enqueueing"
        BY <4>1, <2>2, <1>2, <1>t DEF Sweep, Goto
      <4>2. ASSUME NEW v \in Workers, InsertNext(v) PROVE FALSE
        BY <4>2, <2>2, <1>2, <1>t DEF InsertNext, Goto
      <4>3. ASSUME NEW v \in Workers,
                   ClaimTick(v) \/ LookUpNext(v) \/ ReportTick(v) \/ CrashWorker(v)
            PROVE  FALSE
        BY <4>3, <2>2, <1>2, <1>t DEF ClaimTick, LookUpNext, ReportTick, CrashWorker, Goto
      <4>4. ASSUME UNCHANGED <<step, target>> PROVE FALSE
        BY <4>4, <2>2, <1>2
      <4> QED
        BY <4>1, <4>2, <4>3, <4>4 DEF Next, EnsureScheduled, Watchdog, TimePasses, PickTick,
           vars, runVars
    <3>2. step' = [step EXCEPT ![w] = "enqueueing"] /\ UNCHANGED now
          /\ \E next \in NextTick[now] : target' = [target EXCEPT ![w] = next]
      BY <3>1, <1>t DEF Sweep, Goto
    <3> QED
      BY <3>2, <1>t
  <2> QED
    BY <2>1, <2>2
<1>3. ASSUME NEW i \in Ticks, NEW j \in Ticks, Future(i)', Future(j)', At(i) = At(j), i # j
      PROVE  FALSE
  <2>1. ASSUME NEW k \in Ticks, NEW l \in Ticks, k # l, Future(k)', Future(l)',
               At(k) = At(l), ~Future(k)
        PROVE  FALSE
    <3>1. /\ UNCHANGED now /\ status'[l] = status[l]
          /\ Future(l) => At(l) # At(k)
      BY <2>1, FutureRows
    <3>2. Future(l)
      BY <2>1, <3>1 DEF Future
    <3> QED
      BY <2>1, <3>1, <3>2
  <2>2. Future(i) /\ Future(j)
    BY <1>3, <2>1
  <2> QED
    BY <1>3, <2>2 DEF FutureInv
<1> QED
  BY <1>1, <1>2, <1>3 DEF FutureInv, At

\* One row of one timestamp: at most one tick is still to come.
LEMMA OneRow == ASSUME WakeHours, RunInv, FutureInv PROVE OneFutureTick
<1> DEFINE F == {j \in Ticks : status[j] = "pending" /\ At(j) > now}
<1>1. \A i, j \in F : i = j
  <2>1. PICK n : NextTick[now] = {n}
    BY DEF WakeHours, RunInv, TypeOK
  <2> QED
    BY <2>1 DEF FutureInv, Future
<1>2. CASE F = {}
  BY <1>2, FS_EmptySet DEF OneFutureTick
<1>3. CASE F # {}
  <2>1. PICK j \in F : F = {j}
    BY <1>1, <1>3
  <2>2. Cardinality(F) = 1
    BY <2>1, FS_Singleton
  <2> QED
    BY <2>2 DEF OneFutureTick
<1> QED
  BY <1>2, <1>3

\* However many boots, retries and late runs enqueue the next tick, they collapse
\* into one row: for every handler whose runs aim at a common wake hour.
THEOREM OneTickToCome == WakeHours /\ Spec => []OneFutureTick
<1> SUFFICES ASSUME WakeHours PROVE Spec => []OneFutureTick
  OBVIOUS
<1>1. Init => FutureInv
  BY DEF Init, Queue!Init, FutureInv, Future
<1>2. RunInv /\ RunInv' /\ FutureInv /\ [Next]_vars => FutureInv'
  BY FutureStep
<1>3. RunInv /\ FutureInv => OneFutureTick
  BY OneRow
<1> QED
  BY <1>1, <1>2, <1>3, RunInit, RunStep, PTL DEF Spec
=============================================================================
