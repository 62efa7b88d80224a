----------------------------- MODULE JobRemote -----------------------------
(***************************************************************************)
(* External workers (a render farm, a federated peer) that drain the jobs  *)
(* table over HTTP (app/internal/jobs/handler.go: ClaimJobs, HeartbeatJob, *)
(* CompleteJob, FailJob).  The worker names itself in every request, or is *)
(* named after its account when it claims without a worker_id, and the     *)
(* server keeps nothing else about it.                                     *)
(*                                                                         *)
(* The clients are not part of the repository: they do what the API asks   *)
(* for, and may repeat a request whose answer they did not get.  A patient *)
(* one has one request at a time under way; the others give up waiting,    *)
(* and their requests are served at any later time, more than once.        *)
(* Operators do not touch the rows here, so the attempts a claim returned  *)
(* identifies that claim.                                                  *)
(***************************************************************************)
EXTENDS JobQueue

CONSTANTS
  Impatient,  \* clients that give up waiting for an answer
  MaxWire     \* bound: requests under way at once

ASSUME JobRemoteAssumption == Impatient \subseteq Workers /\ MaxWire \in Nat

VARIABLES
  task,   \* the claim (attempts) each client works on for each row, 0 if none
  wire    \* requests that have not been served, or of which a copy is left

remoteVars == <<jobVars, task, wire>>

Ops == {"heartbeat", "complete", "fail", "failTerminal"}
Requests == [client: Workers, job: Jobs, op: Ops, claim: Nat]

\* A patient client that has sent a request waits for the answer.
Waiting(w) == w \notin Impatient /\ \E r \in wire : r.client = w

RemoteInit ==
  /\ Init
  /\ task = [w \in Workers |-> [j \in Jobs |-> 0]]
  /\ wire = {}

\* ClaimJobs, the locking half of ClaimJobBatch.
ClaimStarts(w) ==
  /\ ~Waiting(w)
  /\ \E scope \in SUBSET Types, limit \in 1..BatchLimit :
       PickRows(w, scope, limit)
  /\ UNCHANGED <<task, wire>>

\* ClaimJobs, the commit: the client learns of the claims, or the answer is
\* lost and the rows stay claimed in its name.
ClaimEnds(w) ==
  /\ CommitClaim(w)
  /\ \/ task' = [task EXCEPT ![w] =
                   [j \in Jobs |-> IF j \in pick[w] THEN attempts[j] + 1
                                              ELSE task[w][j]]]
     \/ UNCHANGED task
  /\ UNCHANGED wire

\* A client reports on a claim it believes it has.
Send(w, j, op) ==
  /\ task[w][j] # 0
  /\ pick[w] = {}
  /\ ~Waiting(w)
  /\ Cardinality(wire) < MaxWire
  /\ wire' = wire \cup {[client |-> w, job |-> j, op |-> op, claim |-> task[w][j]]}
  /\ UNCHANGED <<jobVars, task>>

\* What the statement behind a request does to the row, if it finds it.
Effect(r) ==
  \/ r.op = "heartbeat" /\ HeartbeatJob(r.client, r.job)
  \/ r.op = "complete" /\ CompleteJob(r.client, r.job)
  \/ r.op = "fail" /\ FailJob(r.client, r.job, FALSE)
  \/ r.op = "failTerminal" /\ FailJob(r.client, r.job, TRUE)

\* 204: a final report ends the task.  409: the client drops the task.  If the
\* answer is lost it keeps the task and will ask again.
Answered(r, ended) ==
  \/ UNCHANGED task
  \/ /\ ended /\ task[r.client][r.job] = r.claim
     /\ task' = [task EXCEPT ![r.client][r.job] = 0]

Serve(r) ==
  /\ r \in wire
  /\ \/ Effect(r) /\ Answered(r, r.op # "heartbeat")
     \/ ~Owns(r.client, r.job) /\ UNCHANGED jobVars /\ Answered(r, TRUE)
  /\ \/ wire' = wire \ {r}
     \/ r.client \in Impatient /\ UNCHANGED wire

\* A request is lost, or its client crashes and forgets its tasks.
Lose(r) ==
  /\ r \in wire
  /\ wire' = wire \ {r}
  /\ UNCHANGED <<jobVars, task>>

ClientCrash(w) ==
  /\ task[w] # [j \in Jobs |-> 0] \/ pick[w] # {}
  /\ task' = [task EXCEPT ![w] = [j \in Jobs |-> 0]]
  /\ wire' = IF w \in Impatient THEN wire ELSE {r \in wire : r.client # w}
  /\ pick' = [pick EXCEPT ![w] = {}]
  /\ UNCHANGED <<status, attempts, claimedBy, lease, due, enqueuedAt, clock>>

\* The server's watchdog, producers and clocks.
Elsewhere ==
  /\ \/ RequeueStuckJobs
     \/ \E j \in Jobs : \/ EnqueueJob(j)
                        \/ LeaseExpires(j)
                        \/ ScheduleComes(j)
  /\ UNCHANGED <<task, wire>>

RemoteNext ==
  \/ \E w \in Workers : ClaimStarts(w) \/ ClaimEnds(w) \/ ClientCrash(w)
  \/ \E w \in Workers, j \in Jobs, op \in Ops : Send(w, j, op)
  \/ \E r \in wire : Serve(r) \/ Lose(r)
  \/ Elsewhere

RemoteSpec == RemoteInit /\ [][RemoteNext]_remoteVars

-----------------------------------------------------------------------------
RemoteTypeOK ==
  /\ TypeOK
  /\ task \in [Workers -> [Jobs -> Nat]]
  /\ wire \subseteq Requests

\* A request the server would accept, however late, never touches the work of
\* another client that was given the row since; and if its client waits for
\* its answers, it speaks for the row's latest claim, not for an earlier one
\* of the same client.
AcceptedRequestsAreCurrent ==
  \A r \in wire : Owns(r.client, r.job) =>
    /\ \A w \in Workers \ {r.client} : task[w][r.job] # attempts[r.job]
    /\ r.client \notin Impatient => task[r.client][r.job] \in {0, r.claim}

\* openapi.yaml of the heartbeat: "Returns 409 if the lease was already taken
\* by another worker."
StolenLeaseIsNoticed ==
  \A r \in wire : r.op = "heartbeat" /\ Owns(r.client, r.job) =>
    \A w \in Workers \ {r.client} : task[w][r.job] # attempts[r.job]
=============================================================================
