# A TLA+ verification of Artist Alley

Artist Alley is a digital asset manager with a social and a federated side: a
Go server (`src/app`), a SvelteKit client (`src/web`), and PostgreSQL, which
holds all durable state.  This directory holds TLA+ models of its concurrent
core, the TLC configurations that check them on small instances, and proofs,
checked by TLAPS, of the results that matter most.

    tlc -workers 2 -config JobPool.cfg MCJobPool     # one run
    tlapm JobPoolProofs.tla                          # one module of proofs

`PROJECT.json` lists the runs, the source lines behind every definition, the
mutants that show each property can fail, the hazards and the theorems.

## 1. The system

### 1.1 How its parts interact

Every request handler is a short database transaction.  What takes longer is
turned into a row of a table that a background loop drains:

    handlers ──INSERT──> jobs ──claim──> worker pool ──> handlers of job types
       │                  ^  ^──claim/report over HTTP── external workers
       │                  └── watchdog, operators, recurring ticks
       └──INSERT──> activities ──cursor──> outbox dispatcher ──> federation_outbox
                                                                      │ HTTP POST
       handlers of activities <── inbox dispatcher <── federation_inbox <── peer

The loops, the handlers and the peers share nothing but tables, plus a few
in-memory structures that are not durable: the worker pool's counters, the
replay cache and rate limiter of the inbox, the lockout cache, and read-through
caches of settings, peers, shares and access rules, which NOTIFY keeps in step
between processes.  So the hard behaviour is where a loop reads a row, works
without a lock, and writes the row again, and where an in-memory structure and a
table must agree.

### 1.2 Inventory

For each part: its state, its operations, what is hard, what makes it correct.

**Job queue** (`jobs/queries.sql`, `jobs.go`, `admin.go`; modelled).  One row
per job: status, attempts, claimed_by, lease_expires_at, scheduled_for,
priority, idempotency key.  Enqueue, claim one or a batch (`FOR UPDATE SKIP
LOCKED`), heartbeat, complete, fail, requeue stuck rows, purge, operator's
requeue and cancel.  Hard: any client may issue any statement at any time, and
a claim's SELECT and UPDATE are not one instant.  Correct: at most one row in
flight per key, attempts within the cap, nothing claimed twice, a finished row
stays finished.

**In-process worker pool** (`jobs/worker.go`; modelled).  Goroutines that poll,
claim, run a handler under a heartbeat and report; counters that cap the
running jobs per type; a watchdog.  Hard: the slot reservation that spans a
claim, an execution that outlives its lease, answers lost after a commit,
shutdown, crash, and a new process with the same worker ids.  Correct: caps
hold, no slot leaks, only the execution of a row's latest claim can settle it,
no row is left running for ever.

**External workers** (`jobs/handler.go`; modelled).  The same statements over
HTTP; a worker is only the string it sends.  Hard: repeated and late requests,
workers that share a string.  Correct: an accepted request never touches the
newer claim of another worker.

**Recurring jobs** (`softdelete/coordinator.go`, `audit/retention.go`,
`email/digest/coordinator.go`, `search/saved/coordinator.go`,
`scheduledactions/reaper.go`; the chain modelled, the sweeps not).  A job that
enqueues its own next tick, keyed by the tick's time.  Hard: a crash between
the enqueue and the completion, retries, several boots, a next tick that is the
running one.  Correct: the chain neither ends nor forks.

**Federation outbox** (`federation/outbox`; modelled).  A cursor over
`activities`, recipients per activity, one outbox row per recipient, delivery
with backoff, batches per peer.  Hard: an activity that commits late behind
the cursor, one bad activity that blocks its batch, a crash between POST and
mark, two rows of one activity in one batch, a peer that is disabled while a
POST is under way.  Correct: every activity reaches the rows of every recipient
it had, every row is settled, and what is marked sent was received.

**Federation inbox** (`federation/inbox`, `social/inbound.go`; modelled but for
signatures and limits).  Signature, rate limit, replay cache, UNIQUE insert, and
a dispatcher that runs a handler per row.  Hard: the cache answers "replayed"
before anything is stored; a crash between the handler's writes and the mark;
two dispatchers.  Correct: an activity that was answered 200 is stored, and its
effect is applied once.

**Federation peers** (`federation/peer`; the pairing modelled).  One row per
peer: status, key, capabilities.  Offer, accept, confirm, entry by hand,
deletion.  Hard: offers that cross, envelopes posted once, handlers that read,
then write by id.  Correct: both sides agree on "connected", with the peer's key,
and only because an administrator wanted it.

**Federation shares** (`federation/shares`; modelled but for matching).  Grants
that expire, are revoked or swept, behind a cache.  Hard: two sweepers and an
administrator on one row, a snapshot read before a commit and cached after it.
Correct: one aa:Unshare per revoked share, an expired share is revoked, and a
cached snapshot is stale for known reasons only.

**Process caches** (`cache`; modelled but for the wildcards).  An LRU per process
and domain, invalidated locally and by NOTIFY.  Hard: fills that overlap
invalidations, a listener that exits.  Correct: as for the shares' snapshot.

**Federation user keys, directory** (`federation/userkeys`, `directory`, `p2p`;
left out so far).  Key rotation with retained keys, signed snapshots.  Correct:
whatever was encrypted to a retained key can be read.

**HTTP signatures, encryption, DNS identity** (left out).  Pure functions over
cryptographic libraries.

**Scheduled actions** (`scheduledactions`; a post's publication modelled).  Rows
with a moment and an instruction.  Operators schedule and cancel; an author's
request replaces the author's pending row.  A due row is claimed, executed and
marked in one transaction.  Hard: publishing commits in another transaction than
the mark, so a crash between them carries the action out again; cancellations and
replacements meet a row that is being executed.  Correct: an instruction moves the
post once, never after it was cancelled, and a due one comes to an end.

**Posts, workflow, activities** (`posts/publication*.go`, `DeletePost`,
`workflow/service.go`, `activities`; the publication modelled).  A post's state and
tombstone, changed with the activity that tells the peers.  Hard: the state is read
on the pool and again without a lock, and activities are ordered by when their
transaction began.  Correct: what the peers were told last is what the post is.
Review and access requests (`requests`) and the workflow of assets are left out.

**Soft delete and trash** (`softdelete/service.go`, `trash`; restoring a post
modelled).  The rest is restore against the retention sweep: planned.

**Authentication and lockout** (`auth`, `auth/lockout`; planned).  A counter of
failures, cached; the rule that one administrator remains, under concurrent
demotions.

**Search, reindex, metadata batches, storage sweep** (`search/reindex`,
`metadata`, `storage`; planned late).  Long jobs with a persisted position,
reference counts against a sweep of orphans.

**Assets, collections, featured rails, teams, social graph, notifications,
email, visibility rules, licensing, settings, AI tools, previews, seeding,
memory watch, generated API, frontend** (left out).  Single statements, queries,
rendering, process counters, calls to external programs, generated code.  The
jobs some of them enqueue are jobs like any other.

## 2. The plan

| order | module | models | composes | state |
|---|---|---|---|---|
| 1 | `JobQueue` | the table and its statements | | checked, proved |
| 2 | `JobGate` | the per-type slots | | checked, proved |
| 3 | `JobPool` | the pool and its faults | `JobQueue`, `JobGate` | checked, proved |
| 3 | `LeasedWork` | what the pool promises, abstractly | | implemented by `JobPool`: checked, proved |
| 4 | `JobRemote` | external workers | `JobQueue` | checked, proved |
| 5 | `RecurringJob` | chains of ticks | `JobQueue` | checked, proved |
| 6 | `FederationWire` | requests under way, the budget of faults | | checked, proved in 9 |
| 7 | `Outbox` | cursor, recipients, delivery | `FederationWire` | checked, proved in 9 |
| 8 | `Inbox` | the endpoints and the dispatcher | `FederationWire` | checked in 9, 10, proved in 9 |
| 9 | `Federation` | two instances and a lossy network | `Outbox`, `Inbox` | checked, proved |
| 10 | `Receiving` | one inbox, several processes | `Inbox` | checked |
| 11 | `Handshake` | pairing | | checked, proved |
| 12 | `ProcessCache` | the caches and their listeners | | checked, proved in 13 |
| 13 | `Shares` | grant, revoke, sweep, snapshot | `ProcessCache` | checked, proved |
| 14 | `Publication` | publish, unpublish, delete, schedule, reap | | checked, proved |
| 15 | `UserKeys` | rotation | | to do |
| 16 | `Lockout`, `LastAdmin`, `Requests`, `Trash` | counters and state machines | | to do |

Abstract specifications worth stating: *leased work* (`LeasedWork`, done);
*at-least-once delivery, once-only effect* for `Federation` (for now as the
properties `SentWasReceived` and `EffectsOnce`); *an action is executed once or
cancelled* for `Publication` (for now as `FiresOnce`).

Every safety property that a passing run checks is now also a theorem (section
6).  Worth proving next: that `Federation` implements an abstract at-least-once
delivery with a once-only effect, and `Publication` an abstract schedule, each with
a mapping as `JobPool` has to `LeasedWork`; and the results of the inbox for the
several processes of `Receiving`.

## 3. The modules

### 3.1 JobQueue: the table

A row's type, priority, cap of attempts and key never change, so they are
functions of the row's id.  The columns that change are variables of the same
names.  Time appears as two facts about a row: its schedule has come (`due`),
its lease has passed (`lease = "expired"`); `ScheduleComes` and `LeaseExpires`
let it pass at any moment.  A claim is two actions: `PickRows`, the inner
SELECT, which locks the first rows in the order priority, enqueued_at that are
not locked, and `CommitClaim`, the UPDATE (`AbortClaim` if the connection is
gone).  Between the two any other statement may run; those that would wait for
the lock (`AdminCancelJob`) are guarded by it.  Every other statement is one
action whose guard is its WHERE clause.  `Next` lets every client issue every
statement, so what holds here holds for every user of the table.

Properties: `OneInFlightPerKey` (the unique index, against an operator who
requeues a dead row), `AttemptsWithinCap`, `PickedRowsStayClaimable` (locks),
`ClaimMatchesStatus` (owner and lease exist exactly where the watchdog and the
claim expect them), `DoneIsFinal`.

### 3.2 JobGate: the slots

A worker reserves a slot of every type it may claim (`ClaimScope`), keeps one
when a job comes back (`ClaimJob`) or none (`ClaimNothing`), and releases it
after the run (`RunEnds`).  Each is one critical section of `typeRunningMu`.
The decrement is guarded by `> 0` as in the code, so a slot returned twice
shows as a wrong counter and not as a negative number.

Properties: `CapRespected`, `CounterExact` (the counter is what is reserved plus
what is held: nothing leaks, nothing is returned twice), and `NeverWedged`.

### 3.3 JobPool: the pool

Composes the two (INSTANCE): each action names the statement and the gate
operation that happen together.  `cur`, `exec` and `outcome` are the local state
of `runOne`; `mode` is the process.  Faults are chosen by the constant `Faults`:

* `dberror`: a claim fails without effect (`ClaimFindsNothing`), or after its
  commit (`ClaimAnswerLost`); a report fails (`ReportFails`);
* `shutdown`: the context is cancelled (`Stop`); from then on no statement of
  `runOne` reaches the database (`StopWorker`), a claim may go either way;
* `crash`: memory is lost, uncommitted claims roll back (`Crash`), and a new
  process starts with the same ids (`Restart`);
* `admin`: operators requeue and cancel rows.

Leases expire at any moment, so an execution and the next one of the same row
overlap; a worker that notices keeps its slot until the handler has returned
(`HeartbeatLosesLease`, `Drained`).

Two history variables: `holder`, the worker that was told of a row's latest
claim, and `starts`, how often its handler was started since the INSERT or the
operator's requeue.  A row that is claimed and never started (the answer was lost)
counts as an attempt and not as a start, so that `StartsWithinCap`, at most
`max_attempts` starts, is about the cap and not about the counter.

Properties: `OwnerHoldsLatestClaim` and `ReportsOnlyByHolder` (claimed_by is only
a string, and one that is used again after a restart; still it identifies the
execution), `StartsWithinCap`, `HandlersWithinCap` (the cap also counts handlers
that drain after a lost lease), the two liveness properties of section 5, and
`ImplementsLeasedWork`.

`LeasedWork` is the promise without tables, locks, slots, heartbeats or clocks:
a unit is offered, handed out to an agent or to nobody (the answer was lost),
settled by the agent it was handed to last, taken away from whoever has it,
cancelled, reopened, forgotten; an agent may drop what it does at any time; a
unit is handed out at most `Budget` times.  Rows are the units, `holder` is the
tenant, `attempts` the hand-outs, `cur` what each agent does, and `PlaceOf` maps a
status to a place (a failed and a cancelled row are both "dead").  Every fault
maps to a step of it or to nothing: a crash to `Drop`, the watchdog to `Evict`,
a report that arrives to `Settle`, one that does not to `Drop`.

### 3.4 JobRemote: external workers

Extends the table by what lies in front of it.  The clients are external and do what the API asks for: claim, then heartbeat,
complete or fail what they were given.  A request is a record on the wire that
may be lost; its client may crash; the answer may be lost, so that the client
asks again.  A patient client waits for an answer or the loss of its request;
an impatient one does not, and copies of its requests are served at any later
time.  `task` is the claim a client believes it has, named by the attempts the
claim returned.

Property: `AcceptedRequestsAreCurrent`.

### 3.5 RecurringJob: chains of ticks

A row is a timestamp and a copy number; its idempotency key is the timestamp, as
`Format(RFC3339)` makes it.  One unit of time is one second of the key.
`NextTick` gives the timestamps a run at a given time may choose: the next wake
hour, an interval from now, now if the batch was full.  The enqueue is the
INSERT, and, after a unique violation, a second statement that looks the row up
and may find that it has finished meanwhile (`InsertNext`, `LookUpNext`).  Worker
and boots interleave; leases expire and workers crash anywhere.

Properties: `ChainSurvives`, `OneFutureTick`.

### 3.6 Outbox, Inbox, Federation: an activity's way to a peer

`FederationWire` has what the halves share: `calls`, the HTTP requests under way,
and `mishaps`, one budget for everything that goes wrong and every intervention
of an operator.  A request is a record with its envelopes in order and the
answers so far; when its worker has timed out or died it goes on without anyone
who waits (`from = NULL`), as a handler at the peer does.

*Outbox.*  An activity is its position in the order (created_at, id) that the
cursor walks.  created_at is when the writing transaction started, so `Record`
opens transactions in this order and `Commit` ends them in any.  The dispatcher
lists what lies behind the cursor (`ListUndispatched`) and, in a transaction of
its own, inserts the rows and moves the cursor (`Dispatch`), or rolls back
(`DispatchRollsBack`).

Whom an activity goes to is not read at each dispatch.  Each process keeps the
recipients of an object as it first read them (`cached`, the domain
`federation_shares.by_object` of the resolver): shares in effect, of peers that are
on at that moment (`ReadShares`, `InEffect`), an empty set too.  `GrantShare`,
`EndShare` (revoked or expired) and `SwitchPeer` leave the caches as they are, since
nobody calls the resolver's invalidation; only an eviction or a restart empties
them, which `ListUndispatched` lets happen between two batches (`Evictions`).
`Recipients` is what the cache holds.  Two histories name what is missed: `leftOut`,
the shares that were not in effect, or whose peer was off, at such a read, and
`misread`, the activities whose visibility could not be looked up.

A worker lists due rows without a lock (`ListDue`, which
remembers `attempts` as listed), delivers them peer by peer (`Deliver`: refused,
failed, to be retried, or posted), reads the response (`Answer`, `GiveUp`) and
writes the outcomes one by one (`Settle`), each UPDATE with its WHERE status =
'queued'.  `Keyed` and `ResultFor` are the map from activity to row that a batch
response is matched by: of two rows for one activity one is settled and the
other waits for the next tick.  `RequeueOutbox`, `CancelPending` and `SwitchPeer`
are the operators.

*Inbox.*  A request is served envelope by envelope: `Note` asks the replay cache,
which remembers what it is asked; `Store` inserts, or finds the unique index taken,
or refuses; `TurnRequestAway` refuses all of it; `Vanish` ends a request nobody
waits for.  The dispatcher lists rows without a lock (`ListPending`), and for each
looks for the target (`Look`), writes the like or comment (`Insert`), tells the
author (`Notify`) and marks the row (`Finish`), four statements with a crash
possible between any two.  The marks do not look at the status.

*Federation* composes the two: `Sender` leaves the peer's tables alone, `Receiver`
ours, `Tick` lets time pass for both.  *Receiving* is the inbox with several
processes and a given set of requests, to interleave more at the peer than the
composition can.

Properties: `CursorMissesOnlyOvertaken` (what the cursor passed has its rows, but
for three reasons: it committed late, its visibility could not be looked up, or the
recipients had been read, perhaps long before, when the share was not in effect or
its peer was off), `SentWasReceived` (across both databases),
`SettledRowsStay`, `AttemptsBounded` (the decision to give up uses the attempts as they
were listed, the UPDATE those there are), `RowsSettle`; `EffectsOnce` (an author is told at most once and
exactly once without a fault), `ProcessedStays`.

### 3.7 Handshake: pairing

A row `<<a, b>>` is what instance a's table says of b: `status`, `key`
(placeholder or real), `caps` (capabilities negotiated) and `id`, the primary key.
A handler reads the row when its envelope arrives (`Receive`) and becomes a task:
the id and status it saw and the statement it makes next.  `AddInbound`,
`SetCapabilities`, `CrossOffer`, `CompleteOutbound` and `AcceptInbound` are these
statements; the ones that write by id do nothing when the row is gone, and do it
whatever its status has become.  Offer and confirm are posted once; `Lose` is an
envelope that does not arrive, `Crash` a handler that ends between two statements.
`intent`, `started` and `byHand` are history: what the administrators wanted.

`legacy` are the instances that run a release older than `supported_capabilities`.
Their envelopes lack the field, and what receives one does not call
`SetCapabilities` (`Advertises`, the three tests of `env.SupportedCapabilities`):
by intent such a peer is connected with `capabilities_negotiated_at` NULL, so that it
is still listed for a new pairing.  An instance's release does not change during a
behaviour, and an older instance's own table is modelled like ours.

Properties: `ConnectedByIntent` (against rows deleted and offered again between a
handler's read and its write), `PlaceholderOnlyIfCrossed`, `NegotiatedUnlessCut`,
`OneSidedOfferPairs`; `ConnectedHasKey` is what a comment says and the code does
not do.

### 3.8 ProcessCache, Shares: grants behind a cache

`ProcessCache` is the `cache` package over several processes: a miss reads the
database (`Load`), the value is added later whatever happened since (`Add`), a
committed write is invalidated after the commit (`owed`, `Invalidate`): locally,
and by a NOTIFY that each process's one listener takes (`Receive`) until it exits on
its first error (`ListenerExits`).  The module that extends it says what the
database holds.  `overtaken` and `unheard` are history: reads that a commit passed,
and invalidations that will never arrive.

`Shares` is one object's shares: `Grant`, `Revoke`, `Expire`, and a sweeper per
process that lists expired shares and revokes each in a transaction
(`ListExpiring`, `SweepOne`, `SkipRevoked` when another was first).  Two slots are
two caches of the same rows: the gate's snapshot and the outbox resolver's set of
recipients; `Written` names the domains the writers invalidate.

Properties: `SnapshotIsCurrent`, `OneUnsharePerRevoke`, `ExpiredIsRevoked`;
`RecipientsFollowShares` is what a comment says of the resolver's cache.

### 3.9 Publication: one post and its schedule

Whoever moves the post is a mover: a reaper with the action it claimed, or a
person's request.  Both run the same body, `movePublicationAs`, in three steps that
others interleave with: `Check`, the reads on the pool (gone, already there, or to
be moved); `Begin`, the transaction's begin and `TransitionInTx`'s read of the state,
which takes no lock and finds an edge or none; `CommitMove`, the UPDATE with its
`deleted_at IS NULL`, the activity and the commit (`MoveOfDeleted` when no row is
left).  `DeletePost` is the same three without the edge, and its UPDATE does not look
whether the post is still there.  `stamp` is created_at, fixed by `Begin`; stamps only
matter by their order, so `NOW` is one more than the largest still in use, which
keeps them few.  An action is the moment it is scheduled for, and `clock` counts
moments.

A reaper holds `lock[a]` from `ClaimDueAction` (due, pending, not locked, oldest
first) to `Mark`.  `Abandon` is a crash, or a mark that fails: the lock goes, the row
is pending, and what was moved stays moved.  In `LoseClaim` only the connection of
the claim drops, while the move goes on over its own.  `PUT publication-schedule` is
a gate on the pool (`PutGate`), the transaction's clock and the snapshot of its
cancelling UPDATE (`PutSnapshot`), that UPDATE, which waits for a row being executed
and skips it if it then is not pending (`PutCancel`), and the insert, which waits for a
transaction that is cancelling the row in its way and otherwise fails on the unique
index (`PutInsert`).  Gates on the actor (identity, authorship, capability) are one
verdict, `Refuse`, and so is a statement that fails: for the reaper both are the same
error.

History: `word`, the activity with the latest created_at; `overtaken`, the last
commit was not the latest by created_at; `restored`; `fired`, actions that moved the
post and were not undone by a move back; `strayed`, actions with a lost claim.

Properties: `LastWordAgrees` (the post's state against the order in which peers see
its activities), `FiresOnce` (a crash after the move is repeated as a no-op; a
cancelled or replaced action moves nothing), `DueActionsSettle`, and in `TypeOK` that
an author has at most one pending instruction per post, by the index alone when two
requests race.

## 4. The runs

| run | shows | result |
|---|---|---|
| `queue` | the five invariants and `DoneIsFinal`, any client, any order | holds |
| `gate` | caps, exact counters, no wedge, three workers | holds |
| `pool` | ownership, starts, caps, through every fault; implements `LeasedWork` | holds |
| `pool_live` | running rows settle, claimable rows are claimed | holds |
| `remote` | accepted requests are current, lost and late requests | holds |
| `recurring_nightly` | the chain of an aligned job survives and does not fork | holds |
| `federation` | the cursor, sent implies received, settled rows stay, every row settles | holds |
| `receiving` | effects once, processed stays, two processes, overlapping requests | holds |
| `handshake` | connected by intent, keys, capabilities; a one-sided offer pairs | holds |
| `shares` | the gate's snapshot, one aa:Unshare, expired shares are revoked | holds |
| `shares_recipients` | the resolver's cache does not follow the shares | violated |
| `publication` | the last word agrees, an action fires once, a due one settles | holds |

### 4.1 What is violated

* *Recipients* (`outbox/resolver.go:237`; the same cache is part of `Outbox`, where
  it is the third reason of `CursorMissesOnlyOvertaken`).  The comment calls
  `InvalidateSharesByObject` "the cross-package hook the shares package calls"; it
  has no caller.  Once an object's recipients are cached, a later share of it gets
  none of its activities and a revoked one still does, until the entry is evicted
  or the process restarts.

Nine more configurations are kept beside the runs.  Each ends in a counterexample
to what a comment or the API description says; they are run by hand:

* `JobQueueExhausted.cfg` (`MCJobQueue`): `RequeueStuckJobs` makes every stuck row
  pending, a claim wants `attempts < max_attempts`.  A row whose worker died in its
  last attempt is pending for ever, and its key stays taken (`jobs/queries.sql:170`,
  comment 167-168).
* `JobPoolShutdown.cfg` (`MCJobPool`): a shutdown reports the failure with the
  context whose cancellation it is handling, so the row waits for its lease and the
  watchdog (`jobs/worker.go:268`, comment 266-267).
* `JobRemoteAccount.cfg` (`MCJobRemote`): without a worker_id a claim is named after
  the account; two machines of one account extend each other's leases
  (`jobs/handler.go:191`, `openapi.yaml:3648-3650`).
* `RecurringReaper.cfg` (`MCRecurringJob`): the reaper's seed is now plus five
  minutes, so its key differs from boot to boot: each boot adds a chain
  (`scheduledactions/reaper.go:212`, comment 209-210).
* `RecurringFull.cfg` (`MCRecurringJob`): a tick re-enqueued for now, claimed and
  filled within one second, computes its own key; Enqueue returns the running row
  and the chain ends (`reaper.go:101`, comment 98-99).
* `RecurringDigest.cfg` (`MCRecurringJob`): a re-enqueue that fails is logged, the
  tick is done and nothing is left until the next boot
  (`email/digest/coordinator.go:214`, comment 76-77).

* `HandshakeCrossing.cfg` (`MCHandshake`): each side has offered; each offer finds a
  pending_outbound row and `setStatus` flips it to connected.  The key stays the
  placeholder, since only `CompleteOutboundHandshake` writes the real one, and the
  confirm that would carry it is ignored as a duplicate.  The peer's signed requests
  can never be verified (`peer/handshake.go:267`).  `Add` says that only
  pending_outbound rows carry a placeholder (`peer.go:299-306`).
* `PublicationNoEdge.cfg` (`MCPublication`): a person publishes the post between a
  reaper's read on the pool and `TransitionInTx`; there is no edge from published to
  published, so the action is marked failed though the post is published.  The
  comment says that getting there means an edited list of edges
  (`posts/publication.go:467-469`).
* `PublicationRestore.cfg` (`MCPublication`): `RestorePost` writes no activity
  (`softdelete/service.go:136`), so after a delete and a restore the peers were last
  told that the post is gone.  `docs/v0_1_readiness.md:791-794` plans that both
  federate.

Met while reading or checking, without a configuration of their own:

* A delete or an unpublish that begins before a publish and commits after it leaves
  the post gone, with a Create as its latest activity by created_at; the cursor of the
  outbox goes by that order, or has passed the Delete for good.  These are the states
  that `LastWordAgrees` excepts as `overtaken`.
* Two publishes that both read the draft both commit, with two Creates:
  `TransitionInTx` reads inside the transaction, but without a lock and under READ
  COMMITTED, so the move it was meant to notice (`workflow/service.go:164-169`) can
  still go unseen.
* A reaper crashes after its publish and before the mark, and the author unpublishes
  meanwhile: the repeated action publishes the post again.  The comment calls the
  repeat a no-op (`executor.go:244-249`); `FiresOnce` allows it, since the post was
  moved back.
* Any error of the publication core, a passing one of the database included, marks the
  action failed for good (`reaper.go:165-186`).

* An activity about a public object has a visibility the resolver does not know
  (migration `00008`, `resolver.go:300`).  Its error rolls back the whole batch at
  every tick, and everything behind it waits (`outbox/dispatcher.go:304-311`).
  `DispatchRollsBack` is that step; the runs use resolvable activities, or nothing
  would ever be dispatched.
* The replay cache records an activity before its row is inserted
  (`inbox/replay_cache.go:67-87`): when the insert of one envelope fails, the next
  copy within the cache's memory, such as the second row of the same activity in
  the batch, is answered as replayed; its row is marked sent and the activity is
  lost.  It is the second case of `SentWasReceived`, which `federation` reaches.
* A failed insert is answered 500 for a lone envelope, and retried; in a batch it is
  answered "rejected", which is final.
* An error of the encryption policy lookup fails the inbox row for good:
  `markFailed` is terminal (`inbox/dispatcher.go:806`), while the comment (446-447)
  says that the next dispatch tick retries.
* An offer to a peer that entered us by hand is ignored as a duplicate and its
  sender stays pending_outbound.  A lost confirm is never sent again
  (`peer/handshake.go:459`).
* A grant announces `shareID := uuid.New()` (`shares/admin.go:274`) while the insert
  generates another id.
* A snapshot read before a commit and added after its invalidation stays until the
  next write or eviction; `shares.go:205-208` says that the next check sees fresh
  state.  It is one of the reasons `SnapshotIsCurrent` names.  A listener that exits
  (`cache.go:300`) is another.
* The comment at `worker.go:509-514` says that a pool without a list of types
  bypasses the gate, while `claimScope` consults it; `Pool.Start` says that it is
  idempotent, while a second call starts a second set of workers with the ids of
  the first.

### 4.2 Bounds, and why they are enough

* `queue`: three rows, two of them with one key, one of higher priority, one with
  two attempts; two clients; batches of up to two.  Two rows are needed for a
  conflict of keys and for a batch, the third for a pick that skips locked rows.
* `gate`: three workers, caps of two, one and zero (the last means none).  More
  workers than slots, and a type that is full while another is not.
* `pool`: two workers and two rows, one of a type with one slot and one of an
  uncapped type, two attempts each.  An overlap of executions needs two workers
  and two attempts of one row; the other row keeps the workers busy elsewhere.
  A worker's id is the worker itself, so the two workers are interchangeable and
  the run uses their symmetry (its properties are about states and steps; the
  liveness run does not use it).
* `pool_live`: the same with one attempt for the second row, whose type has no
  handler, and without operators, who could hold a row back for ever.
* `remote`: two rows, two clients, one of them impatient, `MaxWire` = 3 requests
  under way.  A late request needs one old and one new request of a client,
  and one of another client.
* `recurring_nightly`: two workers, two boots, `MaxTime` = 4 with a wake hour every
  two units, `Copies` = 2 rows per timestamp, so that a timestamp can be enqueued
  again after its row finished; the later timestamps, and a third copy, repeat
  what these show.

* `federation`: one peer, two activities about one object that is shared with two
  users of the peer, so four rows, and a batch that holds two rows with one key; the
  object is sensitive by the second activity, whose rows are refused.  Any of the
  shares may be granted only later.  That the activities share their object is what
  lets the second one meet the recipients as the first one read them.  One worker and one dispatcher here, one reader
  there, `MaxCalls` = 2 requests under way (the one waited for and one that nobody
  waits for any more), two attempts on each side, one tick of backoff and of replay
  memory (`FederationAssumption`: the code's 30 seconds are not longer than its
  shortest wait), and one fault.
  Two activities are needed for one to overtake the other; one fault is enough for
  every exception the properties name, and `receiving` adds a second.  Beside the
  runs, `FederationRetries.cfg` (`MCFederation`) checks `AttemptsBounded` with two
  failures and the first activity only.
* `receiving`: two processes of one peer, a batch of a like and a comment, a retry of
  the comment, two faults.  The processes are interchangeable (symmetry; its
  properties are about states and steps).
* `handshake`: two instances, `MaxId` = 3 rows inserted by each (a row, its successor
  after a deletion, and one more, so that a handler can act on an id that is gone),
  four handlers at once, three faults or deletions, and either, both or none of
  the instances of an older release.
* `shares`: two processes, one share that expires, `MaxReads` = 2 values read and not
  yet added, two faults.  A snapshot is empty or the share, which is enough for it
  to differ from the table in both directions; shares of one object meet only in
  the snapshot.

* `publication`: an operator's unpublish at 1 and the author's publishes at 2 and 3, so
  that an instruction meets its opposite and its replacement; two reapers and two
  people, the least for a claim that meets a claim, and a PUT that meets a PUT; two
  requests of people in all (`MaxMoves`) beside the three actions, and one mishap
  (`MaxMishaps`), which is a crash, a failed statement or a lost claim.  A second
  mishap repeats the first on a row that is pending again.

Deadlock is only checked for the gate: the other models stop when every row has
finished or the bound is reached.

## 5. Fairness

`JobGate` assumes that a claim ends (its context is bounded by ten seconds,
`worker.go:108`) and that handlers return.

`JobPool` (`FairSpec`) assumes of each worker that it keeps polling, that a claim
under way ends, that a handler returns, and that a report and a drain happen
(weak fairness: nothing in `Run` blocks for ever); of the watchdog that it ticks
(`worker.go:529`), of the clocks that they advance, and of the process that it
stops and is started again.  Strong fairness of `PickRow` and `ClaimSucceeds` says
two things the code cannot enforce but its environment provides: the database
does not fail on every claim of a worker, and a worker that polls again and again
is not always beaten to the free row.  The properties are conditional on `StaysUp`: a
process that crashes for ever serves nothing.

A handler that never returns is not covered: its heartbeats keep the lease
alive and nothing bounds the run.

`Federation` (`FairSpec`) assumes that time passes, that a request is served
(`http.Client` has a timeout, so a request ends one way or the other), that a
request nobody waits for ends, and that each delivery worker goes on (its loop
polls and is woken).  The dispatcher, the readers and the operators have no
fairness: `RowsSettle` does not need them.  Faults need no fairness: there are
finitely many by `MaxMishaps`, so the property is about what follows the last.

`Handshake` assumes that an envelope that is not lost arrives, that handlers run,
and that an administrator accepts what waits for review: the last is not the
code's doing, and without it a pairing may rightly wait for ever.

`Shares` assumes of each process that its sweeper goes on ticking
(`sweeper.go`, a ticker until shutdown).

`Publication` assumes of each reaper that it goes on (`Reaps`) and of a request that
it ends.  A reaper's ticks are a chain of `RecurringJob`, and `ChainSurvives` does not
give this fairness as it stands: the run checks it for the nightly flavour, and
`RecurringFull.cfg` breaks it for the reaper after a full batch.  A batch is full with
500 actions (`maxPerTick`, `reaper.go:44`); with the three actions of this run it never is,
and then the reaper aims at an interval from now, later than itself, which is
`LaterTicks`, the hypothesis under which `ChainIsKept` proves that the chain goes on.
Nothing is assumed of people, of the clock or of cancellations; mishaps are
finitely many by `MaxMishaps`.

## 6. What is proved

The proofs hold for any finite set of rows, activities, workers and processes, any
bounds, any assignment of types, keys and caps, and any behaviour of the network.
The assumptions on the constants are named in the modules that declare them
(`JobQueueAssumption`, `RecurringAssumption`, `OutboxAssumption`, ...) and TLC
evaluates them in the runs. Four theorems have a hypothesis besides: where it
fails the property is false, and this section says why. Every safety property of a
passing run is stated by a theorem.

### 6.1 Jobs

**The table (`JobQueueProofs`).** `TypeCorrect`, `PicksHold`, `AttemptsBounded`,
`KeysUnique`, `ClaimsTracked`, `DoneStaysDone`. The inductive invariant is
`RowsInv`. The bound on attempts is not inductive by itself: `CommitClaim` adds
one without looking at the row again, so what makes it safe is that the row it
picked is still claimable, and that is the lock's invariant. The other way round
the lock's invariant needs that no statement changes a locked pending row. The
conjuncts are proved action by action from one another.

**External workers (end of `JobQueueProofs`).** `LateRequestsAreCurrent`. A
request carries no claim that the server could compare, so the property is about
what clients believe. `RemoteInv` says that the attempts of a claim only fall
behind the row's: a task never names more attempts than the row has, and whoever
has a task for the latest claim of a running row is its owner. With it a request
that passes the ownership test cannot meet another client's current claim. For a
client that waits, the invariant adds that it has one claim per request under way,
because it cannot claim again meanwhile. Hypothesis `OwnIds`: two clients named
after one account break it, as `JobRemoteAccount.cfg` shows. All statements but
the claim's commit are treated as one (`Stays`): attempts stay, and a running row
keeps its owner.

**The gate (`JobGateProofs`).** `GateTypeCorrect`, `CounterIsExact`, `CapHolds`.
The cap is not inductive: it follows from the counter being the cardinality of two
sets of workers and the counter being within the cap. The lemmas on cardinalities
say what one worker's step adds to or takes from such a set.

**The pool (`JobPoolProofs`).** `PoolTypeCorrect`, `OwnerIsLatest`,
`ReportsAreCurrent`, `StartsBounded`, `HandlersCapped`. `StartsBounded` is
the pool's form of `AttemptsWithinCap`: a handler is started only by a claim that was
counted (`StartsCounted`), and that the counter stays within `max_attempts` is the
table's invariant with its row lock, carried over to the pool's variables
(`AttemptsCapStep`). `OwnerHoldsLatestClaim` is
inductive with the types and `RunsMatch`: a worker that claims or idles runs
nothing, so a new claim in its name cannot coincide with an execution of an older
claim of its own. This is where distinct worker ids are used
(`JobPoolAssumption`). `HandlersCapped` carries the gate's invariant over to the
pool: every step of the pool but the crash is a step of the table and of the gate,
or none (`TableStep`, `SlotsStep`), so the lemmas of the other two modules apply
to the pool's variables by INSTANCE; the crash empties the gate.

`PoolImplementsLeasedWork`: the initial states and every step of the pool map to
`LeasedWork`. The mapping needs more than `OwnerHoldsLatestClaim` (only the last
agent settles): `PickedRowsStayClaimable` (a hand-out is within the budget and of
a waiting row, though the UPDATE does not look again) and `OneRowPicked` (a worker
runs all that its claim committed). The latter holds because the order of the
queue is total, `EnqueuedInOrder`, and uses that the rows are finite.

**Recurring jobs (`RecurringJobProofs`).** `RecurringTypeCorrect`, `ChainIsKept`,
`OneTickToCome`. `RunInv` has the types and `Started`: a tick that runs was due,
and a run aims at a time of the horizon. Between the success of a run and the
row's update nothing but the tick it saw keeps the chain, and that tick may itself
run, end or fail before the update comes. `ChainInv` therefore says of every run
that has succeeded that a later tick than its own is in flight, or one has failed
for good; the step that finishes a tick then passes the chain on to that one, and
the same argument covers a run whose lease was lost. Hypothesis `LaterTicks`: the
handler returns the error of its re-enqueue and aims later than it runs.
`RecurringDigest.cfg` (the error is only logged) and `RecurringFull.cfg` (a full
batch aims at its own time) show that both halves are needed. `FutureInv` is the
argument for one tick to come: every tick of the future, and every run that still
has to enqueue one, aims at the next tick of the present moment, so the key makes
them one row. It needs `WakeHours`, that all runs before a wake hour aim at it, as
the nightly coordinators' do; the interval of the reaper does not, and
`RecurringReaper.cfg` shows chains that never merge.

### 6.2 Federation

**`FederationProofs`.** All of its theorems are about the composition, the two
instances and the network together, with any number of dispatchers, workers and
readers.

* `FederationTypeCorrect`. `TypeInv` says more than `TypeOK`: what a request that
  is served may look like (`CallSound`), and that a reader does one thing at a
  time.
* `SettledStays`: every UPDATE of an outcome looks at the status; the types
  suffice.
* `NothingLost` with `CursorInv`. A batch is listed in one step and the cursor
  moved in another, while activities commit and other dispatchers move the cursor.
  So the invariant must say of every listed batch, too, that whatever is behind
  its last activity and not in it has its rows, or was overtaken since. It also
  says of every process's cache, which outlives batches, that what it holds of an
  object lacks only shares that were left out when it was read (`CacheInv`): the
  dispatch looks at nothing else, so this is what a row's absence is traced to.
* `SentIsReceived` with `ReceivedInv`. "Sent" passes through the peer's replay
  cache, the answer under way, the worker's list of outcomes and the row. Whoever
  says that a copy was received must be right in each of these places: the status
  alone is not inductive, since the mark is written long after the answer.
* `AuthorToldOnce` with `EffectsInv`. The unique index makes one insertion
  succeed; the reader that made it is the only one about to tell the author, and
  nobody tells before the copy is applied. Until the first fault somebody is about
  to, or did.
* `ProcessedIsKept` with `FirstTries`. The mark for a failed attempt does not look
  at the status, but while nothing has gone wrong it is only written by a reader
  that saw no earlier attempt, and so is not the last. Hypothesis `MaxTries > 1`:
  were one attempt enough to give up, the late mark would fail a processed row.
* `AttemptsAreBounded` with `AttemptsInv`. `AttemptsBounded` is about a single
  delivery worker. Its decision rests on the attempts it listed, and `HeldOnce` (a
  row is on its hand, in its request, or in what it has yet to write, never in two
  of these) is what keeps the listed number from falling behind. With two workers
  it does fall behind.

**`HandshakeProofs`.** `HandshakeTypeCorrect`, `IntentNeeded`,
`PlaceholderNeedsCrossing`, `CapabilitiesFollow`. A handler reads a row and writes
it by id later, when the row may be gone, and another one of the same peer in its
place. `HandInv` has three parts: what a row's status says of its key and of who
started (`RowSound`), what a handler knows as long as its row has the id it read
(`TaskSound`), and what an offer under way proves of its sender (`OfferSound`).
Ids that are not used again are what makes the second part stable. `CapsInv`
follows the two statements that write a row and its capabilities: until something
is cut short, a row of a peer that names them and has none has a handler that is
about to set them and will find it. The other way round (`NamedInv`), no handler is
about to set capabilities for a peer that names none, so what is listed as
negotiated was.

**`SharesProofs`.** `SharesTypeCorrect`, `SnapshotCorrect`, `UnshareOnce`. A value
that was read and is not yet in the cache becomes an entry without another look at
the table, so `SnapshotIsCurrent` is not inductive. `SharesInv` adds that a value
read for the gate that is no longer current was overtaken by a commit
(`ReadsAreCurrent`), for every read under way in every process: then the entry it
becomes has its reason.

### 6.3 Publication

**`PublicationProofs`.** `PublicationTypeCorrect`, `LastWord`, `MovesOnce`.
`LastWord` rests on the order of created_at: of the transactions that are writing
no two have the same stamp and none has that of the last word (`StampsDiffer`,
which needs that the stamps of finitely many movers have a maximum). `MovesOnce`
rests on the post's state: after a crash between the move and the mark an action
is carried out again, and it is the check of the state that makes this a no-op.
`FiredSound` says that the post is still where the actions that moved it have put
it, `FirstMove` that whoever is about to write acts for one that has not.
`ClaimInv` says what a reaper or an author holds while it is between two
statements. That the author has at most one pending instruction is part of
`TypeOK` and holds by the unique index, not by the cancellation that precedes the
insert.

### 6.4 What is only model-checked

Liveness and ENABLED are out of the prover's reach: `NeverWedged`,
`RunningRowsSettle`, `ClaimableRowsAreClaimed`, `RowsSettle`,
`OneSidedOfferPairs`, `ExpiredIsRevoked` and `DueActionsSettle` stay with TLC.
`EffectsOnce` and `ProcessedStays` are proved of `Federation`; that several
processes of `Receiving`, given any set of requests, have them is checked. The
type invariants of `JobRemote`, `RecurringJob` and `Shares`, and `AttemptsBounded`, are
proved and not part of a run; `InboxTypeOK` of `Receiving` is stated only.

## 7. What is not modelled

* Payloads, results, error texts, log lines, metrics: no property is about them.
* Two server processes on one database: `JobQueue` and `JobRemote` cover any
  number of clients; `JobPool` is one process and its successors.  Two processes
  on hosts of the same name would share worker ids, which `JobPoolAssumption`
  excludes.
* Clocks: one clock for the database and the application.  If the application's
  were behind, a nightly tick that becomes due by the database's clock would
  compute its own timestamp again and end its chain as in `RecurringFull.cfg`.
* A ticker's period and the length of a lease: leases may expire at any moment,
  which includes every setting.
* What an envelope contains: building, signing, sealing, parsing and verifying are
  their verdict (refused, rejected, accepted).  The rate limiter is a verdict too.
* Rotated keys: a request signed with a key the peer has not seen is a rejected
  one; how the peer learns the new key (ADR 0049) belongs to `UserKeys`.
* The order in which a peer takes activities, beyond one request: the receiver has no
  order between activities, so `LastWordAgrees` ends at the sender's log.
* The connection pool: a publication by the reaper needs a second connection while the
  claim holds one, so as many ticks at once as there are connections would wait for each
  other; the model gives every statement a connection.
* Scheduled actions on assets and notifications: their writes commit with the mark,
  in one transaction, so what `FiresOnce` says of them is atomicity of a transaction.
* In `Publication`, the moment between a transaction's begin and its first read; a
  commit in between only adds ways to be `overtaken`.
* Why the map covers a small part of the lines: most of them are generated (the API,
  the query bindings), or read-only handlers, search queries, seeding and rendering,
  which change no shared state that a property could be about.
* Which user and scope a share matches, and the collections that contain an asset:
  queries over rows that `Shares` treats as the object's.
* `InvalidateAll` and the wildcard purge of a cache: they drop every key, which is
  `Evict` of each.
* The parts of section 1.2 marked planned or left out.
