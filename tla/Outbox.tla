------------------------------- MODULE Outbox -------------------------------
(***************************************************************************)
(* The sending half of federation (app/internal/federation/outbox): the    *)
(* dispatcher that turns local activities into one row per recipient       *)
(* behind a cursor, the worker that posts due rows to their peers, and the *)
(* operator's requeue and cascade.                                         *)
(*                                                                         *)
(* An activity is its position in the order (created_at, id) the cursor    *)
(* walks.  created_at is the start of the writing transaction, so          *)
(* transactions start in this order and commit in any.  A row is           *)
(* <<activity, peer, target user>>, the key of its unique index; a share   *)
(* is <<object, peer, target user>>.                                       *)
(*                                                                         *)
(* The requests are posted here and answered in Inbox.                     *)
(***************************************************************************)
EXTENDS FederationWire, SequencesExt

CONSTANTS
  Activities,      \* positions in the order of created_at
  ObjectOf,        \* the object each activity is about
  Rows,            \* the (activity, peer, user) a share of the object names
  Peers,           \* federated instances
  Dispatchers,     \* dispatcher goroutines, one per server process
  Workers,         \* delivery goroutines, one per server process
  Visibility,      \* visibility of each activity's object
  Sensitive,       \* activities whose object is restricted or embargoed
  Sealable,        \* peers one can encrypt to (capability and a cached key)
  MaxAttempts,     \* maxAttempts (5)
  Backoff,         \* shortest wait before a retry, in ticks
  MaxCalls         \* bound: requests under way at once

ASSUME OutboxAssumption ==
  /\ Activities \subseteq Nat \ {0} /\ IsFiniteSet(Activities)
  /\ IsFiniteSet(Rows) /\ \A r \in Rows : r[1] \in Activities /\ r[2] \in Peers
  /\ Sensitive \subseteq Activities /\ Sealable \subseteq Peers
  /\ NULL \notin Workers
  /\ MaxAttempts \in Nat \ {0} /\ Backoff \in Nat \ {0} /\ MaxCalls \in Nat

VARIABLES
  stage,       \* each activity's transaction: none, open, committed
  overtaken,   \* history: activities that committed after a later one
  cursor,      \* federation_dispatch_state: last dispatched activity, 0 if none
  batch,       \* activities each dispatcher has listed, {} when idle
  granted,     \* shares in effect: made, not revoked, not expired
  cached,      \* sharesByObject: the shares each process read of an object
  leftOut,     \* history: shares not in effect, or of a peer off, at such a read
  misread,     \* history: activities whose visibility could not be looked up
  peerUp,      \* peers that are enabled and connected in our table
  outbox,      \* status of each row, "absent" before its INSERT
  attempts,    \* attempts of each row
  wait,        \* ticks until next_attempt_at
  hand,        \* <<row, attempts>> as listed, not yet delivered, per worker
  verdict      \* <<row, attempts, verdict>> still to be written, per worker

shareVars == <<granted, cached, leftOut, misread>>
feedVars == <<stage, overtaken, cursor, batch, shareVars>>
queueVars == <<outbox, attempts, wait>>
workVars == <<hand, verdict, calls>>
outboxVars == <<feedVars, peerUp, queueVars, hand, verdict>>

Act(r) == r[1]
PeerOf(r) == r[2]
Objects == {ObjectOf[a] : a \in Activities}
ShareOf(r) == <<ObjectOf[Act(r)], r[2], r[3]>>
Shares == {ShareOf(r) : r \in Rows}

Statuses == {"absent", "queued", "sent", "failed", "refused", "cancelled"}
Verdicts == {"sent", "failed", "refused", "retry"}

-----------------------------------------------------------------------------
(* The writers of activities, and the dispatcher.                          *)

OutboxInit ==
  /\ stage = [a \in Activities |-> "none"]
  /\ overtaken = {}
  /\ cursor = 0
  /\ batch = [d \in Dispatchers |-> {}]
  /\ peerUp = Peers
  /\ outbox = [r \in Rows |-> "absent"]
  /\ attempts = [r \in Rows |-> 0]
  /\ wait = [r \in Rows |-> 0]
  /\ hand = [w \in Workers |-> {}]
  /\ verdict = [w \in Workers |-> {}]
  /\ granted \in SUBSET Shares
  /\ cached = [d \in Dispatchers |-> [o \in Objects |-> NULL]]
  /\ leftOut = {} /\ misread = {}

\* A request handler opens the transaction that records an activity.
Record(a) ==
  /\ stage[a] = "none"
  /\ \A b \in Activities : b < a => stage[b] # "none"
  /\ stage' = [stage EXCEPT ![a] = "open"]
  /\ UNCHANGED <<overtaken, cursor, batch, shareVars, peerUp, queueVars, workVars, mishaps>>

Commit(a) ==
  /\ stage[a] = "open"
  /\ stage' = [stage EXCEPT ![a] = "committed"]
  /\ overtaken' = IF \E b \in Activities : b > a /\ stage[b] = "committed"
                  THEN overtaken \cup {a} ELSE overtaken
  /\ UNCHANGED <<cursor, batch, shareVars, peerUp, queueVars, workVars, mishaps>>

Undispatched == {a \in Activities : stage[a] = "committed" /\ a > cursor}

\* What is left of a process's cache when its next batch begins: the LRU drops
\* entries, a restart (or the seeder's reset of all data) drops all.  No writer of
\* shares or peers does, and a batch (100) is far smaller than the LRU (5000):
\* what it has read is there until its end.
Evictions(d) ==
  \E kept \in SUBSET Objects :
    cached' = [cached EXCEPT ![d] = [o \in Objects |-> IF o \in kept THEN @[o] ELSE NULL]]

\* RunOnce: the cursor and the activities behind it, outside the transaction.
ListUndispatched(d) ==
  /\ batch[d] = {}
  /\ Undispatched # {}
  /\ batch' = [batch EXCEPT ![d] = Undispatched]
  /\ Evictions(d)
  /\ UNCHANGED <<stage, overtaken, cursor, granted, leftOut, misread, peerUp, queueVars,
                 workVars, mishaps>>

\* Resolve knows four tiers (followers resolve to nobody so far); a lookup
\* that fails makes the object private.
Resolvable(a) ==
  Visibility[a] \in {"private", "org-only", "followers", "explicit-share"}

Shared(a) == Visibility[a] = "explicit-share"

\* explicitShares, the query: shares in effect, of peers that are on.
InEffect(o) == {s \in granted : s[1] = o /\ s[2] \in peerUp}

\* explicitShares for the first activity about o that this process dispatches:
\* what it reads is put in the cache, an empty set too, and the cache outlives
\* the transaction.
ReadShares(d, o) ==
  /\ \E a \in batch[d] : Shared(a) /\ ObjectOf[a] = o
  /\ cached[d][o] = NULL
  /\ cached' = [cached EXCEPT ![d][o] = InEffect(o)]
  /\ leftOut' = leftOut \cup ({s \in Shares : s[1] = o} \ InEffect(o))
  /\ UNCHANGED <<stage, overtaken, cursor, batch, granted, misread, peerUp,
                 queueVars, workVars, mishaps>>

\* A share is made (again), is revoked or expires.  The caches stay as they are.
GrantShare(s) ==
  /\ s \notin granted
  /\ granted' = granted \cup {s}
  /\ UNCHANGED <<stage, overtaken, cursor, batch, cached, leftOut, misread, peerUp,
                 queueVars, workVars, mishaps>>

EndShare(s) ==
  /\ Mishap
  /\ s \in granted
  /\ granted' = granted \ {s}
  /\ UNCHANGED <<stage, overtaken, cursor, batch, cached, leftOut, misread, peerUp,
                 queueVars, workVars>>

\* Resolve, for an activity of d's batch: what the cache holds.
Recipients(d, a) ==
  IF Shared(a) THEN {r \in Rows : Act(r) = a /\ ShareOf(r) \in cached[d][ObjectOf[a]]}
  ELSE {}

LastOf(S) == CHOOSE a \in S : \A b \in S : b <= a

\* Mutant: the batch is taken for dispatched up to the newest activity of all.
AdvanceToNewest(d) == cursor' = LastOf({a \in Activities : stage[a] = "committed"})

\* AdvanceDispatchCursor: to the last of the batch, wherever it stands by now.
Advance(d) == cursor' = LastOf(batch[d])

\* RunOnce: rows and cursor in one transaction; ON CONFLICT DO NOTHING.  An
\* activity whose visibility cannot be looked up (hidden) counts as private.
Dispatch(d) ==
  /\ batch[d] # {}
  /\ \E hidden \in SUBSET batch[d] :
       LET seen == batch[d] \ hidden
           reached == UNION {Recipients(d, a) : a \in seen}
       IN /\ \A a \in seen : /\ Resolvable(a)
                             /\ Shared(a) => cached[d][ObjectOf[a]] # NULL
          /\ outbox' = [r \in Rows |-> IF outbox[r] = "absent" /\ r \in reached
                                       THEN "queued" ELSE outbox[r]]
          /\ misread' = misread \cup hidden
          /\ IF hidden = {} THEN UNCHANGED mishaps ELSE Mishap
  /\ Advance(d)
  /\ batch' = [batch EXCEPT ![d] = {}]
  /\ UNCHANGED <<stage, overtaken, granted, cached, leftOut, peerUp, attempts, wait,
                 workVars>>

\* The transaction rolls back: an activity that does not resolve, an error.
DispatchRollsBack(d) ==
  /\ batch[d] # {}
  /\ \/ \E a \in batch[d] : ~Resolvable(a) /\ UNCHANGED mishaps
     \/ Mishap
  /\ batch' = [batch EXCEPT ![d] = {}]
  /\ UNCHANGED <<stage, overtaken, cursor, shareVars, peerUp, queueVars, workVars>>

-----------------------------------------------------------------------------
(* The delivery worker.                                                    *)

Idle(w) == /\ hand[w] = {} /\ verdict[w] = {}
           /\ \A c \in calls : c.from # w

\* Mutant: a row that was tried is not listed again.
DueOnce == {r \in Rows : outbox[r] = "queued" /\ wait[r] = 0 /\ attempts[r] = 0}

Due == {r \in Rows : outbox[r] = "queued" /\ wait[r] = 0}

\* RunOnce: ListDueOutbox, a plain SELECT that locks nothing.
ListDue(w) ==
  /\ Idle(w)
  /\ Due # {}
  /\ hand' = [hand EXCEPT ![w] = {<<r, attempts[r]>> : r \in Due}]
  /\ UNCHANGED <<feedVars, peerUp, queueVars, verdict, calls, mishaps>>

Verdict(S, v) == {<<h[1], h[2], v>> : h \in S}

\* ChoosePathFor: no sensitive activity to a peer one cannot encrypt to.
Refused(S) ==
  {h \in S : Act(h[1]) \in Sensitive /\ PeerOf(h[1]) \notin Sealable}

\* One request with an envelope for each row of built.
Post(w, p, built, solo) ==
  IF built = {} THEN calls' = calls
  ELSE /\ Cardinality(calls) < MaxCalls
       /\ \E order \in SetToSeqs(built) :
            calls' = calls \cup {[from |-> w, peer |-> p, solo |-> solo,
                                  rows |-> order, noted |-> FALSE,
                                  answers |-> <<>>]}

\* deliverOne, deliverOneBatch: the rows of one peer.  A lone row is built
\* before its peer is looked up, a batch after.
Deliver(w, p) ==
  LET group == {h \in hand[w] : PeerOf(h[1]) = p}
      solo == Cardinality(group) = 1
      refused == Refused(group)
      early == IF solo THEN refused ELSE {}
      set(S) == verdict' = [verdict EXCEPT ![w] = S]
  IN /\ group # {}
     /\ verdict[w] = {} /\ \A c \in calls : c.from # w
     /\ hand' = [hand EXCEPT ![w] = @ \ group]
     /\ \/ /\ p \in peerUp
           /\ UNCHANGED mishaps
           /\ set(Verdict(refused, "refused"))
           /\ Post(w, p, group \ refused, solo)
        \/ /\ p \notin peerUp
           /\ UNCHANGED mishaps
           /\ set(Verdict(early, "refused") \cup Verdict(group \ early, "failed"))
           /\ UNCHANGED calls
        \/ /\ Mishap
           /\ set(Verdict(early, "refused") \cup Verdict(group \ early, "retry"))
           /\ UNCHANGED calls
     /\ UNCHANGED <<feedVars, peerUp, queueVars>>

\* What the worker makes of an answer to a lone row, or of one result.
Reading == [stored |-> "sent", replayed |-> "sent", rejected |-> "failed",
            error |-> "retry"]

\* uriToRow: the last row of each activity is the one its results settle.
Keyed(c) == {i \in DOMAIN c.rows :
               \A k \in DOMAIN c.rows :
                 Act(c.rows[k][1]) = Act(c.rows[i][1]) => k <= i}

\* Of several results for one activity the first that is written stands.
ResultFor(c, i) ==
  LET mine == {k \in DOMAIN c.rows : Act(c.rows[k][1]) = Act(c.rows[i][1])}
  IN  Reading[c.answers[CHOOSE k \in mine : \A m \in mine : k <= m]]

Settled(c, result) ==
  {<<c.rows[i][1], c.rows[i][2], result[i]>> : i \in Keyed(c)}

\* The response arrives, whole or as one status for the whole request.
Answer(c) ==
  /\ c.from # NULL
  /\ Answered(c)
  /\ verdict' = [verdict EXCEPT ![c.from] =
                   @ \cup Settled(c, [i \in Keyed(c) |-> ResultFor(c, i)])]
  /\ calls' = calls \ {c}
  /\ UNCHANGED <<feedVars, peerUp, queueVars, hand, mishaps>>

\* The request fails or times out; the receiver may still be working on it.
GiveUp(c) ==
  /\ Mishap
  /\ c.from # NULL
  /\ verdict' = [verdict EXCEPT ![c.from] = @ \cup Settled(c, [i \in Keyed(c) |-> "retry"])]
  /\ Progress(c, [c EXCEPT !.from = NULL])
  /\ UNCHANGED <<feedVars, peerUp, queueVars, hand>>

-----------------------------------------------------------------------------
(* Writing the outcome: MarkOutboxSent, MarkOutboxRefused,                 *)
(* MarkOutboxFailedTerminal and markAttemptFailed, on queued rows only.    *)

\* Mutant: the marks do not look at the status.
WriteAnyStatus(r, seen, v) ==
  LET last == seen + 1 >= MaxAttempts
      status == CASE v = "retry" -> IF last THEN "failed" ELSE "queued"
                  [] OTHER -> v
  IN /\ outbox' = [outbox EXCEPT ![r] = status]
     /\ attempts' = [attempts EXCEPT ![r] = IF v = "retry" /\ ~last THEN @ + 1 ELSE @]
     /\ wait' = [wait EXCEPT ![r] = IF v = "retry" /\ ~last THEN Backoff ELSE @]

\* The last attempt, by the attempts as listed, fails the row for good; the
\* UPDATE of another adds one to those there are.
Write(r, seen, v) ==
  LET last == seen + 1 >= MaxAttempts
      status == CASE v = "retry" -> IF last THEN "failed" ELSE "queued"
                  [] OTHER -> v
  IN IF outbox[r] # "queued" THEN UNCHANGED queueVars
     ELSE /\ outbox' = [outbox EXCEPT ![r] = status]
          /\ attempts' = [attempts EXCEPT ![r] = IF v = "retry" /\ ~last THEN @ + 1 ELSE @]
          /\ wait' = [wait EXCEPT ![r] = IF v = "retry" /\ ~last THEN Backoff ELSE @]

\* One row at a time; the error of a failed UPDATE is dropped.
Settle(w) ==
  \E v \in verdict[w] :
    /\ verdict' = [verdict EXCEPT ![w] = @ \ {v}]
    /\ \/ Write(v[1], v[2], v[3]) /\ UNCHANGED mishaps
       \/ Mishap /\ UNCHANGED queueVars
    /\ UNCHANGED <<feedVars, peerUp, hand, calls>>

\* The process dies: what it listed and what it had to write are gone.
CrashWorker(w) ==
  /\ Mishap
  /\ ~Idle(w)
  /\ hand' = [hand EXCEPT ![w] = {}]
  /\ verdict' = [verdict EXCEPT ![w] = {}]
  /\ calls' = {IF c.from = w THEN [c EXCEPT !.from = NULL] ELSE c : c \in calls}
  /\ UNCHANGED <<feedVars, peerUp, queueVars>>

-----------------------------------------------------------------------------
(* Operators, and the clock.                                               *)

\* RequeueOutbox: a failed row starts again.
RequeueOutbox(r) ==
  /\ outbox[r] = "failed"
  /\ outbox' = [outbox EXCEPT ![r] = "queued"]
  /\ attempts' = [attempts EXCEPT ![r] = 0]
  /\ wait' = [wait EXCEPT ![r] = 0]
  /\ UNCHANGED <<feedVars, peerUp, workVars, mishaps>>

\* CancelPendingForPeer: every queued row of the peer.
CancelPending(p) ==
  /\ Mishap
  /\ outbox' = [r \in Rows |-> IF PeerOf(r) = p /\ outbox[r] = "queued"
                               THEN "cancelled" ELSE outbox[r]]
  /\ UNCHANGED <<feedVars, peerUp, attempts, wait, workVars>>

\* UpdateFederationPeer: the kill switch, off and on again.
SwitchPeer(p) ==
  /\ \/ p \in peerUp /\ peerUp' = peerUp \ {p} /\ Mishap
     \/ p \notin peerUp /\ peerUp' = peerUp \cup {p} /\ UNCHANGED mishaps
  /\ UNCHANGED <<feedVars, queueVars, workVars>>

\* Time passes for the rows that wait.
RowsTick == wait' = [r \in Rows |-> IF wait[r] > 0 THEN wait[r] - 1 ELSE 0]
=============================================================================
