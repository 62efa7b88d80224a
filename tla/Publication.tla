---------------------------- MODULE Publication ----------------------------
(***************************************************************************)
(* The publication of one post: the endpoints that publish, unpublish and  *)
(* delete it (app/internal/posts), the workflow transition they run        *)
(* (app/internal/workflow), and the scheduled actions that run the same    *)
(* body later (app/internal/scheduledactions).                             *)
(*                                                                         *)
(* An action is a number, the moment it is scheduled for. A mover is a     *)
(* reaper carrying out the action it claimed or a person's request.        *)
(***************************************************************************)
EXTENDS Naturals, FiniteSetsExt

CONSTANTS
  Actions,         \* rows of scheduled_actions with this post as target
  Author,          \* those the author's own endpoint may insert
  Publishes,       \* those that publish; the others unpublish
  Reapers, People,
  Nobody,          \* the holder of a free row
  MaxMoves,        \* bound on people's requests
  MaxMishaps       \* bound on failures

ASSUME PublicationAssumption ==
  /\ Actions \subseteq Nat \ {0} /\ IsFiniteSet(Actions)
  /\ Author \subseteq Publishes /\ Publishes \subseteq Actions
  /\ Reapers \cap People = {} /\ Nobody \notin Reapers \cup People
  /\ IsFiniteSet(Reapers \cup People)
  /\ MaxMoves \in Nat /\ MaxMishaps \in Nat

VARIABLES
  state, deleted,  \* the post: its workflow state and its tombstone
  row,             \* state of each scheduled action
  lock,            \* the transaction that holds each row, or Nobody
  clock,           \* the database's clock, in moments of actions
  mover,           \* where each reaper and each request stands
  word,            \* the activity about the post with the latest created_at
  overtaken,       \* the last activity committed is not the latest
  restored,        \* the post left the trash, and no activity since
  fired,           \* actions that moved the post, and nobody moved it back
  strayed,         \* actions whose claim was lost while the move went on
  moves, mishaps

postVars == <<state, deleted, word, overtaken, restored, fired>>
rowVars == <<row, lock, clock, strayed>>
budgets == <<moves, mishaps>>
vars == <<postVars, rowVars, mover, budgets>>

Movers == Reapers \cup People
Idle == [at |-> "idle", wants |-> "publish", act |-> 0, own |-> {}, stamp |-> 0]

Init ==
  /\ state = "wip" /\ deleted = FALSE
  /\ row = [a \in Actions |-> "absent"]
  /\ lock = [a \in Actions |-> Nobody]
  /\ clock = 0
  /\ mover = [m \in Movers |-> Idle]
  /\ word = [says |-> "Delete", stamp |-> 0]
  /\ overtaken = FALSE /\ restored = FALSE
  /\ fired = {} /\ strayed = {}
  /\ moves = 0 /\ mishaps = 0

Mishap == mishaps < MaxMishaps /\ mishaps' = mishaps + 1
Smooth == UNCHANGED mishaps
Request == moves < MaxMoves /\ moves' = moves + 1 /\ Smooth

At(m, phase) == mover[m].at = phase
Goes(m, phase) == mover' = [mover EXCEPT ![m].at = phase]
Returns(m) == mover' = [mover EXCEPT ![m] = Idle]

\* A reaper goes on to mark its action; a request is answered.
Ends(m, outcome) == IF m \in Reapers THEN Goes(m, outcome) ELSE Returns(m)

-----------------------------------------------------------------------------
(* movePublicationAs and DeletePost.                                       *)

Target(m) == IF mover[m].wants = "publish" THEN "published" ELSE "wip"
Already(m) == mover[m].wants # "delete" /\ state = Target(m)

Ask(p, w) ==
  /\ At(p, "idle") /\ Request
  /\ mover' = [mover EXCEPT ![p] = [Idle EXCEPT !.at = "check", !.wants = w]]
  /\ UNCHANGED <<postVars, rowVars>>

\* The reads on the pool: the post is gone, is there already, or is to move.
Check(m) ==
  /\ At(m, "check")
  /\ \/ deleted /\ Ends(m, "refused")
     \/ ~deleted /\ Already(m) /\ Ends(m, "noop")
     \/ ~deleted /\ ~Already(m) /\ Goes(m, "begin")
  /\ UNCHANGED <<postVars, rowVars, budgets>>

\* Later than every transaction in progress and every activity.
NOW == 1 + Max({word.stamp} \cup {mover[n].stamp : n \in Movers})

\* WithEmission begins, which fixes created_at; TransitionInTx reads the state,
\* without a lock, and finds an edge or none. A delete reads nothing.
Begin(m) ==
  /\ At(m, "begin")
  /\ LET refused == mover[m].wants # "delete" /\ (deleted \/ Already(m)) IN
       \/ refused /\ Ends(m, "refused")
       \/ ~refused /\ mover' = [mover EXCEPT ![m].at = "write", ![m].stamp = NOW]
  /\ UNCHANGED <<postVars, rowVars, budgets>>

\* RecordActivity, in the transaction of the change.
Says(m, what) ==
  /\ word' = IF mover[m].stamp > word.stamp
             THEN [says |-> what, stamp |-> mover[m].stamp] ELSE word
  /\ overtaken' = (mover[m].stamp < word.stamp)
  /\ restored' = FALSE

\* Mutant: taking a post down tells the peers nothing.
SaysPublished(m) ==
  IF mover[m].wants = "publish" THEN Says(m, "Create")
  ELSE UNCHANGED <<word, overtaken, restored>>

Tells(m) == Says(m, IF mover[m].wants = "publish" THEN "Create" ELSE "Delete")

\* UpdatePostState, WHERE deleted_at IS NULL, and the commit.
CommitMove(m) ==
  /\ At(m, "write") /\ mover[m].wants # "delete" /\ ~deleted
  /\ state' = Target(m)
  /\ fired' = {a \in fired : (a \in Publishes) = (mover[m].wants = "publish")}
                \cup ({mover[m].act} \cap Actions)
  /\ Tells(m)
  /\ Ends(m, "moved")
  /\ UNCHANGED <<deleted, rowVars, budgets>>

\* No row to update: the post was deleted meanwhile.
MoveOfDeleted(m) ==
  /\ At(m, "write") /\ mover[m].wants # "delete" /\ deleted
  /\ Ends(m, "refused")
  /\ UNCHANGED <<postVars, rowVars, budgets>>

\* SoftDeletePost does not look whether it deleted anything.
CommitDelete(m) ==
  /\ At(m, "write") /\ mover[m].wants = "delete"
  /\ deleted' = TRUE
  /\ Tells(m)
  /\ Returns(m)
  /\ UNCHANGED <<state, fired, rowVars, budgets>>

\* A gate refuses the actor as of now, or a statement fails.
Refuse(m) ==
  /\ mover[m].at \in {"check", "begin", "write"}
  /\ Mishap
  /\ Ends(m, "refused")
  /\ UNCHANGED <<postVars, rowVars, moves>>

\* RestorePost: no activity says that the post is back.
Restore ==
  /\ deleted
  /\ deleted' = FALSE /\ restored' = TRUE
  /\ UNCHANGED <<state, word, overtaken, fired, rowVars, mover, budgets>>

-----------------------------------------------------------------------------
(* Scheduling and cancelling.                                              *)

PendingOf(S) == {a \in S : row[a] = "pending"}
Free(a) == lock[a] = Nobody

\* Store.Schedule, for operators: any time, the past included.
Schedule(a) ==
  /\ a \in Actions \ Author /\ row[a] = "absent"
  /\ row' = [row EXCEPT ![a] = "pending"]
  /\ UNCHANGED <<lock, clock, strayed, postVars, mover, budgets>>

\* CancelScheduledAction: the UPDATE waits for whoever holds the row.
Cancel(a) ==
  /\ row[a] = "pending" /\ Free(a)
  /\ row' = [row EXCEPT ![a] = "cancelled"]
  /\ UNCHANGED <<lock, clock, strayed, postVars, mover, budgets>>

\* PUT publication-schedule: the gate, on the pool, for a draft only.
PutGate(p, a) ==
  /\ At(p, "idle") /\ Request
  /\ ~deleted /\ state = "wip"
  /\ a \in Author /\ row[a] = "absent" /\ \A q \in People : mover[q].act # a
  /\ mover' = [mover EXCEPT ![p] = [Idle EXCEPT !.at = "gated", !.act = a]]
  /\ UNCHANGED <<postVars, rowVars>>

\* The transaction refuses a past time; its UPDATE takes a snapshot.
PutSnapshot(p) ==
  /\ At(p, "gated")
  /\ IF mover[p].act <= clock THEN Returns(p)
     ELSE mover' = [mover EXCEPT ![p].at = "cancel", ![p].own = PendingOf(Author)]
  /\ UNCHANGED <<postVars, rowVars, budgets>>

\* It waits for the row it saw, and skips it if it is no longer pending.
PutCancel(p) ==
  /\ At(p, "cancel")
  /\ \A b \in mover[p].own : Free(b)
  /\ LET cancelled == PendingOf(mover[p].own) IN
       /\ lock' = [a \in Actions |-> IF a \in cancelled THEN p ELSE lock[a]]
       /\ mover' = [mover EXCEPT ![p].at = "insert", ![p].own = cancelled]
  /\ UNCHANGED <<row, clock, strayed, postVars, budgets>>

\* Mutant: no unique index.
NoConflicts(p) == {}

\* scheduled_actions_author_pending_post_idx.
Conflicts(p) == PendingOf(Author) \ mover[p].own

Unlocked(m) == [a \in Actions |-> IF lock[a] = m THEN Nobody ELSE lock[a]]

\* The insert, which waits for a cancellation in progress, and the commit.
PutInsert(p) ==
  /\ At(p, "insert")
  /\ \A b \in Conflicts(p) : lock[b] \notin People
  /\ \/ /\ Conflicts(p) = {} /\ Smooth
        /\ row' = [a \in Actions |->
                     IF a = mover[p].act THEN "pending"
                     ELSE IF a \in mover[p].own THEN "cancelled" ELSE row[a]]
     \/ Conflicts(p) # {} /\ UNCHANGED <<row, mishaps>>
     \/ Mishap /\ UNCHANGED row
  /\ lock' = Unlocked(p)
  /\ Returns(p)
  /\ UNCHANGED <<clock, strayed, postVars, moves>>

-----------------------------------------------------------------------------
(* The reaper.                                                             *)

Tick ==
  /\ \E a \in Actions : a > clock
  /\ clock' = clock + 1
  /\ UNCHANGED <<row, lock, strayed, postVars, mover, budgets>>

\* Mutant: no FOR UPDATE SKIP LOCKED.
DueAnyway == {a \in PendingOf(Actions) : a <= clock}

Due == {a \in PendingOf(Actions) : a <= clock /\ Free(a)}

\* The oldest, locked until the transaction ends.
ClaimDueAction(r) ==
  /\ At(r, "idle")
  /\ \E a \in Due :
       /\ \A b \in Due : a <= b
       /\ lock' = [lock EXCEPT ![a] = r]
       /\ mover' = [mover EXCEPT ![r] = [Idle EXCEPT !.at = "check", !.act = a,
                      !.wants = IF a \in Publishes THEN "publish" ELSE "unpublish"]]
  /\ UNCHANGED <<row, clock, strayed, postVars, budgets>>

Outcome == [moved |-> "done", noop |-> "done", refused |-> "failed"]
Holds(r) == mover[r].act # 0 /\ lock[mover[r].act] = r

\* Mutant: a refusal is returned as an error, and the tick is retried.
RefusalBubbles(r) ==
  IF At(r, "refused") THEN UNCHANGED row
  ELSE row' = [row EXCEPT ![mover[r].act] = Outcome[mover[r].at]]

MarkRow(r) == row' = [row EXCEPT ![mover[r].act] = Outcome[mover[r].at]]

\* MarkActionDone or MarkActionFailed, and the commit.
Mark(r) ==
  /\ mover[r].at \in DOMAIN Outcome
  /\ IF Holds(r) THEN MarkRow(r) ELSE UNCHANGED row
  /\ lock' = Unlocked(r)
  /\ Returns(r)
  /\ UNCHANGED <<clock, strayed, postVars, budgets>>

\* The process dies, or the mark fails: the row is pending again.
Abandon(r) ==
  /\ ~At(r, "idle") /\ Mishap
  /\ lock' = Unlocked(r)
  /\ Returns(r)
  /\ UNCHANGED <<row, clock, strayed, postVars, moves>>

\* The claim's connection drops while the move goes on over another one.
LoseClaim(r) ==
  /\ Holds(r) /\ Mishap
  /\ lock' = Unlocked(r)
  /\ strayed' = strayed \cup {mover[r].act}
  /\ UNCHANGED <<row, clock, postVars, mover, moves>>

-----------------------------------------------------------------------------
Moves(m) ==
  \/ Check(m) \/ Begin(m) \/ CommitMove(m) \/ MoveOfDeleted(m) \/ CommitDelete(m)
Reaps(r) == ClaimDueAction(r) \/ Moves(r) \/ Mark(r)
Serves(p) == Moves(p) \/ PutSnapshot(p) \/ PutCancel(p) \/ PutInsert(p)

Next ==
  \/ \E r \in Reapers : Reaps(r) \/ Abandon(r) \/ LoseClaim(r)
  \/ \E p \in People :
       \/ Serves(p)
       \/ \E w \in {"publish", "unpublish", "delete"} : Ask(p, w)
       \/ \E a \in Author : PutGate(p, a)
  \/ \E m \in Movers : Refuse(m)
  \/ \E a \in Actions : Schedule(a) \/ Cancel(a)
  \/ Restore
  \/ Tick

Spec == Init /\ [][Next]_vars
FairSpec ==
  /\ Spec
  /\ \A r \in Reapers : WF_vars(Reaps(r))
  /\ \A p \in People : WF_vars(Serves(p))

-----------------------------------------------------------------------------
(* Properties.                                                             *)

\* Types, and at most one pending instruction of the author for the post.
TypeOK ==
  /\ state \in {"wip", "published"} /\ deleted \in BOOLEAN
  /\ row \in [Actions -> {"absent", "pending", "done", "failed", "cancelled"}]
  /\ lock \in [Actions -> Movers \cup {Nobody}]
  /\ clock \in Nat /\ moves \in 0..MaxMoves /\ mishaps \in 0..MaxMishaps
  /\ mover \in [Movers ->
       [at : {"idle", "check", "begin", "write", "moved", "noop", "refused",
              "gated", "cancel", "insert"},
        wants : {"publish", "unpublish", "delete"},
        act : Actions \cup {0}, own : SUBSET Author, stamp : Nat]]
  /\ word \in [says : {"Create", "Delete"}, stamp : Nat]
  /\ overtaken \in BOOLEAN /\ restored \in BOOLEAN
  /\ fired \subseteq Actions /\ strayed \subseteq Actions
  /\ Cardinality(PendingOf(Author)) <= 1

\* What peers were last told, by created_at, agrees with whether the post may be
\* read, whoever moved or deleted it when: except after a transaction that began
\* earlier and committed later, or a restore, which tells them nothing.
LastWordAgrees ==
  (word.says = "Create") = (state = "published" /\ ~deleted) \/ overtaken \/ restored

\* A reaper moves the post only for an instruction that nobody cancelled or
\* replaced and that has not moved it before (unless it was moved back since),
\* through crashes between the move and the mark; it can after a lost claim.
FiresOnce ==
  [][\A r \in Reapers :
       (At(r, "write") /\ mover'[r].at = "moved" /\ mover[r].act \notin strayed) =>
         /\ row[mover[r].act] = "pending"
         /\ mover[r].act \notin fired]_vars

\* A due action reaches an end, whatever fails on the way.
DueActionsSettle ==
  \A a \in Actions :
    (row[a] = "pending" /\ a <= clock) ~> row[a] \in {"done", "failed", "cancelled"}

\* Violated: a post that came back from the trash is announced to the peers.
RestoreIsFederated ==
  (word.says = "Create") = (state = "published" /\ ~deleted) \/ overtaken

\* Violated: a move that finds no edge means an edited workflow, and not that
\* another request brought the post to its target after the first read.
NoEdgeMeansEdited ==
  [][\A r \in Reapers :
       (At(r, "begin") /\ mover'[r].at = "refused" /\ mishaps' = mishaps /\ ~deleted)
         => ~Already(r)]_vars
=============================================================================
