----------------------------- MODULE Federation -----------------------------
(***************************************************************************)
(* The two halves of federation over a network that may lose a request,    *)
(* lose an answer, or answer when nobody waits any more: from the activity *)
(* a local transaction records to the like or comment at the peer.         *)
(***************************************************************************)
EXTENDS Outbox, Inbox

\* The schedule of retries is not shorter than the memory of the replay cache.
ASSUME FederationAssumption ==
  /\ CacheTTL <= Backoff
  /\ Copies = {<<PeerOf(r), Act(r)>> : r \in Rows}

vars == <<outboxVars, inboxVars, calls, mishaps>>

CopyOf(r) == <<PeerOf(r), Act(r)>>

Init == OutboxInit /\ InboxInit /\ calls = {} /\ mishaps = 0

Sender ==
  /\ \/ \E a \in Activities : Record(a) \/ Commit(a)
     \/ \E d \in Dispatchers :
          ListUndispatched(d) \/ Dispatch(d) \/ DispatchRollsBack(d)
     \/ \E d \in Dispatchers, o \in Objects : ReadShares(d, o)
     \/ \E s \in Shares : GrantShare(s) \/ EndShare(s)
     \/ \E w \in Workers : ListDue(w) \/ Settle(w) \/ CrashWorker(w)
     \/ \E w \in Workers, p \in Peers : Deliver(w, p)
     \/ \E q \in calls : Answer(q) \/ GiveUp(q)
     \/ \E r \in Rows : RequeueOutbox(r)
     \/ \E p \in Peers : CancelPending(p) \/ SwitchPeer(p)
  /\ UNCHANGED inboxVars

Receiver ==
  /\ \/ \E q \in calls :
          ~Answered(q) /\ (TurnRequestAway(q) \/ Note(q) \/ Store(q))
     \/ \E q \in calls : Vanish(q)
     \/ \E d \in Readers :
          ListPending(d) \/ Look(d) \/ Insert(d) \/ Notify(d) \/ Finish(d)
          \/ CrashReader(d)
     \/ \E c \in Copies : RequeueInbox(c)
  /\ UNCHANGED outboxVars

Waiting == (\E r \in Rows : wait[r] > 0) \/ (\E c \in Copies : fresh[c] > 0)

Tick ==
  /\ Waiting
  /\ RowsTick
  /\ CacheTick
  /\ UNCHANGED <<feedVars, peerUp, outbox, attempts, workVars, receiptVars,
                 applyVars, turnedAway, mishaps>>

Next == Sender \/ Receiver \/ Tick

Spec == Init /\ [][Next]_vars

\* The loops poll and are woken; a request is served, or times out.
Works(w) ==
  \/ ListDue(w) \/ Settle(w) \/ \E p \in Peers : Deliver(w, p)
  \/ \E q \in calls : q.from = w /\ Answer(q)
Serves == \E q \in calls : ~Answered(q) /\ (Note(q) \/ Store(q))

FairSpec ==
  /\ Spec
  /\ WF_vars(Tick)
  /\ WF_vars(Serves /\ UNCHANGED outboxVars)
  /\ WF_vars((\E q \in calls : Answered(q) /\ Vanish(q)) /\ UNCHANGED outboxVars)
  /\ \A w \in Workers : WF_vars(Works(w) /\ UNCHANGED inboxVars)

-----------------------------------------------------------------------------
(* Properties.                                                             *)

CallOK(q) ==
  /\ q.from \in Workers \cup {NULL} /\ q.peer \in Peers
  /\ q.rows \in Seq(Rows \X Nat) /\ Len(q.answers) <= Len(q.rows)
  /\ q.answers \in Seq({"stored", "replayed", "rejected", "error"})
  /\ q.noted \in BOOLEAN /\ (q.noted => ~Answered(q))
  /\ q.solo \in BOOLEAN /\ (q.solo => Len(q.rows) = 1)

TypeOK ==
  /\ stage \in [Activities -> {"none", "open", "committed"}]
  /\ cursor \in Activities \cup {0}
  /\ batch \in [Dispatchers -> SUBSET Activities]
  /\ granted \subseteq Shares /\ leftOut \subseteq Shares
  /\ \A d \in Dispatchers, o \in Objects :
       cached[d][o] = NULL \/ cached[d][o] \subseteq Shares
  /\ misread \subseteq Activities
  /\ peerUp \subseteq Peers
  /\ outbox \in [Rows -> Statuses]
  /\ attempts \in [Rows -> Nat] /\ wait \in [Rows -> 0..Backoff]
  /\ \A w \in Workers : /\ hand[w] \subseteq Rows \X Nat
                        /\ verdict[w] \subseteq Rows \X Nat \X Verdicts
  /\ \A q \in calls : CallOK(q)
  /\ InboxTypeOK

\* One process tries a row at most MaxAttempts times; several may count on, each
\* from what it listed before the others wrote.
AttemptsBounded ==
  (\A v, w \in Workers : v = w) => \A r \in Rows : attempts[r] < MaxAttempts

\* The cursor passes a committed activity without the row of a share of its
\* object for three reasons only: the activity committed after a later one, its
\* visibility could not be looked up, or some process had read the recipients of
\* the object while that share was not in effect or its peer was off.  A process
\* does not read them again, so the third keeps losing rows long after the share
\* is granted or the peer is back.
CursorMissesOnlyOvertaken ==
  \A r \in Rows :
    /\ stage[Act(r)] = "committed" /\ Act(r) <= cursor /\ Shared(Act(r))
    /\ Act(r) \notin overtaken \cup misread /\ ShareOf(r) \notin leftOut
    => outbox[r] # "absent"

\* A row is marked sent only when the peer's inbox holds its activity, or a
\* copy of it was noted by the replay cache and then not stored, or a request
\* is between the two.
SentWasReceived ==
  \A r \in Rows :
    outbox[r] = "sent" =>
      \/ inbox[CopyOf(r)] # "absent"
      \/ CopyOf(r) \in turnedAway
      \/ \E q \in calls : q.noted /\ NextCopy(q) = CopyOf(r)

\* A row that was sent, refused or cancelled keeps its status, whichever worker
\* comes late with another outcome; a failed one is only ever queued again.
SettledRowsStay ==
  [][\A r \in Rows :
       /\ outbox[r] \in {"sent", "refused", "cancelled"} => outbox'[r] = outbox[r]
       /\ outbox[r] = "failed" => outbox'[r] \in {"failed", "queued"}]_vars

\* No row stays queued for ever: after the last fault it is sent, failed, refused
\* or cancelled, the row a batch answer leaves out included.
RowsSettle == \A r \in Rows : []<>(outbox[r] # "queued")
=============================================================================
