------------------------------- MODULE Inbox --------------------------------
(***************************************************************************)
(* The receiving half of federation (app/internal/federation/inbox): the   *)
(* two endpoints that turn a request's envelopes into inbox rows, with the *)
(* replay cache before the unique index, and the dispatcher that applies   *)
(* the rows to the social tables.                                          *)
(*                                                                         *)
(* A copy is <<peer, activity>>: the peer that received it and the URI the *)
(* inbox is unique over.  The requests are posted in Outbox and answered   *)
(* here, envelope by envelope.                                             *)
(***************************************************************************)
EXTENDS FederationWire

CONSTANTS
  Copies,          \* <<receiving peer, activity>>
  Readers,         \* <<peer, i>>: its inbox dispatchers, one per process
  Comments,        \* activities that are comments; the others are likes
  MaxTries,        \* maxAttempts of the dispatcher
  CacheTTL         \* how long the replay cache remembers, in ticks

ASSUME InboxAssumption == MaxTries \in Nat \ {0} /\ CacheTTL \in Nat \ {0}

VARIABLES
  fresh,       \* ticks the replay cache still remembers a copy
  inbox,       \* status of each row, "absent" before its INSERT
  tries,       \* dispatch_attempts
  desk,        \* <<copy, tries>> as listed, not yet dispatched, per reader
  doing,       \* the row each reader is dispatching: {} or one Step
  applied,     \* copies whose like or comment is in the social tables
  notified,    \* times the author was told
  turnedAway   \* history: copies noted in the cache whose insert did not happen

receiptVars == <<inbox, tries>>
applyVars == <<desk, doing, applied, notified>>
inboxVars == <<fresh, receiptVars, applyVars, turnedAway>>

InboxStatuses == {"absent", "pending", "processed", "rejected", "failed"}
Step == [copy : Copies, tries : Nat, at : {"insert", "notify", "mark"}]

InboxInit ==
  /\ fresh = [c \in Copies |-> 0]
  /\ inbox = [c \in Copies |-> "absent"]
  /\ tries = [c \in Copies |-> 0]
  /\ desk = [d \in Readers |-> {}]
  /\ doing = [d \in Readers |-> {}]
  /\ applied = {}
  /\ notified = [c \in Copies |-> 0]
  /\ turnedAway = {}

-----------------------------------------------------------------------------
(* PostInbox, PostInboxBatch and processBatchEnvelope.                     *)

\* The copy the next envelope of a request is about.
NextCopy(q) == LET r == q.rows[Len(q.answers) + 1][1] IN <<r[2], r[1]>>

\* Mutant: an answered envelope stays noted.
ReplyStillNoted(q, a) == Progress(q, [q EXCEPT !.answers = Append(@, a)])

Reply(q, a) == Progress(q, [q EXCEPT !.answers = Append(@, a), !.noted = FALSE])

\* The whole request is refused: unknown, disabled or unverified sender
\* (401, 403), or it is over its rate or the lookup failed (429, 500).
TurnRequestAway(q) ==
  /\ Mishap
  /\ q.answers = <<>> /\ ~q.noted
  /\ \E a \in {"rejected", "error"} :
       Progress(q, [q EXCEPT !.answers = [i \in DOMAIN q.rows |-> a]])
  /\ UNCHANGED <<fresh, receiptVars, applyVars, turnedAway>>

\* ReplayCache.Seen, of one process: it answers for what it remembers and
\* remembers what it is asked, before the envelope is looked at.  It may have
\* forgotten: evicted, restarted, or the memory of another process.
Note(q) ==
  LET c == NextCopy(q) IN
  /\ ~Answered(q) /\ ~q.noted
  /\ \/ fresh[c] > 0 /\ Reply(q, "replayed")
     \/ Progress(q, [q EXCEPT !.noted = TRUE])
  /\ fresh' = [fresh EXCEPT ![c] = CacheTTL]
  /\ UNCHANGED <<receiptVars, applyVars, turnedAway, mishaps>>

\* Mutant: a failed insert is acknowledged like a duplicate.
AcknowledgeAnyway(q, c) == Reply(q, "replayed") /\ UNCHANGED turnedAway

\* A typed rejection, or for a lone envelope an error.
Reject(q, c) ==
  /\ \E a \in {"rejected"} \cup (IF q.solo THEN {"error"} ELSE {}) : Reply(q, a)
  /\ turnedAway' = turnedAway \cup {c}

\* The rest of the pipeline: the row is inserted, or its unique index finds it
\* there, or the envelope does not parse or fit, or the insert fails.
Store(q) ==
  LET c == NextCopy(q) IN
  /\ ~Answered(q) /\ q.noted
  /\ \/ /\ inbox[c] = "absent"
        /\ inbox' = [inbox EXCEPT ![c] = "pending"]
        /\ Reply(q, "stored")
        /\ UNCHANGED <<turnedAway, mishaps>>
     \/ /\ inbox[c] # "absent"
        /\ Reply(q, "replayed")
        /\ UNCHANGED <<inbox, turnedAway, mishaps>>
     \/ /\ Mishap
        /\ Reject(q, c)
        /\ UNCHANGED inbox
  /\ UNCHANGED <<fresh, tries, applyVars>>

\* A request its sender no longer waits for ends, wherever it stands: it
\* never arrived, its process died, or the answer is lost.
Vanish(q) ==
  /\ q.from = NULL
  /\ calls' = calls \ {q}
  /\ turnedAway' = IF q.noted THEN turnedAway \cup {NextCopy(q)} ELSE turnedAway
  /\ UNCHANGED <<fresh, receiptVars, applyVars, mishaps>>

-----------------------------------------------------------------------------
(* The dispatcher: RunOnce, dispatchOne and the two handlers.              *)

Free(d) == desk[d] = {} /\ doing[d] = {}

\* ListPendingInbox, a plain SELECT that locks nothing.
ListPending(d) ==
  LET pending == {c \in Copies : c[1] = d[1] /\ inbox[c] = "pending"} IN
  /\ Free(d) /\ pending # {}
  /\ desk' = [desk EXCEPT ![d] = {<<c, tries[c]>> : c \in pending}]
  /\ UNCHANGED <<calls, fresh, receiptVars, doing, applied, notified, turnedAway, mishaps>>

\* The marks, none of which looks at the status of the row.
Mark(c, status) ==
  /\ inbox' = [inbox EXCEPT ![c] = status]
  /\ tries' = [tries EXCEPT ![c] = @ + 1]

\* Mutant: a failed attempt fails the row for good.
MarkAttemptFinal(c, seen) == Mark(c, "failed")

\* MarkInboxAttemptFailed, or MarkInboxFailedTerminal on the last attempt as
\* the row was listed.
MarkAttempt(c, seen) ==
  Mark(c, IF seen + 1 >= MaxTries THEN "failed" ELSE inbox[c])

\* Up to the handler's first statement.  An error before the handler fails the
\* row for good; a missing target or an envelope that does not open rejects it.
Look(d) ==
  \E h \in desk[d] :
    LET c == h[1] IN
    /\ doing[d] = {}
    /\ desk' = [desk EXCEPT ![d] = @ \ {h}]
    /\ \/ /\ doing' = [doing EXCEPT ![d] =
                         {[copy |-> c, tries |-> h[2],
                           at |-> IF c \in applied THEN "mark" ELSE "insert"]}]
          /\ UNCHANGED <<receiptVars, mishaps>>
       \/ /\ Mishap
          /\ \/ Mark(c, "failed")
             \/ Mark(c, "rejected")
             \/ MarkAttempt(c, h[2])
          /\ UNCHANGED doing
    /\ UNCHANGED <<calls, fresh, applied, notified, turnedAway>>

Goes(d, s, at) == doing' = [doing EXCEPT ![d] = {[s EXCEPT !.at = at]}]

\* Mutant: the author is told of a like that was there already.
TellAnyway(d) ==
  \E s \in doing[d] :
    /\ s.at = "insert"
    /\ applied' = applied \cup {s.copy}
    /\ Goes(d, s, "notify")
    /\ UNCHANGED <<calls, fresh, receiptVars, desk, notified, turnedAway, mishaps>>

\* InsertRemoteLike, InsertRemoteComment: a like that is there already is no
\* error, a comment written since it was looked for is.
Insert(d) ==
  \E s \in doing[d] :
    /\ s.at = "insert"
    /\ applied' = applied \cup {s.copy}
    /\ \/ /\ s.copy \notin applied
          /\ Goes(d, s, "notify")
          /\ UNCHANGED receiptVars
       \/ /\ s.copy \in applied /\ s.copy[2] \notin Comments
          /\ Goes(d, s, "mark")
          /\ UNCHANGED receiptVars
       \/ /\ s.copy \in applied /\ s.copy[2] \in Comments
          /\ doing' = [doing EXCEPT ![d] = {}]
          /\ MarkAttempt(s.copy, s.tries)
    /\ UNCHANGED <<calls, fresh, desk, notified, turnedAway, mishaps>>

\* notifier.Notify, whose error is dropped.
Notify(d) ==
  \E s \in doing[d] :
    /\ s.at = "notify"
    /\ Goes(d, s, "mark")
    /\ \/ notified' = [notified EXCEPT ![s.copy] = @ + 1] /\ UNCHANGED mishaps
       \/ Mishap /\ UNCHANGED notified
    /\ UNCHANGED <<calls, fresh, receiptVars, desk, applied, turnedAway>>

\* MarkInboxProcessed; when it fails the row is failed instead.
Finish(d) ==
  \E s \in doing[d] :
    /\ s.at = "mark"
    /\ doing' = [doing EXCEPT ![d] = {}]
    /\ \/ Mark(s.copy, "processed") /\ UNCHANGED mishaps
       \/ Mishap /\ Mark(s.copy, "failed")
    /\ UNCHANGED <<calls, fresh, desk, applied, notified, turnedAway>>

\* The process dies between two statements.
CrashReader(d) ==
  /\ ~Free(d)
  /\ Mishap
  /\ desk' = [desk EXCEPT ![d] = {}]
  /\ doing' = [doing EXCEPT ![d] = {}]
  /\ UNCHANGED <<calls, fresh, receiptVars, applied, notified, turnedAway>>

\* RequeueInbox: a failed row starts again.
RequeueInbox(c) ==
  /\ inbox[c] = "failed"
  /\ inbox' = [inbox EXCEPT ![c] = "pending"]
  /\ tries' = [tries EXCEPT ![c] = 0]
  /\ UNCHANGED <<calls, fresh, applyVars, turnedAway, mishaps>>

\* Time passes for the replay cache.
CacheTick == fresh' = [c \in Copies |-> IF fresh[c] > 0 THEN fresh[c] - 1 ELSE 0]

-----------------------------------------------------------------------------
(* Properties.                                                             *)

InboxTypeOK ==
  /\ fresh \in [Copies -> 0..CacheTTL]
  /\ inbox \in [Copies -> InboxStatuses] /\ tries \in [Copies -> Nat]
  /\ \A d \in Readers : /\ desk[d] \subseteq Copies \X Nat
                        /\ doing[d] \subseteq Step /\ Cardinality(doing[d]) <= 1
  /\ applied \subseteq Copies /\ notified \in [Copies -> Nat]

\* An inbox row is processed only with its like or comment written, and the
\* author hears of each copy at most once: exactly once unless something went
\* wrong or a reader is about to tell.
EffectsOnce ==
  \A c \in Copies :
    /\ notified[c] <= 1
    /\ inbox[c] = "processed" =>
         /\ c \in applied
         /\ \/ notified[c] = 1 \/ mishaps > 0
            \/ \E d \in Readers : \E s \in doing[d] : s.copy = c /\ s.at = "notify"

\* As long as nothing goes wrong two dispatchers on one inbox row leave it
\* processed, though neither mark looks at the status.
ProcessedStays ==
  [][\A c \in Copies : inbox[c] = "processed" /\ mishaps' = 0
                       => inbox'[c] = "processed"]_inboxVars
=============================================================================
