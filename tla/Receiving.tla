------------------------------ MODULE Receiving -----------------------------
(***************************************************************************)
(* The inbox by itself: several processes of one peer, each with handlers  *)
(* and a dispatcher over the same tables, take requests that repeat each   *)
(* other: a batch, a retry of part of it, strays nobody waits for.         *)
(***************************************************************************)
EXTENDS Inbox

CONSTANT Requests    \* the requests that reach the peer, in any order

recVars == <<inboxVars, calls, mishaps>>

Init == InboxInit /\ calls = Requests /\ mishaps = 0

Next ==
  \/ \E q \in calls :
       \/ ~Answered(q) /\ (TurnRequestAway(q) \/ Note(q) \/ Store(q))
       \/ Vanish(q)
  \/ \E d \in Readers :
       ListPending(d) \/ Look(d) \/ Insert(d) \/ Notify(d) \/ Finish(d)
       \/ CrashReader(d)
  \/ \E c \in Copies : RequeueInbox(c)
  \/ /\ \E c \in Copies : fresh[c] > 0
     /\ CacheTick
     /\ UNCHANGED <<calls, receiptVars, applyVars, turnedAway, mishaps>>

Spec == Init /\ [][Next]_recVars
=============================================================================
