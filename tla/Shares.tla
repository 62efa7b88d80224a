------------------------------- MODULE Shares -------------------------------
(***************************************************************************)
(* Federation shares (app/internal/federation/shares) of one object: grant,*)
(* revoke, the expiry sweeper, the cached snapshot the access gate reads,  *)
(* and the second cache of the same rows the outbox resolver keeps.        *)
(***************************************************************************)
EXTENDS ProcessCache

CONSTANTS
  ShareRows,       \* the shares of the object
  Expiring         \* those with an expires_at

ASSUME SharesAssumption ==
  /\ "gate" \in Slots /\ Slots \subseteq {"gate", "resolver"}
  /\ Expiring \subseteq ShareRows

VARIABLES
  share,       \* each row: absent, active, revoked
  expired,     \* shares whose expires_at has passed
  listed,      \* what each sweeper has listed and not yet swept
  unshares     \* aa:Unshare activities recorded for each share

shareVars == <<share, expired, listed, unshares>>
vars == <<shareVars, cacheVars, mishaps>>

Init ==
  /\ CacheInit
  /\ share = [s \in ShareRows |-> "absent"]
  /\ expired = {}
  /\ listed = [p \in Processes |-> {}]
  /\ unshares = [s \in ShareRows |-> 0]

Active == {s \in ShareRows : share[s] = "active"}

\* What each reader's SELECT returns: the gate checks the expiry itself.
Snapshot(k) == IF k = "gate" THEN Active ELSE Active \ expired

\* The writers invalidate the domain of the gate.
Written(p) == Commits(p, {"gate"})

\* GrantFederationShare: activity, share and audit in one transaction.
Grant(p, s) ==
  /\ share[s] = "absent"
  /\ share' = [share EXCEPT ![s] = "active"]
  /\ Written(p)
  /\ UNCHANGED <<expired, listed, unshares>>

\* Mutant: an expired share no longer counts as active in the UPDATE.
RevokeUnexpired(p, s) ==
  /\ share[s] = "active" /\ s \notin expired
  /\ share' = [share EXCEPT ![s] = "revoked"]
  /\ unshares' = [unshares EXCEPT ![s] = @ + 1]
  /\ Written(p)

\* RevokeShare with its aa:Unshare, WHERE revoked_at IS NULL.
RevokeRow(p, s) ==
  /\ share[s] = "active"
  /\ share' = [share EXCEPT ![s] = "revoked"]
  /\ unshares' = [unshares EXCEPT ![s] = @ + 1]
  /\ Written(p)

\* RevokeFederationShare.
Revoke(p, s) == RevokeRow(p, s) /\ UNCHANGED <<expired, listed>>

Expire(s) ==
  /\ s \in Expiring \ expired
  /\ expired' = expired \cup {s}
  /\ UNCHANGED <<share, listed, unshares, cacheVars, mishaps>>

DueShares == Active \cap expired

\* SweepOnce: ListExpiring, outside the transactions.
ListExpiring(p) ==
  /\ listed[p] = {}
  /\ DueShares # {}
  /\ listed' = [listed EXCEPT ![p] = DueShares]
  /\ UNCHANGED <<share, expired, unshares, cacheVars, mishaps>>

\* Mutant: the activity is kept though another writer revoked the share.
KeepActivity(p, s) ==
  /\ share[s] # "active"
  /\ unshares' = [unshares EXCEPT ![s] = @ + 1]
  /\ UNCHANGED <<share, cacheVars, mishaps>>

\* Another sweeper or an administrator was first: roll back and skip.
SkipRevoked(p, s) ==
  /\ share[s] # "active"
  /\ UNCHANGED <<share, unshares, cacheVars, mishaps>>

\* sweepOne; an error leaves the share to the next tick.
SweepOne(p, s) ==
  /\ s \in listed[p]
  /\ listed' = [listed EXCEPT ![p] = @ \ {s}]
  /\ \/ RevokeRow(p, s)
     \/ SkipRevoked(p, s)
     \/ Mishap /\ UNCHANGED <<share, unshares, cacheVars>>
  /\ UNCHANGED expired

\* A process restarts: the cache, what it owed and its sweep are gone.
RestartProcess(p) ==
  /\ Restart(p)
  /\ listed' = [listed EXCEPT ![p] = {}]
  /\ UNCHANGED <<share, expired, unshares>>

Reads == \E p \in Processes, k \in Slots :
           Load(p, k, Snapshot(k)) /\ UNCHANGED shareVars
Caches == \E p \in Processes, k \in Slots : CacheStep(p, k) /\ UNCHANGED shareVars
Sweeps(p) == ListExpiring(p) \/ \E s \in ShareRows : SweepOne(p, s)

Next ==
  \/ \E p \in Processes, s \in ShareRows : Grant(p, s) \/ Revoke(p, s)
  \/ \E s \in ShareRows : Expire(s)
  \/ \E p \in Processes :
       Sweeps(p) \/ RestartProcess(p) \/ (ListenerExits(p) /\ UNCHANGED shareVars)
  \/ Reads
  \/ Caches

Spec == Init /\ [][Next]_vars
FairSpec == Spec /\ \A p \in Processes : WF_vars(Sweeps(p))

-----------------------------------------------------------------------------
(* Properties.                                                             *)

TypeOK ==
  /\ CacheTypeOK
  /\ share \in [ShareRows -> {"absent", "active", "revoked"}]
  /\ \A p \in Processes, k \in Slots :
       /\ entries[p][k] # NONE => entries[p][k] \subseteq ShareRows
       /\ loading[p][k] \subseteq SUBSET ShareRows
  /\ expired \subseteq Expiring
  /\ \A p \in Processes : \A s \in listed[p] : s \in expired /\ share[s] # "absent"
  /\ unshares \in [ShareRows -> Nat]

\* A cached snapshot of the gate that differs from the table has a reason that
\* the cache knows of: nothing else keeps a revoked share open or a new one out.
SnapshotIsCurrent ==
  \A p \in Processes :
    entries[p]["gate"] \notin {NONE, Active} => Excused(p, "gate")

\* Two sweepers and an administrator on one share: exactly one aa:Unshare is
\* recorded for a revoked share, none for another.
OneUnsharePerRevoke ==
  \A s \in ShareRows : unshares[s] = IF share[s] = "revoked" THEN 1 ELSE 0

\* After the last fault every share that is granted and expired is revoked.
ExpiredIsRevoked ==
  \A s \in ShareRows : (share[s] = "active" /\ s \in expired) ~> share[s] = "revoked"

\* InvalidateSharesByObject says it is called on every aa:Share and aa:Unshare
\* commit and drops the cached recipients, so that the next emission reads them
\* anew.  Then, with no fault, no expiry and no invalidation still owed, a set
\* of recipients read since the last commit is the current one.
RecipientsFollowShares ==
  \A p \in Processes :
    entries[p]["resolver"] \notin {NONE, Snapshot("resolver")} =>
      Excused(p, "resolver") \/ owed # {} \/ mishaps > 0 \/ expired # {}
=============================================================================
