---------------------------- MODULE SharesProofs ----------------------------
(***************************************************************************)
(* For any number of processes, shares and faults: the gate's cached       *)
(* snapshot differs from the table only for the reasons SnapshotIsCurrent  *)
(* names, and a revoked share was announced once.                          *)
(*                                                                         *)
(* The snapshot alone is not inductive: a value that was read and is not   *)
(* yet in the cache becomes an entry without looking at the table again,   *)
(* so what is said of entries must be said of the reads under way first.   *)
(***************************************************************************)
EXTENDS Shares, TLAPS

Values == SUBSET ShareRows

CacheShape ==
  /\ entries \in [Processes -> [Slots -> Values \cup {NONE}]]
  /\ loading \in [Processes -> [Slots -> SUBSET Values]]

ListsShape == DOMAIN listed = Processes

\* A value that was read for the gate and is not current was overtaken.
ReadsAreCurrent ==
  \A p \in Processes : \A value \in loading[p]["gate"] :
    value # Active => <<p, "gate">> \in overtaken

SharesInv ==
  TypeOK /\ CacheShape /\ ListsShape /\ ReadsAreCurrent /\ SnapshotIsCurrent

-----------------------------------------------------------------------------
LEMMA SharesInit == Init => SharesInv /\ OneUnsharePerRevoke
<1> SUFFICES ASSUME Init PROVE SharesInv /\ OneUnsharePerRevoke
  OBVIOUS
<1> USE SharesAssumption DEF Init, CacheInit
<1>1. TypeOK /\ CacheShape /\ ListsShape
  BY DEF TypeOK, CacheTypeOK, CacheShape, ListsShape, Values
<1>2. ReadsAreCurrent /\ SnapshotIsCurrent
  BY DEF ReadsAreCurrent, SnapshotIsCurrent
<1> QED
  BY <1>1, <1>2 DEF SharesInv, OneUnsharePerRevoke

-----------------------------------------------------------------------------
(* The cache and the table by themselves.                                  *)

\* Nothing happens to the slots of the cache.
SameSlots == UNCHANGED <<entries, loading, overtaken>>

\* The entry of one slot goes away, and what was known of it with it unless
\* reads are under way.
LEMMA RemovePreserves ==
  ASSUME TypeOK, CacheShape, NEW p \in Processes, NEW k \in Slots, Remove(p, k),
         UNCHANGED loading
  PROVE  /\ CacheShape'
         /\ entries'[p][k] = NONE
         /\ \A q \in Processes, j \in Slots :
              <<q, j>> # <<p, k>> => /\ entries'[q][j] = entries[q][j]
                                     /\ <<q, j>> \in overtaken => <<q, j>> \in overtaken'
         /\ \A q \in Processes, j \in Slots :
              loading[q][j] # {} => (<<q, j>> \in overtaken => <<q, j>> \in overtaken')
         /\ overtaken' \subseteq overtaken
BY DEF Remove, Forget, CacheShape

\* What Written does, for each process.
LEMMA WrittenExcuses ==
  ASSUME TypeOK, CacheShape, NEW p \in Processes, Written(p)
  PROVE  /\ <<p, "gate">> \in owed'
         /\ \A q \in Processes : loading'[q]["gate"] # {} => <<q, "gate">> \in overtaken'
         /\ owed' \cup overtaken' \subseteq Processes \X Slots
         /\ UNCHANGED <<entries, loading, notices, deaf, unheard>>
BY SharesAssumption DEF Written, Commits, TypeOK, CacheTypeOK

\* A commit that changes the table leaves the cache excused.
LEMMA CommitKeeps ==
  ASSUME SharesInv, NEW p \in Processes, Written(p)
  PROVE  (CacheTypeOK /\ CacheShape /\ ReadsAreCurrent /\ SnapshotIsCurrent)'
<1> USE SharesAssumption DEF SharesInv
<1>1. /\ <<p, "gate">> \in owed'
      /\ \A q \in Processes : loading'[q]["gate"] # {} => <<q, "gate">> \in overtaken'
      /\ owed' \cup overtaken' \subseteq Processes \X Slots
      /\ UNCHANGED <<entries, loading, notices, deaf, unheard>>
  BY WrittenExcuses
<1>2. CacheTypeOK' /\ CacheShape'
  BY <1>1 DEF TypeOK, CacheTypeOK, CacheShape
<1>3. ReadsAreCurrent'
  BY <1>1 DEF ReadsAreCurrent
<1>4. SnapshotIsCurrent'
  BY <1>1 DEF SnapshotIsCurrent, Excused
<1> QED
  BY <1>2, <1>3, <1>4

-----------------------------------------------------------------------------
(* The cache's own steps: the table stands still.                          *)

LEMMA LoadKeeps ==
  ASSUME SharesInv, NEW p \in Processes, NEW k \in Slots,
         Load(p, k, Snapshot(k)), UNCHANGED shareVars
  PROVE  SharesInv'
<1> USE SharesAssumption DEF SharesInv, ListsShape, shareVars
<1>1. Active' = Active /\ Snapshot(k) \in Values /\ Snapshot("gate") = Active
  BY DEF Active, Snapshot, Values
<1>2. /\ loading' = [loading EXCEPT ![p][k] = @ \cup {Snapshot(k)}]
      /\ UNCHANGED <<entries, notices, deaf, owed, overtaken, unheard>>
  BY DEF Load
<1>3. CacheShape'
  BY <1>1, <1>2 DEF CacheShape
<1>4. TypeOK'
  <2>1. CacheTypeOK'
    BY <1>2 DEF TypeOK, CacheTypeOK
  <2> QED
    BY <1>3, <2>1 DEF TypeOK, CacheShape, Values
<1>5. ReadsAreCurrent'
  <2> SUFFICES ASSUME NEW q \in Processes, NEW value \in loading'[q]["gate"],
                      value # Active
               PROVE  <<q, "gate">> \in overtaken
    BY <1>1, <1>2 DEF ReadsAreCurrent
  <2>1. value \in loading[q]["gate"]
    BY <1>1, <1>2 DEF CacheShape
  <2> QED
    BY <2>1 DEF ReadsAreCurrent
<1>6. SnapshotIsCurrent'
  BY <1>1, <1>2 DEF SnapshotIsCurrent, Excused
<1> QED
  BY <1>3, <1>4, <1>5, <1>6

LEMMA AddKeeps ==
  ASSUME SharesInv, NEW p \in Processes, NEW k \in Slots,
         Add(p, k), UNCHANGED shareVars
  PROVE  SharesInv'
<1> USE SharesAssumption DEF SharesInv, ListsShape, shareVars
<1>1. Active' = Active
  BY DEF Active
<1>2. PICK value \in loading[p][k] :
        /\ entries' = [entries EXCEPT ![p][k] = value]
        /\ loading' = [loading EXCEPT ![p][k] = @ \ {value}]
        /\ UNCHANGED <<notices, deaf, owed, overtaken, unheard>>
  BY DEF Add
<1>3. CacheShape'
  BY <1>2 DEF CacheShape
<1>4. TypeOK'
  BY <1>2, <1>3 DEF TypeOK, CacheTypeOK, CacheShape, Values
<1>5. ReadsAreCurrent'
  BY <1>1, <1>2 DEF ReadsAreCurrent, CacheShape
<1>6. SnapshotIsCurrent'
  <2> SUFFICES ASSUME NEW q \in Processes, entries'[q]["gate"] \notin {NONE, Active}
               PROVE  Excused(q, "gate")
    BY <1>1, <1>2 DEF SnapshotIsCurrent, Excused
  <2>1. CASE q = p /\ k = "gate"
    BY <1>2, <2>1 DEF ReadsAreCurrent, Excused, CacheShape
  <2>2. CASE ~(q = p /\ k = "gate")
    <3>1. entries'[q]["gate"] = entries[q]["gate"]
      BY <1>2, <2>2 DEF CacheShape
    <3> QED
      BY <3>1 DEF SnapshotIsCurrent
  <2> QED
    BY <2>1, <2>2
<1> QED
  BY <1>3, <1>4, <1>5, <1>6

\* What a removal leaves of the entry's and the reads' excuses.
LEMMA RemovalKeeps ==
  ASSUME SharesInv, NEW p \in Processes, NEW k \in Slots, Remove(p, k),
         UNCHANGED <<loading, deaf>>, UNCHANGED shareVars,
         CacheTypeOK',
         \A q \in Processes : entries'[q]["gate"] # NONE /\ Excused(q, "gate") =>
           \/ <<q, "gate">> \in overtaken
           \/ Excused(q, "gate")'
  PROVE  SharesInv'
<1> USE SharesAssumption DEF SharesInv, ListsShape, shareVars
<1>1. Active' = Active
  BY DEF Active
<1>2. /\ CacheShape'
      /\ entries'[p][k] = NONE
      /\ \A q \in Processes, j \in Slots :
           <<q, j>> # <<p, k>> => /\ entries'[q][j] = entries[q][j]
                                  /\ <<q, j>> \in overtaken => <<q, j>> \in overtaken'
      /\ \A q \in Processes, j \in Slots :
           loading[q][j] # {} => (<<q, j>> \in overtaken => <<q, j>> \in overtaken')
  BY RemovePreserves
<1>3. TypeOK'
  BY <1>2 DEF TypeOK, CacheShape, Values
<1>4. ReadsAreCurrent'
  BY <1>1, <1>2 DEF ReadsAreCurrent
<1>5. SnapshotIsCurrent'
  BY <1>1, <1>2 DEF SnapshotIsCurrent, Excused
<1> QED
  BY <1>2, <1>3, <1>4, <1>5

LEMMA InvalidateKeeps ==
  ASSUME SharesInv, NEW p \in Processes, NEW k \in Slots,
         Invalidate(p, k), UNCHANGED shareVars
  PROVE  SharesInv'
<1> USE DEF SharesInv
<1>1. Remove(p, k) /\ owed' = owed \ {<<p, k>>} /\ UNCHANGED <<loading, deaf>>
  BY DEF Invalidate, Drop
<1>2. \/ /\ notices' = notices \cup {<<q, k>> : q \in Processes \ deaf}
         /\ unheard' = unheard \cup {<<q, k>> : q \in deaf \ {p}}
      \/ /\ notices' = notices
         /\ unheard' = unheard \cup {<<q, k>> : q \in Processes \ {p}}
  BY DEF Invalidate
<1>3. overtaken' \subseteq overtaken
  BY <1>1, RemovePreserves
<1>4. CacheTypeOK'
  <2>1. DOMAIN entries' = Processes /\ DOMAIN loading' = Processes
    BY <1>1 DEF Remove, TypeOK, CacheTypeOK
  <2>2. notices' \cup unheard' \subseteq Processes \X Slots
    BY <1>2 DEF TypeOK, CacheTypeOK
  <2>3. \A n \in notices' : n[1] \notin deaf'
    BY <1>1, <1>2 DEF TypeOK, CacheTypeOK
  <2> QED
    BY <1>1, <1>3, <2>1, <2>2, <2>3 DEF TypeOK, CacheTypeOK
<1>5. ASSUME NEW q \in Processes, entries'[q]["gate"] # NONE, Excused(q, "gate"),
             <<q, "gate">> \notin overtaken
      PROVE  Excused(q, "gate")'
  <2>1. q # p \/ k # "gate"
    BY <1>1, <1>5, RemovePreserves
  <2>2. CASE <<q, "gate">> \in notices \cup unheard
    BY <1>2, <2>2 DEF Excused
  <2>3. CASE \E r \in Processes : <<r, "gate">> \in owed
    BY <1>1, <1>2, <2>1, <2>3 DEF Excused
  <2> QED
    BY <1>5, <2>2, <2>3 DEF Excused
<1> QED
  BY <1>1, <1>4, <1>5, RemovalKeeps

LEMMA ReceiveKeeps ==
  ASSUME SharesInv, NEW p \in Processes, NEW k \in Slots,
         Receive(p, k), UNCHANGED shareVars
  PROVE  SharesInv'
<1> USE DEF SharesInv
<1>1. /\ Remove(p, k) /\ UNCHANGED <<loading, deaf, owed>>
      /\ notices' = notices \ {<<p, k>>}
      /\ unheard \ {<<p, k>>} \subseteq unheard' /\ unheard' \subseteq unheard
  BY DEF Receive, Forget
<1>2. entries'[p][k] = NONE /\ overtaken' \subseteq overtaken
  BY <1>1, RemovePreserves
<1>3. CacheTypeOK'
  BY <1>1, <1>2 DEF Remove, TypeOK, CacheTypeOK
<1> QED
  BY <1>1, <1>2, <1>3, RemovalKeeps DEF Excused

LEMMA EvictKeeps ==
  ASSUME SharesInv, NEW p \in Processes, NEW k \in Slots,
         Evict(p, k), UNCHANGED shareVars
  PROVE  SharesInv'
<1> USE DEF SharesInv
<1>1. /\ Remove(p, k) /\ UNCHANGED <<loading, notices, deaf, owed>>
      /\ unheard \ {<<p, k>>} \subseteq unheard' /\ unheard' \subseteq unheard
  BY DEF Evict, Forget
<1>2. entries'[p][k] = NONE /\ overtaken' \subseteq overtaken
  BY <1>1, RemovePreserves
<1>3. CacheTypeOK'
  BY <1>1, <1>2 DEF Remove, TypeOK, CacheTypeOK
<1> QED
  BY <1>1, <1>2, <1>3, RemovalKeeps DEF Excused

LEMMA ListenerExitsKeeps ==
  ASSUME SharesInv, NEW p \in Processes, ListenerExits(p), UNCHANGED shareVars
  PROVE  SharesInv'
<1> USE DEF SharesInv, ListsShape, shareVars
<1>1. /\ UNCHANGED <<entries, loading, owed, overtaken>>
      /\ deaf' = deaf \cup {p}
      /\ notices' = {n \in notices : n[1] # p}
      /\ unheard' = unheard \cup {n \in notices : n[1] = p}
  BY DEF ListenerExits
<1>2. CacheTypeOK'
  BY <1>1 DEF TypeOK, CacheTypeOK
<1>3. TypeOK' /\ CacheShape'
  BY <1>1, <1>2 DEF TypeOK, CacheShape
<1>4. ReadsAreCurrent'
  BY <1>1 DEF ReadsAreCurrent, Active
<1>5. \A n \in notices \cup unheard : n \in notices' \cup unheard'
  BY <1>1
<1>6. SnapshotIsCurrent'
  BY <1>1, <1>5 DEF SnapshotIsCurrent, Excused, Active
<1> QED
  BY <1>3, <1>4, <1>6

\* What a process owed when it died is unheard everywhere else; its own entries
\* and reads are gone.
LEMMA RestartKeeps ==
  ASSUME SharesInv, NEW p \in Processes, RestartProcess(p)
  PROVE  SharesInv'
<1> USE SharesAssumption DEF SharesInv, ListsShape
<1>1. /\ entries' = [entries EXCEPT ![p] = [k \in Slots |-> NONE]]
      /\ loading' = [loading EXCEPT ![p] = [k \in Slots |-> {}]]
      /\ deaf' = deaf \ {p}
      /\ notices' = {n \in notices : n[1] # p}
      /\ owed' = {s \in owed : s[1] # p}
      /\ overtaken' = {s \in overtaken : s[1] # p}
      /\ unheard' = {s \in unheard : s[1] # p} \cup
                      {<<q, s[2]>> : q \in Processes \ {p}, s \in {o \in owed : o[1] = p}}
      /\ listed' = [listed EXCEPT ![p] = {}]
      /\ UNCHANGED <<share, expired, unshares>>
  BY DEF RestartProcess, Restart
<1>2. Active' = Active
  BY <1>1 DEF Active
<1>3. CacheShape'
  BY <1>1 DEF CacheShape
<1>4. CacheTypeOK'
  <2>1. DOMAIN entries' = Processes /\ DOMAIN loading' = Processes
    BY <1>1 DEF TypeOK, CacheTypeOK
  <2>2. unheard' \subseteq Processes \X Slots
    BY <1>1 DEF TypeOK, CacheTypeOK
  <2>3. notices' \cup owed' \cup overtaken' \subseteq Processes \X Slots
    BY <1>1 DEF TypeOK, CacheTypeOK
  <2>4. deaf' \subseteq Processes /\ \A n \in notices' : n[1] \notin deaf'
    BY <1>1 DEF TypeOK, CacheTypeOK
  <2> QED
    BY <2>1, <2>2, <2>3, <2>4 DEF CacheTypeOK
<1>5. TypeOK'
  BY <1>1, <1>3, <1>4 DEF TypeOK, CacheShape, Values
<1>6. ReadsAreCurrent'
  BY <1>1, <1>2 DEF ReadsAreCurrent, CacheShape
<1>7. SnapshotIsCurrent'
  <2> SUFFICES ASSUME NEW q \in Processes, entries'[q]["gate"] \notin {NONE, Active}
               PROVE  Excused(q, "gate")'
    BY <1>2 DEF SnapshotIsCurrent
  <2>1. q # p /\ entries'[q]["gate"] = entries[q]["gate"]
    BY <1>1 DEF CacheShape
  <2>2. Excused(q, "gate")
    BY <2>1 DEF SnapshotIsCurrent
  <2>3. CASE <<q, "gate">> \in notices \cup unheard \cup overtaken
    BY <1>1, <2>1, <2>3 DEF Excused
  <2>4. CASE <<p, "gate">> \in owed
    BY <1>1, <2>1, <2>4 DEF Excused
  <2>5. CASE \E r \in Processes \ {p} : <<r, "gate">> \in owed
    BY <1>1, <2>5 DEF Excused
  <2> QED
    BY <2>2, <2>3, <2>4, <2>5 DEF Excused
<1> QED
  BY <1>1, <1>3, <1>5, <1>6, <1>7

-----------------------------------------------------------------------------
(* The steps of the table.                                                 *)

LEMMA GrantKeeps ==
  ASSUME SharesInv, NEW p \in Processes, NEW s \in ShareRows, Grant(p, s)
  PROVE  SharesInv'
<1> USE DEF SharesInv, ListsShape
<1>1. /\ share' = [share EXCEPT ![s] = "active"]
      /\ UNCHANGED <<expired, listed, unshares>>
      /\ Written(p)
  BY DEF Grant
<1>2. (CacheTypeOK /\ CacheShape /\ ReadsAreCurrent /\ SnapshotIsCurrent)'
  BY <1>1, CommitKeeps
<1>3. TypeOK'
  BY <1>1, <1>2 DEF TypeOK, CacheShape, Values
<1> QED
  BY <1>1, <1>2, <1>3

\* The two writers of a revocation; the sweeper also takes the row off its list.
LEMMA RevokeRowKeeps ==
  ASSUME SharesInv, NEW p \in Processes, NEW s \in ShareRows, RevokeRow(p, s),
         UNCHANGED expired,
         listed' = listed \/ listed' = [listed EXCEPT ![p] = @ \ {s}]
  PROVE  SharesInv'
<1> USE DEF SharesInv, ListsShape
<1>1. /\ share' = [share EXCEPT ![s] = "revoked"]
      /\ unshares' = [unshares EXCEPT ![s] = @ + 1]
      /\ Written(p)
  BY DEF RevokeRow
<1>2. (CacheTypeOK /\ CacheShape /\ ReadsAreCurrent /\ SnapshotIsCurrent)'
  BY <1>1, CommitKeeps
<1>3. \A q \in Processes : listed'[q] \subseteq listed[q]
  BY SMT
<1>4. TypeOK'
  BY <1>1, <1>2, <1>3 DEF TypeOK, CacheShape, Values
<1> QED
  BY <1>2, <1>4

\* A step that touches neither the shares nor the cache, and lists due shares.
LEMMA ListsKeep ==
  ASSUME SharesInv, UNCHANGED <<share, unshares, cacheVars>>,
         expired \subseteq expired' /\ expired' \subseteq Expiring,
         DOMAIN listed' = DOMAIN listed,
         \A q \in Processes : listed'[q] \subseteq listed[q] \cup DueShares
  PROVE  SharesInv'
<1> USE DEF SharesInv, ListsShape, cacheVars
<1>1. CacheTypeOK'
  BY DEF TypeOK, CacheTypeOK
<1>2. TypeOK'
  BY <1>1 DEF TypeOK, DueShares, Active
<1>3. (CacheShape /\ ReadsAreCurrent /\ SnapshotIsCurrent)'
  BY DEF CacheShape, ReadsAreCurrent, SnapshotIsCurrent, Excused, Active
<1> QED
  BY <1>2, <1>3

LEMMA SweepOneKeeps ==
  ASSUME SharesInv, NEW p \in Processes, NEW s \in ShareRows, SweepOne(p, s)
  PROVE  SharesInv'
<1>1. CASE RevokeRow(p, s)
  BY <1>1, RevokeRowKeeps DEF SweepOne
<1>2. CASE ~RevokeRow(p, s)
  <2>1. UNCHANGED <<share, unshares, cacheVars>>
    BY <1>2 DEF SweepOne, SkipRevoked
  <2>2. expired' = expired /\ listed' = [listed EXCEPT ![p] = @ \ {s}]
    BY DEF SweepOne
  <2>3. \A q \in Processes : listed'[q] \subseteq listed[q] \cup DueShares
    BY <2>2
  <2> QED
    BY <2>1, <2>2, <2>3, ListsKeep DEF SharesInv, TypeOK
<1> QED
  BY <1>1, <1>2

LEMMA SharesStep == SharesInv /\ [Next]_vars => SharesInv'
<1> SUFFICES ASSUME SharesInv, [Next]_vars PROVE SharesInv'
  OBVIOUS
<1>1. ASSUME NEW p \in Processes, NEW s \in ShareRows, Grant(p, s) PROVE SharesInv'
  BY <1>1, GrantKeeps
<1>2. ASSUME NEW p \in Processes, NEW s \in ShareRows, Revoke(p, s) PROVE SharesInv'
  BY <1>2, RevokeRowKeeps DEF Revoke
<1>3. ASSUME NEW s \in ShareRows, Expire(s) PROVE SharesInv'
  BY <1>3, ListsKeep DEF Expire, SharesInv, TypeOK
<1>4. ASSUME NEW p \in Processes, ListExpiring(p) PROVE SharesInv'
  BY <1>4, ListsKeep DEF ListExpiring, SharesInv, TypeOK
<1>5. ASSUME NEW p \in Processes, NEW s \in ShareRows, SweepOne(p, s) PROVE SharesInv'
  BY <1>5, SweepOneKeeps
<1>6. ASSUME NEW p \in Processes, RestartProcess(p) PROVE SharesInv'
  BY <1>6, RestartKeeps
<1>7. ASSUME NEW p \in Processes, ListenerExits(p), UNCHANGED shareVars PROVE SharesInv'
  BY <1>7, ListenerExitsKeeps
<1>8. CASE Reads
  BY <1>8, LoadKeeps DEF Reads
<1>9. CASE Caches
  BY <1>9, AddKeeps, InvalidateKeeps, ReceiveKeeps, EvictKeeps DEF Caches, CacheStep
<1>10. CASE UNCHANGED vars
  BY <1>10, ListsKeep DEF vars, shareVars, SharesInv, TypeOK
<1> QED
  BY <1>1, <1>2, <1>3, <1>4, <1>5, <1>6, <1>7, <1>8, <1>9, <1>10 DEF Next, Sweeps

-----------------------------------------------------------------------------
LEMMA SharesInvariant == Spec => []SharesInv
BY SharesInit, SharesStep, PTL DEF Spec

\* The rows, the caches and the lists of the sweepers stay well typed: what a
\* sweeper has listed has expired and was granted.
THEOREM SharesTypeCorrect == Spec => []TypeOK
BY SharesInvariant, PTL DEF SharesInv

\* The gate never decides on a snapshot that is stale without one of the four
\* reasons: whichever reads, commits, notifications, failures and restarts of
\* the server processes come between.
THEOREM SnapshotCorrect == Spec => []SnapshotIsCurrent
BY SharesInvariant, PTL DEF SharesInv

\* Only RevokeRow touches the counters, and only of an active row.
LEMMA UnshareStep ==
  TypeOK /\ OneUnsharePerRevoke /\ [Next]_vars => OneUnsharePerRevoke'
<1> SUFFICES ASSUME TypeOK, OneUnsharePerRevoke, [Next]_vars
             PROVE  OneUnsharePerRevoke'
  OBVIOUS
<1> USE DEF OneUnsharePerRevoke
<1>1. ASSUME NEW p \in Processes, NEW s \in ShareRows, Grant(p, s)
      PROVE  OneUnsharePerRevoke'
  BY <1>1 DEF Grant, TypeOK
<1>2. ASSUME NEW p \in Processes, NEW s \in ShareRows, RevokeRow(p, s)
      PROVE  OneUnsharePerRevoke'
  BY <1>2 DEF RevokeRow, TypeOK
<1>3. CASE UNCHANGED <<share, unshares>>
  BY <1>3
<1> QED
  BY <1>1, <1>2, <1>3
     DEF Next, vars, shareVars, Revoke, Expire, Sweeps, ListExpiring, SweepOne,
         SkipRevoked, RestartProcess, Reads, Caches

\* A share is announced as revoked exactly once, however many sweepers and
\* administrators revoke it at the same time.
THEOREM UnshareOnce == Spec => []OneUnsharePerRevoke
BY SharesInit, SharesTypeCorrect, UnshareStep, PTL DEF Spec
=============================================================================
