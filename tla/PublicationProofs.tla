-------------------------- MODULE PublicationProofs -------------------------
(***************************************************************************)
(* The publication of a post, for any finite set of actions, reapers and   *)
(* requests and any bounds: at most one instruction of the author waits,   *)
(* what the peers were last told agrees with the post, and an instruction  *)
(* moves the post once.                                                    *)
(*                                                                         *)
(* The last word agrees because no two transactions in progress have the   *)
(* same created_at.  An instruction moves the post once because its claim  *)
(* excludes every other reaper and the author's replacement, and because   *)
(* an instruction that did move it finds it where it was to be: what the   *)
(* claim's holder knows of the post after its reads is the invariant.      *)
(***************************************************************************)
EXTENDS Publication, FiniteSetTheorems, WellFoundedInduction, TLAPS

Moving == {"check", "begin", "write"}
Phases == Moving \cup {"idle", "moved", "noop", "refused", "gated", "cancel", "insert"}
MoverType ==
  [at : Phases, wants : {"publish", "unpublish", "delete"},
   act : Actions \cup {0}, own : SUBSET Author, stamp : Nat]

\* No two writing transactions began at the same moment, or at the word's.
StampsDiffer ==
  /\ \A m \in Movers : At(m, "write") => mover[m].stamp # word.stamp
  /\ \A m, n \in Movers :
       m # n /\ At(m, "write") /\ At(n, "write") => mover[m].stamp # mover[n].stamp

\* A reaper carries out an action as it says, and holds it unless it lost it.
Claimed(r) ==
  ~At(r, "idle") =>
    /\ mover[r].at \in Moving \cup DOMAIN Outcome
    /\ mover[r].act \in Actions
    /\ mover[r].wants = IF mover[r].act \in Publishes THEN "publish" ELSE "unpublish"
    /\ mover[r].act \notin strayed =>
         lock[mover[r].act] = r /\ row[mover[r].act] = "pending"

\* A move that a person asks for carries out no action, and a request to schedule
\* one holds the instructions it replaces.
Asked(p) ==
  /\ mover[p].at \in Moving => mover[p].act = 0
  /\ mover[p].at \notin DOMAIN Outcome
  /\ At(p, "insert") => \A b \in mover[p].own : lock[b] = p

\* What moved the post last moved it to where it is.
FiredSound ==
  \A a \in fired : state = IF a \in Publishes THEN "published" ELSE "wip"

\* About to write for an action that has not moved the post.
FirstMove(r) ==
  At(r, "write") /\ mover[r].act \notin strayed => mover[r].act \notin fired

ClaimInv ==
  /\ \A r \in Reapers : Claimed(r)
  /\ \A p \in People : Asked(p)

PubInv ==
  /\ TypeOK
  /\ ClaimInv
  /\ StampsDiffer
  /\ FiredSound
  /\ \A r \in Reapers : FirstMove(r)

-----------------------------------------------------------------------------
(* created_at: the maximum that NOW is above exists.                       *)

\* Of the sets with no maximum a smallest one would lose it with any element.
LEMMA MaxExists ==
  ASSUME NEW S \in SUBSET Nat, IsFiniteSet(S), S # {}
  PROVE  Max(S) \in S /\ \A x \in S : Max(S) >= x
<1> DEFINE HasMax(T) == \E x \in T : \A y \in T : x >= y
           Bad == {T \in SUBSET S : T # {} /\ ~HasMax(T)}
           Sizes == {n \in Nat : \E T \in Bad : Cardinality(T) = n}
<1>1. \A T \in SUBSET S : IsFiniteSet(T) /\ Cardinality(T) \in Nat
  BY FS_Subset, FS_CardinalityType
<1>2. ASSUME NEW T \in Bad, \A U \in Bad : ~(Cardinality(U) < Cardinality(T))
      PROVE  FALSE
  <2>1. PICK x \in T : TRUE
    OBVIOUS
  <2>2. T \ {x} # {}
    BY <2>1
  <2>3. Cardinality(T \ {x}) < Cardinality(T)
    BY <1>1, <2>1, FS_RemoveElement
  <2>4. T \ {x} \in SUBSET S /\ T \ {x} \notin Bad
    BY <1>2, <2>3
  <2>5. PICK y \in T \ {x} : \A z \in T \ {x} : y >= z
    BY <2>2, <2>4
  <2>6. x \in Nat /\ y \in Nat /\ \A z \in T : z \in Nat
    BY <2>1, <2>5
  <2>7. CASE x >= y
    BY <2>1, <2>5, <2>6, <2>7
  <2>8. CASE ~(x >= y)
    BY <2>1, <2>5, <2>6, <2>8
  <2> QED
    BY <2>7, <2>8
<1>3. Bad = {}
  <2> SUFFICES ASSUME Bad # {} PROVE FALSE
    OBVIOUS
  <2>1. Sizes \subseteq Nat /\ Sizes # {}
    BY <1>1
  <2>2. PICK n \in Sizes : \A k \in Sizes : ~(<<k, n>> \in OpToRel(<, Nat))
    BY <2>1, NatLessThanWellFounded, WFMin
  <2>3. \A k \in Sizes : ~(k < n)
    BY <2>1, <2>2 DEF OpToRel
  <2>4. PICK T \in Bad : Cardinality(T) = n
    BY <2>2
  <2>5. \A U \in Bad : Cardinality(U) \in Sizes
    BY <1>1
  <2> QED
    BY <1>2, <2>3, <2>4, <2>5
<1> QED
  BY <1>3 DEF Max

\* NOW is a moment later than the word's and than every mover's.
LEMMA NowIsLater ==
  ASSUME TypeOK
  PROVE  /\ NOW \in Nat /\ NOW > word.stamp
         /\ \A n \in Movers : NOW > mover[n].stamp
<1> DEFINE f == [n \in Movers |-> mover[n].stamp]
           stamps == {mover[n].stamp : n \in Movers}
           S == {word.stamp} \cup stamps
<1>1. f \in Surjection(Movers, stamps)
  <2>1. f \in [Movers -> stamps] /\ \A t \in stamps : \E n \in Movers : f[n] = t
    OBVIOUS
  <2> HIDE DEF f, stamps
  <2> QED
    BY <2>1 DEF Surjection
<1>2. IsFiniteSet(stamps)
  BY <1>1, FS_Surjection, PublicationAssumption DEF Movers
<1>3. IsFiniteSet(S)
  BY <1>2, FS_AddElement, FS_Singleton, FS_Union
<1>4. S \subseteq Nat /\ S # {}
  BY DEF TypeOK
<1>5. Max(S) \in S /\ \A x \in S : Max(S) >= x
  BY <1>3, <1>4, MaxExists
<1> HIDE DEF f
<1>6. Max(S) \in Nat /\ NOW = 1 + Max(S)
  BY <1>4, <1>5 DEF NOW
<1>7. word.stamp \in S /\ \A n \in Movers : mover[n].stamp \in S
  OBVIOUS
<1>8. \A x \in S : x \in Nat /\ NOW > x
  <2> HIDE DEF S
  <2> QED
    BY <1>4, <1>5, <1>6
<1> QED
  BY <1>6, <1>7, <1>8

-----------------------------------------------------------------------------
(* Types.                                                                  *)

LEMMA Outcomes ==
  /\ DOMAIN Outcome = {"moved", "noop", "refused"}
  /\ \A o \in DOMAIN Outcome : Outcome[o] \in {"done", "failed"}
BY DEF Outcome

\* A set within the author's pending instructions, or within one, has one at most.
LEMMA FewPending ==
  ASSUME TypeOK, NEW S,
         S \subseteq PendingOf(Author) \/ \E x : S \subseteq {x}
  PROVE  Cardinality(S) <= 1
<1>1. IsFiniteSet(PendingOf(Author)) /\ Cardinality(PendingOf(Author)) \in Nat
  BY PublicationAssumption, FS_Subset, FS_CardinalityType DEF PendingOf
<1>2. CASE S \subseteq PendingOf(Author)
  <2>1. Cardinality(S) <= Cardinality(PendingOf(Author)) /\ Cardinality(S) \in Nat
    BY <1>1, <1>2, FS_Subset, FS_CardinalityType
  <2> QED
    BY <1>1, <2>1 DEF TypeOK
<1>3. ASSUME NEW x, S \subseteq {x}
      PROVE  Cardinality(S) <= 1
  <2>1. IsFiniteSet({x}) /\ Cardinality({x}) = 1
    BY FS_Singleton
  <2> QED
    BY <1>3, <2>1, FS_Subset
<1> QED
  BY <1>2, <1>3

\* Only a person's insertion makes an instruction of the author pending.
LEMMA OnePendingStep ==
  ASSUME TypeOK, Next
  PROVE  Cardinality(PendingOf(Author)') <= 1
<1> USE DEF PendingOf
<1>1. ASSUME NEW p \in People, PutInsert(p)
      PROVE  \/ PendingOf(Author)' \subseteq PendingOf(Author)
             \/ PendingOf(Author)' \subseteq {mover[p].act}
  <2>1. CASE UNCHANGED row
    BY <2>1
  <2>2. CASE Conflicts(p) = {} /\ Smooth
             /\ row' = [a \in Actions |->
                          IF a = mover[p].act THEN "pending"
                          ELSE IF a \in mover[p].own THEN "cancelled" ELSE row[a]]
    BY <2>2, PublicationAssumption DEF Conflicts
  <2> QED
    BY <1>1, <2>1, <2>2 DEF PutInsert
<1>2. ASSUME NEW r \in Reapers, Mark(r)
      PROVE  PendingOf(Author)' \subseteq PendingOf(Author)
  BY <1>2, Outcomes, PublicationAssumption DEF Mark, MarkRow, TypeOK
<1>3. ASSUME NEW a \in Actions, Schedule(a) \/ Cancel(a)
      PROVE  PendingOf(Author)' \subseteq PendingOf(Author)
  BY <1>3, PublicationAssumption DEF Schedule, Cancel, TypeOK
<1>4. ASSUME row' = row
      PROVE  PendingOf(Author)' \subseteq PendingOf(Author)
  BY <1>4
<1>5. \/ row' = row
      \/ \E p \in People : PutInsert(p)
      \/ \E r \in Reapers : Mark(r)
      \/ \E a \in Actions : Schedule(a) \/ Cancel(a)
  BY DEF Next, Reaps, Serves, Moves, Check, Begin, CommitMove, MoveOfDeleted,
     CommitDelete, Refuse, ClaimDueAction, Abandon, LoseClaim, PutSnapshot,
     PutCancel, Ask, PutGate, Restore, Tick, rowVars
<1>6. \/ PendingOf(Author)' \subseteq PendingOf(Author)
      \/ \E x : PendingOf(Author)' \subseteq {x}
  BY <1>1, <1>2, <1>3, <1>4, <1>5
<1> QED
  <2> HIDE DEF PendingOf
  <2> QED
    BY <1>6, FewPending

\* What a step makes of a mover is a mover.
LEMMA MoverTypes ==
  /\ Idle \in MoverType
  /\ \A t \in MoverType, x \in Phases :
       /\ [t EXCEPT !.at = x] \in MoverType
       /\ \A n \in Nat : [t EXCEPT !.at = x, !.stamp = n] \in MoverType
       /\ \A S \in SUBSET Author : [t EXCEPT !.at = x, !.own = S] \in MoverType
       /\ \A w \in {"publish", "unpublish", "delete"} :
            /\ [t EXCEPT !.at = x, !.wants = w] \in MoverType
            /\ \A a \in Actions : [t EXCEPT !.at = x, !.act = a, !.wants = w] \in MoverType
       /\ \A a \in Actions : [t EXCEPT !.at = x, !.act = a] \in MoverType
<1>1. Idle \in MoverType
  BY DEF MoverType, Idle, Phases, Moving
<1>2. ASSUME NEW t \in MoverType, NEW x \in Phases
      PROVE  /\ [t EXCEPT !.at = x] \in MoverType
             /\ \A n \in Nat : [t EXCEPT !.at = x, !.stamp = n] \in MoverType
             /\ \A S \in SUBSET Author : [t EXCEPT !.at = x, !.own = S] \in MoverType
             /\ \A a \in Actions : [t EXCEPT !.at = x, !.act = a] \in MoverType
  BY <1>2 DEF MoverType
<1>3. ASSUME NEW t \in MoverType, NEW x \in Phases, NEW w \in {"publish", "unpublish", "delete"}
      PROVE  /\ [t EXCEPT !.at = x, !.wants = w] \in MoverType
             /\ \A a \in Actions : [t EXCEPT !.at = x, !.act = a, !.wants = w] \in MoverType
  BY <1>3 DEF MoverType
<1> QED
  BY <1>1, <1>2, <1>3

LEMMA MoverTypeStep ==
  ASSUME TypeOK, Next
  PROVE  mover' \in [Movers -> MoverType]
<1>1. mover \in [Movers -> MoverType]
  BY DEF TypeOK, MoverType, Phases, Moving
<1> USE DEF Phases, Moving
<1>2. ASSUME NEW m \in Movers, NEW t \in MoverType, mover' = [mover EXCEPT ![m] = t]
      PROVE  mover' \in [Movers -> MoverType]
  BY <1>1, <1>2
<1>3. ASSUME NEW m \in Movers, Moves(m) \/ Refuse(m)
      PROVE  \E t \in MoverType : mover' = [mover EXCEPT ![m] = t]
  <2>1. ASSUME NEW o \in {"refused", "noop", "moved"}, Ends(m, o)
        PROVE  \E t \in MoverType : mover' = [mover EXCEPT ![m] = t]
    BY <1>1, <2>1, MoverTypes DEF Ends, Goes, Returns
  <2>2. CASE Begin(m)
    <3>1. NOW \in Nat
      BY NowIsLater
    <3> QED
      BY <1>1, <2>1, <2>2, <3>1, MoverTypes DEF Begin
  <2>3. CASE CommitDelete(m)
    BY <2>3, MoverTypes DEF CommitDelete, Returns
  <2>4. CASE Check(m)
    BY <1>1, <2>1, <2>4, MoverTypes DEF Check, Goes
  <2>5. CASE CommitMove(m) \/ MoveOfDeleted(m) \/ Refuse(m)
    BY <2>1, <2>5 DEF CommitMove, MoveOfDeleted, Refuse
  <2> QED
    BY <1>3, <2>2, <2>3, <2>4, <2>5 DEF Moves
<1>4. ASSUME NEW r \in Reapers, ClaimDueAction(r) \/ Mark(r) \/ Abandon(r)
      PROVE  \E t \in MoverType : mover' = [mover EXCEPT ![r] = t]
  BY <1>4, MoverTypes DEF ClaimDueAction, Due, PendingOf, Mark, Abandon, Returns
<1>5. ASSUME NEW p \in People,
             \/ \E w \in {"publish", "unpublish", "delete"} : Ask(p, w)
             \/ \E a \in Author : PutGate(p, a)
             \/ PutSnapshot(p) \/ PutInsert(p)
      PROVE  \E t \in MoverType : mover' = [mover EXCEPT ![p] = t]
  <2>0. mover[p] \in MoverType
    BY <1>1 DEF Movers
  <2>1. CASE \E w \in {"publish", "unpublish", "delete"} : Ask(p, w)
    BY <2>1, MoverTypes DEF Ask
  <2>2. CASE \E a \in Author : PutGate(p, a)
    BY <2>2, MoverTypes, PublicationAssumption DEF PutGate
  <2>3. CASE PutSnapshot(p)
    <3>1. PendingOf(Author) \in SUBSET Author
      BY DEF PendingOf
    <3>2. CASE Returns(p)
      BY <3>2, MoverTypes DEF Returns
    <3>3. CASE mover' = [mover EXCEPT ![p].at = "cancel", ![p].own = PendingOf(Author)]
      BY <1>1, <2>0, <3>1, <3>3, MoverTypes
    <3> QED
      BY <2>3, <3>2, <3>3 DEF PutSnapshot
  <2>4. CASE PutInsert(p)
    BY <2>4, MoverTypes DEF PutInsert, Returns
  <2> QED
    BY <1>5, <2>1, <2>2, <2>3, <2>4
<1>6. ASSUME NEW p \in People, PutCancel(p)
      PROVE  \E t \in MoverType : mover' = [mover EXCEPT ![p] = t]
  <2>1. mover[p] \in MoverType /\ mover[p].own \subseteq Author
    BY <1>1 DEF MoverType, Movers
  <2>2. PendingOf(mover[p].own) \in SUBSET Author
    BY <2>1 DEF PendingOf
  <2> QED
    BY <1>6, <2>1, <2>2, MoverTypes DEF PutCancel
<1>7. CASE mover' = mover
  BY <1>1, <1>7
<1>8. \/ mover' = mover
      \/ \E m \in Movers : \E t \in MoverType : mover' = [mover EXCEPT ![m] = t]
  BY <1>3, <1>4, <1>5, <1>6
  DEF Next, Reaps, Serves, Movers, LoseClaim, Schedule, Cancel, Restore, Tick
<1> QED
  BY <1>2, <1>7, <1>8

\* The types of everything but the movers, and every step keeps the types.
Rest ==
  /\ state \in {"wip", "published"} /\ deleted \in BOOLEAN
  /\ row \in [Actions -> {"absent", "pending", "done", "failed", "cancelled"}]
  /\ lock \in [Actions -> Movers \cup {Nobody}]
  /\ clock \in Nat /\ moves \in 0..MaxMoves /\ mishaps \in 0..MaxMishaps
  /\ word \in [says : {"Create", "Delete"}, stamp : Nat]
  /\ overtaken \in BOOLEAN /\ restored \in BOOLEAN
  /\ fired \subseteq Actions /\ strayed \subseteq Actions

LEMMA TypeStep ==
  ASSUME TypeOK, Next
  PROVE  TypeOK'
<1>1. Cardinality(PendingOf(Author)') <= 1
  BY OnePendingStep
<1>2. mover' \in [Movers -> MoverType]
  BY MoverTypeStep
<1>types. Rest /\ mover \in [Movers -> MoverType]
  BY DEF TypeOK, Rest, MoverType, Phases, Moving
<1> USE <1>types, PublicationAssumption DEF Rest
<1>says. ASSUME NEW m \in Movers, NEW what \in {"Create", "Delete"}, Says(m, what)
      PROVE  /\ word' \in [says : {"Create", "Delete"}, stamp : Nat]
             /\ overtaken' \in BOOLEAN /\ restored' \in BOOLEAN
  <2>1. mover[m].stamp \in Nat
    BY DEF MoverType
  <2>2. word' \in [says : {"Create", "Delete"}, stamp : Nat]
    BY <1>says, <2>1 DEF Says
  <2>3. overtaken' = TRUE \/ overtaken' = FALSE
    <3>1. word.stamp \in Nat
      OBVIOUS
    <3> QED
      BY <1>says, <2>1, <3>1, SMT DEF Says
  <2> QED
    BY <1>says, <2>2, <2>3 DEF Says
<1>3. ASSUME NEW m \in Movers, Check(m) \/ MoveOfDeleted(m) \/ Refuse(m)
      PROVE  Rest'
  BY <1>3 DEF Check, MoveOfDeleted, Refuse, Ends, Goes, Returns, Idle, At,
     Mishap, postVars, rowVars, budgets
<1>4. ASSUME NEW m \in Movers, Begin(m)
      PROVE  Rest'
  BY <1>4 DEF Begin, Ends, Goes, Returns, Idle, postVars, rowVars, budgets
<1>5. ASSUME NEW m \in Movers, CommitMove(m)
      PROVE  Rest'
  BY <1>5, <1>says DEF CommitMove, Tells, Target, rowVars, budgets
<1>6. ASSUME NEW m \in Movers, CommitDelete(m)
      PROVE  Rest'
  BY <1>6, <1>says DEF CommitDelete, Tells, rowVars, budgets
<1>7. ASSUME NEW p \in People, NEW w \in {"publish", "unpublish", "delete"}, Ask(p, w)
      PROVE  Rest'
  BY <1>7 DEF Ask, Request, Smooth, Idle, postVars, rowVars, Movers
<1>8. ASSUME NEW p \in People, NEW a \in Author, PutGate(p, a)
      PROVE  Rest'
  BY <1>8 DEF PutGate, Request, Smooth, Idle, postVars, rowVars, Movers
<1>9. ASSUME NEW p \in People, PutSnapshot(p)
      PROVE  Rest'
  BY <1>9 DEF PutSnapshot, Returns, Idle, PendingOf, postVars, rowVars, budgets, Movers
<1>10. ASSUME NEW p \in People, PutCancel(p)
       PROVE  Rest'
  BY <1>10 DEF PutCancel, PendingOf, postVars, budgets, Movers
<1>11. ASSUME NEW p \in People, PutInsert(p)
       PROVE  Rest'
  BY <1>11 DEF PutInsert, Unlocked, Returns, Idle, Smooth, Mishap, postVars, Movers
<1>12. ASSUME NEW r \in Reapers, ClaimDueAction(r)
       PROVE  Rest'
  BY <1>12 DEF ClaimDueAction, Due, PendingOf, Idle, postVars, budgets, Movers
<1>13. ASSUME NEW r \in Reapers, Mark(r)
       PROVE  Rest'
  BY <1>13, Outcomes DEF Mark, Holds, MarkRow, Unlocked, Returns, Idle, postVars, budgets, Movers
<1>14. ASSUME NEW r \in Reapers, Abandon(r)
       PROVE  Rest'
  BY <1>14 DEF Abandon, Mishap, Unlocked, Returns, Idle, postVars, Movers
<1>15. ASSUME NEW r \in Reapers, LoseClaim(r)
       PROVE  Rest'
  <2>1. mover[r].act \in Actions
    BY <1>15 DEF LoseClaim, Holds, MoverType, Movers
  <2>2. strayed' \subseteq Actions
    BY <1>15, <2>1 DEF LoseClaim
  <2>3. lock' \in [Actions -> Movers \cup {Nobody}]
    BY <1>15 DEF LoseClaim, Unlocked
  <2>4. mishaps' \in 0..MaxMishaps
    BY <1>15 DEF LoseClaim, Mishap
  <2> QED
    BY <1>15, <2>2, <2>3, <2>4 DEF LoseClaim, postVars
<1>16. ASSUME NEW a \in Actions, Schedule(a) \/ Cancel(a)
       PROVE  Rest'
  BY <1>16 DEF Schedule, Cancel, postVars, budgets
<1>17. ASSUME Restore PROVE Rest'
  BY <1>17 DEF Restore, rowVars, budgets
<1>17a. ASSUME Tick PROVE Rest'
  BY <1>17a DEF Tick, postVars, budgets
<1>18. Rest'
  BY <1>3, <1>4, <1>5, <1>6, <1>7, <1>8, <1>9, <1>10, <1>11, <1>12, <1>13, <1>14,
     <1>15, <1>16, <1>17, <1>17a
  DEF Next, Reaps, Serves, Moves, Movers
<1> QED
  BY <1>1, <1>2, <1>18 DEF TypeOK, Rest, MoverType, Phases, Moving

-----------------------------------------------------------------------------
(* Claims.                                                                 *)

\* A step of a move changes nothing of the mover but how far it is.
LEMMA MoveKeeps ==
  ASSUME TypeOK, ClaimInv, NEW m \in Movers, Moves(m) \/ Refuse(m)
  PROVE  /\ \A n \in Movers \ {m} : mover'[n] = mover[n]
         /\ UNCHANGED rowVars
         /\ mover[m].at \in Moving
         /\ m \in Reapers => /\ mover'[m].act = mover[m].act
                             /\ mover'[m].wants = mover[m].wants
                             /\ mover'[m].at \in {"begin", "write"} \cup DOMAIN Outcome
         /\ m \in People => \/ mover'[m] = Idle
                            \/ /\ mover'[m].act = mover[m].act
                               /\ mover'[m].at \in {"begin", "write"}
<1> USE Outcomes
<1>1. mover \in [Movers -> MoverType]
  BY DEF TypeOK, MoverType, Phases, Moving
<1>2. mover[m].at \in Moving /\ UNCHANGED rowVars
  BY DEF Moves, Check, Begin, CommitMove, MoveOfDeleted, CommitDelete, Refuse, At,
     Moving, rowVars
<1>3. Reapers \cap People = {}
  BY PublicationAssumption
<1>4. ASSUME NEW o \in DOMAIN Outcome, Ends(m, o)
      PROVE  /\ \A n \in Movers \ {m} : mover'[n] = mover[n]
             /\ m \in Reapers => /\ mover'[m].act = mover[m].act
                                 /\ mover'[m].wants = mover[m].wants
                                 /\ mover'[m].at = o
             /\ m \in People => mover'[m] = Idle
  BY <1>1, <1>3, <1>4 DEF Ends, Goes, Returns, MoverType
<1>5. CASE Check(m)
  BY <1>1, <1>2, <1>4, <1>5 DEF Check, Goes, MoverType
<1>6. CASE Begin(m)
  BY <1>1, <1>2, <1>4, <1>6 DEF Begin, MoverType
<1>7. CASE CommitMove(m) \/ MoveOfDeleted(m) \/ Refuse(m)
  BY <1>2, <1>4, <1>7 DEF CommitMove, MoveOfDeleted, Refuse
<1>8. CASE CommitDelete(m)
  <2>1. m \notin Reapers
    BY <1>8 DEF CommitDelete, ClaimInv, Claimed, At
  <2> QED
    BY <1>1, <1>2, <1>8, <2>1 DEF CommitDelete, Returns
<1> QED
  BY <1>5, <1>6, <1>7, <1>8 DEF Moves

LEMMA ClaimedStep ==
  ASSUME TypeOK, ClaimInv, Next, NEW r \in Reapers
  PROVE  Claimed(r)'
<1> USE Outcomes DEF Movers, At
<1>1. mover \in [Movers -> MoverType] /\ Claimed(r)
  BY DEF TypeOK, ClaimInv, MoverType, Phases, Moving
<1>2. /\ Reapers \cap People = {} /\ Nobody \notin Reapers \cup People
      /\ Author \subseteq Actions
      /\ lock \in [Actions -> Movers \cup {Nobody}]
      /\ row \in [Actions -> {"absent", "pending", "done", "failed", "cancelled"}]
  BY PublicationAssumption DEF TypeOK
\* The reaper stays, and the row it holds.
<1> DEFINE Stays ==
      /\ mover'[r] = mover[r] /\ strayed \subseteq strayed'
      /\ \A a \in Actions : lock[a] = r /\ row[a] = "pending"
                              => lock'[a] = r /\ row'[a] = "pending"
<1>3. Stays => Claimed(r)'
  BY <1>1 DEF Claimed
<1>4. ASSUME NEW m \in Movers, Moves(m) \/ Refuse(m)
      PROVE  Claimed(r)'
  <2>1. CASE m = r
    BY <1>1, <1>4, <2>1, MoveKeeps DEF Claimed, rowVars, Moving
  <2>2. CASE m # r
    BY <1>3, <1>4, <2>2, MoveKeeps DEF rowVars
  <2> QED
    BY <2>1, <2>2
<1>5. ASSUME NEW s \in Reapers, ClaimDueAction(s)
      PROVE  Claimed(r)'
  <2>1. PICK a \in Due :
          /\ lock' = [lock EXCEPT ![a] = s]
          /\ mover' = [mover EXCEPT ![s] = [Idle EXCEPT !.at = "check", !.act = a,
                         !.wants = IF a \in Publishes THEN "publish" ELSE "unpublish"]]
    BY <1>5 DEF ClaimDueAction
  <2>2. a \in Actions /\ row[a] = "pending" /\ lock[a] = Nobody
    BY DEF Due, PendingOf, Free
  <2>3. row' = row /\ strayed' = strayed
    BY <1>5 DEF ClaimDueAction
  <2>4. CASE s = r
    <3>1. /\ mover'[r].at = "check" /\ mover'[r].act = a
          /\ mover'[r].wants = IF a \in Publishes THEN "publish" ELSE "unpublish"
      BY <1>1, <2>1, <2>4 DEF Idle
    <3> QED
      BY <1>2, <2>1, <2>2, <2>3, <2>4, <3>1 DEF Claimed, Moving
  <2>5. CASE s # r
    BY <1>1, <1>2, <1>3, <2>1, <2>2, <2>3, <2>5
  <2> QED
    BY <2>4, <2>5
<1>6. ASSUME NEW s \in Reapers, Mark(s) \/ Abandon(s)
      PROVE  Claimed(r)'
  <2>1. CASE s = r
    BY <1>1, <1>6, <2>1 DEF Mark, Abandon, Returns, Claimed, Idle
  <2>2. CASE s # r
    <3>1. mover'[r] = mover[r] /\ strayed' = strayed
      BY <1>1, <1>6, <2>2 DEF Mark, Abandon, Returns
    <3>2. \A a \in Actions : lock[a] = r => lock'[a] = r /\ row'[a] = row[a]
      BY <1>2, <1>6, <2>2 DEF Mark, Abandon, Unlocked, Holds, MarkRow
    <3> QED
      BY <1>3, <3>1, <3>2
  <2> QED
    BY <2>1, <2>2
<1>7. ASSUME NEW s \in Reapers, LoseClaim(s)
      PROVE  Claimed(r)'
  <2>1. CASE s = r
    BY <1>1, <1>7, <2>1 DEF LoseClaim, Claimed
  <2>2. CASE s # r
    BY <1>2, <1>3, <1>7, <2>2 DEF LoseClaim, Unlocked
  <2> QED
    BY <2>1, <2>2
<1>8. ASSUME NEW p \in People,
             \/ \E w \in {"publish", "unpublish", "delete"} : Ask(p, w)
             \/ \E a \in Author : PutGate(p, a)
             \/ PutSnapshot(p)
      PROVE  Claimed(r)'
  BY <1>1, <1>2, <1>3, <1>8 DEF Ask, PutGate, PutSnapshot, Returns, rowVars
<1>9. ASSUME NEW p \in People, PutCancel(p)
      PROVE  Claimed(r)'
  <2>1. mover'[r] = mover[r] /\ strayed' = strayed /\ row' = row
    BY <1>1, <1>2, <1>9 DEF PutCancel
  <2>2. \A a \in Actions : lock[a] = r => lock'[a] = r
    BY <1>2, <1>9 DEF PutCancel, PendingOf, Free
  <2> QED
    BY <1>3, <2>1, <2>2
<1>10. ASSUME NEW p \in People, PutInsert(p)
       PROVE  Claimed(r)'
  <2>1. mover'[r] = mover[r] /\ strayed' = strayed
    BY <1>1, <1>2, <1>10 DEF PutInsert, Returns
  <2>2. \A a \in Actions : lock[a] = r => lock'[a] = r
    BY <1>2, <1>10 DEF PutInsert, Unlocked
  <2>3. \A a \in Actions : lock[a] = r => a \notin mover[p].own
    BY <1>2, <1>10 DEF PutInsert, ClaimInv, Asked
  <2>4. \A a \in Actions : lock[a] = r /\ row[a] = "pending" => row'[a] = "pending"
    BY <1>10, <2>3 DEF PutInsert
  <2> QED
    BY <1>3, <2>1, <2>2, <2>4
<1>11. ASSUME NEW a \in Actions, Schedule(a) \/ Cancel(a)
       PROVE  Claimed(r)'
  BY <1>2, <1>3, <1>11 DEF Schedule, Cancel, Free
<1>12. CASE Restore \/ Tick
  BY <1>3, <1>12 DEF Restore, Tick, rowVars
<1> QED
  BY <1>4, <1>5, <1>6, <1>7, <1>8, <1>9, <1>10, <1>11, <1>12
  DEF Next, Reaps, Serves

LEMMA AskedStep ==
  ASSUME TypeOK, ClaimInv, Next, NEW p \in People
  PROVE  Asked(p)'
<1> USE Outcomes DEF Movers, At
<1>1. mover \in [Movers -> MoverType] /\ Asked(p)
  BY DEF TypeOK, ClaimInv, MoverType, Phases, Moving
<1>2. /\ Reapers \cap People = {} /\ Nobody \notin Reapers \cup People
      /\ Author \subseteq Actions /\ mover[p].own \subseteq Author
      /\ lock \in [Actions -> Movers \cup {Nobody}]
  BY <1>1, PublicationAssumption DEF TypeOK, MoverType
\* The person stays, and the rows it holds.
<1> DEFINE Stays == /\ mover'[p] = mover[p]
                    /\ \A a \in Actions : lock[a] = p => lock'[a] = p
<1>3. Stays => Asked(p)'
  BY <1>1, <1>2 DEF Asked
<1>4. ASSUME NEW m \in Movers, Moves(m) \/ Refuse(m)
      PROVE  Asked(p)'
  <2>1. CASE m = p
    BY <1>1, <1>4, <2>1, MoveKeeps DEF Asked, Moving, Idle
  <2>2. CASE m # p
    BY <1>3, <1>4, <2>2, MoveKeeps DEF rowVars
  <2> QED
    BY <2>1, <2>2
<1>5. ASSUME NEW s \in Reapers, ClaimDueAction(s)
      PROVE  Asked(p)'
  BY <1>1, <1>2, <1>3, <1>5 DEF ClaimDueAction, Due, PendingOf, Free
<1>6. ASSUME NEW s \in Reapers, Mark(s) \/ Abandon(s) \/ LoseClaim(s)
      PROVE  Asked(p)'
  BY <1>1, <1>2, <1>3, <1>6 DEF Mark, Abandon, LoseClaim, Returns, Unlocked
<1>7. ASSUME NEW q \in People,
             \/ \E w \in {"publish", "unpublish", "delete"} : Ask(q, w)
             \/ \E a \in Author : PutGate(q, a)
             \/ PutSnapshot(q)
      PROVE  Asked(p)'
  <2>1. lock' = lock
    BY <1>7 DEF Ask, PutGate, PutSnapshot, rowVars
  <2>2. CASE q = p
    <3>1. CASE \E w \in {"publish", "unpublish", "delete"} : Ask(q, w)
      BY <1>1, <2>2, <3>1 DEF Ask, Asked, Idle
    <3>2. CASE \E a \in Author : PutGate(q, a)
      BY <1>1, <2>2, <3>2 DEF PutGate, Asked, Idle, Moving
    <3>3. CASE PutSnapshot(q)
      <4>1. mover[p] \in MoverType
        BY <1>1
      <4>2. mover'[p].at \in {"idle", "cancel"}
        BY <1>1, <2>2, <3>3, <4>1 DEF PutSnapshot, Returns, Idle, MoverType
      <4> QED
        BY <4>2 DEF Asked, Moving
    <3> QED
      BY <1>7, <3>1, <3>2, <3>3
  <2>3. CASE q # p
    BY <1>1, <1>3, <1>7, <2>1, <2>3 DEF Ask, PutGate, PutSnapshot, Returns
  <2> QED
    BY <2>2, <2>3
<1>8. ASSUME NEW q \in People, PutCancel(q)
      PROVE  Asked(p)'
  <2>1. CASE q = p
    <3>1. mover'[p].at = "insert" /\ mover'[p].own = PendingOf(mover[p].own)
      <4>1. PutCancel(p) /\ mover[p] \in MoverType
        BY <1>1, <1>8, <2>1
      <4>2. mover'[p] = [mover[p] EXCEPT !.at = "insert", !.own = PendingOf(mover[p].own)]
        BY <1>1, <4>1 DEF PutCancel
      <4> QED
        BY <4>1, <4>2 DEF MoverType
    <3>2. \A b \in PendingOf(mover[p].own) : lock'[b] = p
      BY <1>2, <1>8, <2>1 DEF PutCancel, PendingOf
    <3> QED
      BY <3>1, <3>2 DEF Asked, Moving
  <2>2. CASE q # p
    BY <1>1, <1>2, <1>3, <1>8, <2>2 DEF PutCancel, PendingOf, Free
  <2> QED
    BY <2>1, <2>2
<1>9. ASSUME NEW q \in People, PutInsert(q)
      PROVE  Asked(p)'
  <2>1. CASE q = p
    BY <1>1, <1>9, <2>1 DEF PutInsert, Returns, Asked, Idle
  <2>2. CASE q # p
    BY <1>1, <1>3, <1>9, <2>2 DEF PutInsert, Returns, Unlocked
  <2> QED
    BY <2>1, <2>2
<1>10. CASE Restore \/ Tick \/ \E a \in Actions : Schedule(a) \/ Cancel(a)
  BY <1>3, <1>10 DEF Restore, Tick, Schedule, Cancel, rowVars
<1> QED
  BY <1>4, <1>5, <1>6, <1>7, <1>8, <1>9, <1>10 DEF Next, Reaps, Serves

-----------------------------------------------------------------------------
(* The post and the last word.                                             *)

\* Only Begin brings a mover to where it writes.
LEMMA WritersStood ==
  ASSUME TypeOK, ClaimInv, Next, NEW n \in Movers, mover'[n].at = "write"
  PROVE  mover'[n] = mover[n] \/ Begin(n)
<1> USE Outcomes
<1>1. mover \in [Movers -> MoverType] /\ mover[n] \in MoverType /\ Reapers \cap People = {}
  BY PublicationAssumption DEF TypeOK, MoverType, Phases, Moving
<1>2. ASSUME NEW m \in Movers, Moves(m) \/ Refuse(m)
      PROVE  mover'[n] = mover[n] \/ Begin(n)
  <2>1. CASE m # n
    BY <1>2, <2>1, MoveKeeps
  <2>2. CASE m = n
    <3>1. ASSUME NEW o \in DOMAIN Outcome, Ends(n, o)
          PROVE  FALSE
      BY <1>1, <3>1 DEF Ends, Goes, Returns, Idle, MoverType
    <3>2. ~CommitDelete(n)
      BY <1>1 DEF CommitDelete, Returns, Idle, MoverType
    <3>3. ~Check(n)
      BY <1>1, <3>1 DEF Check, Goes, MoverType
    <3> QED
      BY <1>2, <2>2, <3>1, <3>2, <3>3 DEF Moves, CommitMove, MoveOfDeleted, Refuse
  <2> QED
    BY <2>1, <2>2
<1>3. ASSUME NEW r \in Reapers,
             ClaimDueAction(r) \/ Mark(r) \/ Abandon(r) \/ LoseClaim(r)
      PROVE  mover'[n] = mover[n]
  <2>1. CASE r = n
    <3>1. CASE ClaimDueAction(r)
      BY <1>1, <2>1, <3>1 DEF ClaimDueAction, Idle
    <3>2. CASE Mark(r) \/ Abandon(r) \/ LoseClaim(r)
      BY <1>1, <2>1, <3>2 DEF Mark, Abandon, LoseClaim, Returns, Idle
    <3> QED
      BY <1>3, <3>1, <3>2
  <2>2. CASE r # n
    BY <1>1, <1>3, <2>2 DEF ClaimDueAction, Mark, Abandon, LoseClaim, Returns
  <2> QED
    BY <2>1, <2>2
<1>4. ASSUME NEW p \in People,
             \/ \E w \in {"publish", "unpublish", "delete"} : Ask(p, w)
             \/ \E a \in Author : PutGate(p, a)
             \/ PutSnapshot(p) \/ PutCancel(p) \/ PutInsert(p)
      PROVE  mover'[n] = mover[n]
  <2>1. CASE p = n
    <3>1. CASE \E w \in {"publish", "unpublish", "delete"} : Ask(p, w)
      BY <1>1, <2>1, <3>1 DEF Ask, Idle
    <3>2. CASE \E a \in Author : PutGate(p, a)
      BY <1>1, <2>1, <3>2 DEF PutGate, Idle
    <3>3. CASE PutSnapshot(p)
      BY <1>1, <2>1, <3>3 DEF PutSnapshot, Returns, Idle, MoverType
    <3>4. CASE PutCancel(p)
      BY <1>1, <2>1, <3>4 DEF PutCancel, MoverType
    <3>5. CASE PutInsert(p)
      BY <1>1, <2>1, <3>5 DEF PutInsert, Returns, Idle
    <3> QED
      BY <1>4, <3>1, <3>2, <3>3, <3>4, <3>5
  <2>2. CASE p # n
    BY <1>1, <1>4, <2>2 DEF Ask, PutGate, PutSnapshot, PutCancel, PutInsert, Returns
  <2> QED
    BY <2>1, <2>2
<1>5. ASSUME Restore \/ Tick \/ \E a \in Actions : Schedule(a) \/ Cancel(a)
      PROVE  mover' = mover
  BY <1>5 DEF Restore, Tick, Schedule, Cancel
<1> QED
  BY <1>2, <1>3, <1>4, <1>5 DEF Next, Reaps, Serves, Movers

\* Only the commits change the word, the state and what fired.
LEMMA OnlyCommits ==
  ASSUME Next
  PROVE  \/ /\ UNCHANGED <<state, word, overtaken, fired>>
            /\ UNCHANGED <<deleted, restored>> \/ restored' = TRUE
         \/ \E m \in Movers : CommitMove(m) \/ CommitDelete(m)
BY DEF Next, Reaps, Serves, Moves, Check, Begin, MoveOfDeleted, Refuse,
   ClaimDueAction, Mark, Abandon, LoseClaim, PutSnapshot, PutCancel, PutInsert,
   Ask, PutGate, Schedule, Cancel, Restore, Tick, postVars, Movers

LEMMA StampStep ==
  ASSUME TypeOK, ClaimInv, StampsDiffer, Next
  PROVE  StampsDiffer'
<1> USE DEF At
<1>1. /\ mover \in [Movers -> MoverType]
      /\ word \in [says : {"Create", "Delete"}, stamp : Nat]
  BY DEF TypeOK, MoverType, Phases, Moving
<1>2. \A n \in Movers : mover[n].stamp \in Nat
  BY <1>1 DEF MoverType
<1>3. ASSUME NEW m \in Movers, CommitMove(m) \/ CommitDelete(m)
      PROVE  /\ mover'[m].at # "write"
             /\ \A n \in Movers \ {m} : mover'[n] = mover[n]
             /\ word'.stamp \in {word.stamp, mover[m].stamp}
             /\ mover[m].at = "write"
  <2>1. mover[m] \in MoverType
    BY <1>1
  <2>2. mover' = [mover EXCEPT ![m].at = "moved"] \/ mover' = [mover EXCEPT ![m] = Idle]
    BY <1>3 DEF CommitMove, CommitDelete, Ends, Goes, Returns
  <2>3. mover'[m].at # "write" /\ \A n \in Movers \ {m} : mover'[n] = mover[n]
    BY <1>1, <2>1, <2>2 DEF Idle, MoverType
  <2>4. \E what \in {"Create", "Delete"} : Says(m, what)
    BY <1>3 DEF CommitMove, CommitDelete, Tells
  <2>5. word'.stamp \in {word.stamp, mover[m].stamp}
    BY <1>1, <2>4 DEF Says
  <2> QED
    BY <1>3, <2>3, <2>5 DEF CommitMove, CommitDelete
<1>4. CASE \E m \in Movers : CommitMove(m) \/ CommitDelete(m)
  <2>1. PICK m \in Movers : CommitMove(m) \/ CommitDelete(m)
    BY <1>4
  <2>2. \A n \in Movers : mover'[n].at = "write" => n # m /\ mover'[n] = mover[n]
    BY <1>3, <2>1
  <2>3. word'.stamp \in {word.stamp, mover[m].stamp} /\ mover[m].at = "write"
    BY <1>3, <2>1
  <2> QED
    BY <2>2, <2>3 DEF StampsDiffer
<1>5. CASE word' = word
  <2>1. ASSUME NEW n \in Movers, Begin(n), mover'[n].at = "write"
        PROVE  /\ mover'[n].stamp = NOW
               /\ \A k \in Movers \ {n} : mover'[k] = mover[k]
    <3>1. mover[n] \in MoverType
      BY <1>1
    <3>2. ~Ends(n, "refused")
      BY <1>1, <2>1, <3>1 DEF Ends, Goes, Returns, Idle, MoverType
    <3>3. mover' = [mover EXCEPT ![n].at = "write", ![n].stamp = NOW]
      BY <2>1, <3>2 DEF Begin
    <3> QED
      BY <1>1, <3>1, <3>3 DEF MoverType
  <2>2. ASSUME NEW n \in Movers, Begin(n), mover'[n].at = "write"
        PROVE  StampsDiffer'
    <3>1. /\ mover'[n].stamp \in Nat /\ mover'[n].stamp > word.stamp
          /\ \A k \in Movers : mover'[n].stamp > mover[k].stamp
      BY <2>1, <2>2, NowIsLater
    <3>2. mover'[n].stamp # word.stamp /\ \A k \in Movers : mover'[n].stamp # mover[k].stamp
      BY <1>1, <1>2, <3>1
    <3> QED
      BY <1>5, <2>1, <2>2, <3>2 DEF StampsDiffer
  <2>3. CASE \A n \in Movers : mover'[n].at = "write" => mover'[n] = mover[n]
    BY <1>5, <2>3 DEF StampsDiffer
  <2> QED
    BY <2>2, <2>3, WritersStood
<1> QED
  BY <1>4, <1>5, OnlyCommits

\* After a commit, in order or overtaken, and after a restore.
LEMMA WordStep ==
  ASSUME TypeOK, ClaimInv, StampsDiffer, LastWordAgrees, Next
  PROVE  LastWordAgrees'
<1>1. /\ mover \in [Movers -> MoverType]
      /\ word \in [says : {"Create", "Delete"}, stamp : Nat]
  BY DEF TypeOK, MoverType, Phases, Moving
<1>2. \A n \in Movers : mover[n].stamp \in Nat
  BY <1>1 DEF MoverType
<1>3. ASSUME NEW m \in Movers, At(m, "write"), NEW what, Says(m, what)
      PROVE  word'.says = what \/ overtaken' = TRUE
  <2>1. mover[m].stamp # word.stamp /\ mover[m].stamp \in Nat /\ word.stamp \in Nat
    BY <1>1, <1>2, <1>3 DEF StampsDiffer
  <2>2. CASE mover[m].stamp > word.stamp
    BY <1>3, <2>2 DEF Says
  <2>3. CASE mover[m].stamp < word.stamp
    BY <1>3, <2>1, <2>3 DEF Says
  <2>4. mover[m].stamp > word.stamp \/ mover[m].stamp < word.stamp
    BY <2>1
  <2> QED
    BY <2>2, <2>3, <2>4
<1>4. ASSUME NEW m \in Movers, CommitMove(m)
      PROVE  LastWordAgrees'
  <2>1. CASE mover[m].wants = "publish"
    BY <1>3, <1>4, <2>1 DEF CommitMove, Tells, Target, LastWordAgrees
  <2>2. CASE mover[m].wants # "publish"
    BY <1>3, <1>4, <2>2 DEF CommitMove, Tells, Target, LastWordAgrees
  <2> QED
    BY <2>1, <2>2
<1>5. ASSUME NEW m \in Movers, CommitDelete(m)
      PROVE  LastWordAgrees'
  BY <1>3, <1>5 DEF CommitDelete, Tells, LastWordAgrees
<1>6. CASE /\ UNCHANGED <<state, word, overtaken, fired>>
           /\ UNCHANGED <<deleted, restored>> \/ restored' = TRUE
  BY <1>6 DEF LastWordAgrees
<1> QED
  BY <1>4, <1>5, <1>6, OnlyCommits

-----------------------------------------------------------------------------
(* What fired.                                                             *)

LEMMA CommitFires ==
  ASSUME TypeOK, ClaimInv, NEW m \in Movers, CommitMove(m)
  PROVE  /\ \A a \in fired' : a \in fired \/ (m \in Reapers /\ a = mover[m].act)
         /\ \A a \in fired' : (a \in Publishes) = (mover[m].wants = "publish")
<1>1. CASE m \in Reapers
  <2>1. mover[m].wants = IF mover[m].act \in Publishes THEN "publish" ELSE "unpublish"
    BY <1>1 DEF CommitMove, ClaimInv, Claimed, At
  <2> QED
    BY <1>1, <2>1 DEF CommitMove
<1>2. CASE m \in People
  <2>1. mover[m].act = 0 /\ 0 \notin Actions
    BY <1>2, PublicationAssumption DEF CommitMove, ClaimInv, Asked, At, Moving
  <2> QED
    BY <2>1 DEF CommitMove
<1> QED
  BY <1>1, <1>2 DEF Movers

LEMMA FiredStep ==
  ASSUME TypeOK, ClaimInv, FiredSound, Next
  PROVE  FiredSound'
<1>1. ASSUME NEW m \in Movers, CommitMove(m)
      PROVE  FiredSound'
  <2>1. \A a \in fired' : (a \in Publishes) = (mover[m].wants = "publish")
    BY <1>1, CommitFires
  <2>2. state' = IF mover[m].wants = "publish" THEN "published" ELSE "wip"
    BY <1>1 DEF CommitMove, Target
  <2> QED
    BY <2>1, <2>2 DEF FiredSound
<1>2. ASSUME UNCHANGED <<state, fired>>
      PROVE  FiredSound'
  BY <1>2 DEF FiredSound
<1> QED
  BY <1>1, <1>2, OnlyCommits DEF CommitDelete

LEMMA FirstStep ==
  ASSUME TypeOK, ClaimInv, FiredSound, Next, NEW r \in Reapers, FirstMove(r)
  PROVE  FirstMove(r)'
<1> SUFFICES ASSUME mover'[r].at = "write", mover'[r].act \notin strayed'
             PROVE  mover'[r].act \notin fired'
  BY DEF FirstMove, At
<1>1. strayed \subseteq strayed' /\ r \in Movers /\ 0 \notin Actions
  BY PublicationAssumption DEF Next, Reaps, Serves, Moves, Check, Begin, CommitMove, MoveOfDeleted,
     CommitDelete, Refuse, ClaimDueAction, Mark, Abandon, LoseClaim, PutSnapshot,
     PutCancel, PutInsert, Ask, PutGate, Schedule, Cancel, Restore, Tick, rowVars, Movers
<1>2. CASE Begin(r)
  <2>1. mover'[r].act = mover[r].act /\ fired' = fired
    BY <1>1, <1>2, MoveKeeps DEF Moves, Begin, postVars
  <2>2. /\ mover[r].wants = IF mover[r].act \in Publishes THEN "publish" ELSE "unpublish"
    BY <1>2 DEF Begin, ClaimInv, Claimed, At
  <2>3. ~Ends(r, "refused")
    <3>1. mover \in [Movers -> MoverType] /\ mover[r] \in MoverType
      BY <1>1 DEF TypeOK, MoverType, Phases, Moving
    <3> QED
      BY <1>1, <3>1 DEF Ends, Goes, MoverType
  <2>4. ~Already(r)
    BY <1>2, <2>2, <2>3 DEF Begin, Already
  <2>5. mover[r].act \notin fired
    BY <2>2, <2>4 DEF Already, Target, FiredSound
  <2> QED
    BY <2>1, <2>5
<1>3. CASE mover'[r] = mover[r]
  <2>1. mover[r].act \notin fired /\ mover[r].act \notin strayed /\ ~At(r, "idle")
    BY <1>1, <1>3 DEF FirstMove, At
  <2>2. lock[mover[r].act] = r
    BY <2>1 DEF ClaimInv, Claimed
  <2>3. ASSUME NEW m \in Movers, CommitMove(m), m \in Reapers, mover[m].act = mover[r].act
        PROVE  m = r
    BY <2>1, <2>2, <2>3 DEF CommitMove, ClaimInv, Claimed, At
  <2>4. ~CommitMove(r)
    <3>1. mover \in [Movers -> MoverType] /\ mover[r] \in MoverType
      BY <1>1 DEF TypeOK, MoverType, Phases, Moving
    <3> QED
      BY <1>1, <1>3, <3>1 DEF CommitMove, Ends, Goes, MoverType, At
  <2>5. ASSUME NEW m \in Movers, CommitMove(m)
        PROVE  mover[r].act \notin fired'
    BY <2>1, <2>3, <2>4, <2>5, CommitFires
  <2>6. fired' = fired \/ \E m \in Movers : CommitMove(m)
    BY OnlyCommits DEF CommitDelete
  <2> QED
    BY <1>3, <2>1, <2>5, <2>6
<1> QED
  BY <1>1, <1>2, <1>3, WritersStood

-----------------------------------------------------------------------------
(* Theorems.                                                               *)

LEMMA PubInductive ==
  /\ Init => PubInv /\ LastWordAgrees
  /\ PubInv /\ LastWordAgrees /\ [Next]_vars => (PubInv /\ LastWordAgrees)'
<1>1. ASSUME Init
      PROVE  PubInv /\ LastWordAgrees
  <2>1. PendingOf(Author) = {}
    BY <1>1, PublicationAssumption DEF Init, PendingOf
  <2>2. Cardinality(PendingOf(Author)) <= 1
    BY <2>1, FS_EmptySet
  <2>3. mover \in [Movers -> MoverType]
    BY <1>1, MoverTypes DEF Init
  <2>4. TypeOK
    <3>0. word \in [says : {"Create", "Delete"}, stamp : Nat]
      BY <1>1 DEF Init
    <3>a. /\ row \in [Actions -> {"absent", "pending", "done", "failed", "cancelled"}]
          /\ lock \in [Actions -> Movers \cup {Nobody}]
      BY <1>1 DEF Init
    <3>b. clock \in Nat /\ moves \in 0..MaxMoves /\ mishaps \in 0..MaxMishaps
      BY <1>1, PublicationAssumption DEF Init
    <3>1. Rest
      BY <1>1, <3>0, <3>a, <3>b DEF Init, Rest
    <3> QED
      BY <2>2, <2>3, <3>1 DEF Rest, TypeOK, MoverType, Phases, Moving
  <2>5. \A m \in Movers : mover[m].at = "idle"
    BY <1>1 DEF Init, Idle
  <2> QED
    BY <1>1, <2>4, <2>5, Outcomes DEF Init, PubInv, ClaimInv, Claimed, Asked, StampsDiffer,
       FiredSound, FirstMove, LastWordAgrees, At, Movers, Moving
<1>2. ASSUME PubInv, LastWordAgrees, Next
      PROVE  (PubInv /\ LastWordAgrees)'
  <2>1. TypeOK'
    BY <1>2, TypeStep DEF PubInv
  <2>2. ClaimInv'
    BY <1>2, ClaimedStep, AskedStep DEF PubInv, ClaimInv
  <2>3. StampsDiffer' /\ LastWordAgrees'
    BY <1>2, StampStep, WordStep DEF PubInv
  <2>4. FiredSound' /\ \A r \in Reapers : FirstMove(r)'
    BY <1>2, FiredStep, FirstStep DEF PubInv
  <2> QED
    BY <2>1, <2>2, <2>3, <2>4 DEF PubInv
<1>3. ASSUME PubInv, LastWordAgrees, UNCHANGED vars
      PROVE  (PubInv /\ LastWordAgrees)'
  BY <1>3 DEF vars, postVars, rowVars, budgets, PubInv, TypeOK, PendingOf, ClaimInv,
     Claimed, Asked, StampsDiffer, FiredSound, FirstMove, LastWordAgrees, At
<1> QED
  BY <1>1, <1>2, <1>3

\* The types hold, and the author has at most one pending instruction for the
\* post, however its requests to replace it cross each other and the reapers.
THEOREM PublicationTypeCorrect == Spec => []TypeOK
<1>1. PubInv => TypeOK
  BY DEF PubInv
<1> QED
  BY <1>1, PubInductive, PTL DEF Spec

\* What the peers were last told agrees with whether the post may be read.
THEOREM LastWord == Spec => []LastWordAgrees
BY PubInductive, PTL DEF Spec

\* An instruction moves the post once, and only while it is pending, unless its
\* claim was lost on the way.
THEOREM MovesOnce == Spec => FiresOnce
<1>1. PubInv => [\A r \in Reapers :
         (At(r, "write") /\ mover'[r].at = "moved" /\ mover[r].act \notin strayed) =>
           /\ row[mover[r].act] = "pending"
           /\ mover[r].act \notin fired]_vars
  BY DEF PubInv, ClaimInv, Claimed, FirstMove, At
<1> QED
  BY <1>1, PubInductive, PTL DEF Spec, FiresOnce
=============================================================================
