--------------------------- MODULE HandshakeProofs --------------------------
(***************************************************************************)
(* Pairing, for any finite set of instances and any bounds: a row is       *)
(* connected only if its administrator asked for it, keeps the placeholder *)
(* key only if both sides started, and has its capabilities unless         *)
(* something was cut short.                                                *)
(*                                                                         *)
(* None of the three is inductive: a handler writes by the id it read, so  *)
(* what it read must still be true of the row as long as the row has that  *)
(* id.  A row that is deleted and inserted again has a larger id, and a    *)
(* task's id is never ahead of the row's: a task that has lost its row     *)
(* never finds it again.                                                   *)
(***************************************************************************)
EXTENDS Handshake, FiniteSetTheorems, TLAPS

TypeInv == TypeOK /\ IsFiniteSet(tasks) /\ mishaps \in Nat

\* What every row's status says of its key and its history.
RowSound(r) ==
  /\ status[r] \in {"out", "connected"} => r \in intent
  /\ status[r] = "in" => key[r] = "real"
  /\ status[r] # "none" /\ key[r] = "placeholder" => r \in started
  /\ status[r] = "connected" /\ key[r] = "placeholder" => Back(r) \in started

\* What a handler knows, as long as its row has the id it read.
TaskSound(t) ==
  /\ t.id <= id[t.row]
  /\ t.next = "add" => t.saw = "none"
  /\ t.next = "connect" => t.saw = "out"
  /\ Exists(t) /\ (t.saw = "out" \/ t.next = "accept") => t.row \in intent
  /\ Exists(t) /\ t.next = "accept" => key[t.row] = "real"
  /\ t.next \in {"caps", "connect"} /\ t.saw = "out" => Back(t.row) \in started

\* Whoever sent an offer has started.
OfferSound(m) == m.kind = "offer" => Back(m.row) \in started

HandInv ==
  /\ TypeInv
  /\ \A r \in Pairs : RowSound(r)
  /\ \A t \in tasks : TaskSound(t)
  /\ \A m \in wire : OfferSound(m)

\* Until the first mishap: a row that waits or is connected has capabilities, was
\* entered by hand, belongs to a peer that names none, or has a handler that is
\* about to set them and that will find it.
RowNegotiated(r) ==
  status[r] \in {"in", "connected"} =>
    \/ r \in caps \/ r \in byHand \/ ~Advertises(r)
    \/ \E t \in tasks : t.row = r /\ t.next = "caps" /\ Exists(t)

TaskNegotiated(t) ==
  Exists(t) => /\ t.next = "connect" => t.row \in caps \/ ~Advertises(t.row)
               /\ t.next = "accept" => status[t.row] \in {"in", "connected"}

\* Nobody is taken as negotiated who named nothing.
NamedInv ==
  /\ \A r \in caps : Advertises(r)
  /\ \A t \in tasks : t.next = "caps" => Advertises(t.row)

CapsInv ==
  mishaps = 0 => /\ \A r \in Pairs : RowNegotiated(r)
                 /\ \A t \in tasks : TaskNegotiated(t)

-----------------------------------------------------------------------------
\* The release an instance runs is fixed.
LEMMA SameReleases ==
  ASSUME [Next]_vars
  PROVE  legacy' = legacy /\ \A r : Advertises(r)' = Advertises(r)
<1>1. legacy' = legacy
  BY DEF Next, vars, ghosts, InitiateOffer, CreateFederationPeer,
    AcceptFederationPeer, DeleteFederationPeer, Receive, Lose, Crash, Runs,
    AddInbound, SetCapabilities, CrossOffer, CompleteOutbound, AcceptInbound
<1> QED
  BY <1>1 DEF Advertises

LEMMA BackType ==
  \A r \in Pairs : Back(r) \in Pairs /\ Back(Back(r)) = r
BY DEF Pairs, Back

\* One task more, or one replaced or gone.
LEMMA OneMore ==
  ASSUME NEW S, IsFiniteSet(S), Cardinality(S) < MaxTasks, NEW x
  PROVE  IsFiniteSet(S \cup {x}) /\ Cardinality(S \cup {x}) <= MaxTasks
<1>1. Cardinality(S) \in Nat /\ MaxTasks \in Nat
  BY FS_CardinalityType, HandshakeAssumption
<1>2. /\ IsFiniteSet(S \cup {x})
      /\ Cardinality(S \cup {x}) \in {Cardinality(S), Cardinality(S) + 1}
  BY FS_AddElement
<1> QED
  BY <1>1, <1>2

LEMMA OneLess ==
  ASSUME NEW S, IsFiniteSet(S), Cardinality(S) <= MaxTasks, NEW y \in S
  PROVE  /\ IsFiniteSet(S \ {y}) /\ Cardinality(S \ {y}) <= MaxTasks
         /\ \A x : /\ IsFiniteSet((S \ {y}) \cup {x})
                   /\ Cardinality((S \ {y}) \cup {x}) <= MaxTasks
<1>1. Cardinality(S) \in Nat /\ Cardinality(S \ {y}) \in Nat /\ MaxTasks \in Nat
  BY FS_CardinalityType, FS_RemoveElement, HandshakeAssumption
<1>2. IsFiniteSet(S \ {y}) /\ Cardinality(S \ {y}) = Cardinality(S) - 1
  BY FS_RemoveElement
<1>3. Cardinality(S \ {y}) < MaxTasks
  BY <1>1, <1>2
<1>4. ASSUME NEW R, R = S \ {y}, NEW x
      PROVE  IsFiniteSet(R \cup {x}) /\ Cardinality(R \cup {x}) <= MaxTasks
  BY <1>2, <1>3, <1>4, OneMore
<1> QED
  BY <1>1, <1>2, <1>3, <1>4

-----------------------------------------------------------------------------
(* Types.                                                                  *)

\* A new row, with its next id.
LEMMA InsertType ==
  ASSUME TypeOK, NEW r \in Pairs, status[r] = "none", id[r] < MaxId,
         NEW s \in {"out", "in", "connected"}, NEW k \in {"placeholder", "real"},
         InsertRow(r, s, k)
  PROVE  /\ status' \in [Pairs -> {"none", "out", "in", "connected"}]
         /\ key' \in [Pairs -> {"placeholder", "real"}]
         /\ caps' \subseteq Pairs /\ \A q \in caps' : status'[q] # "none"
         /\ id' \in [Pairs -> 0..MaxId]
BY HandshakeAssumption DEF InsertRow, TypeOK

LEMMA TypeStep == TypeInv /\ [Next]_vars => TypeInv'
<1> SUFFICES ASSUME TypeInv, [Next]_vars PROVE TypeInv'
  OBVIOUS
<1>0. legacy' = legacy
  BY SameReleases
<1>l. ASSUME NEW t \in tasks
      PROVE  /\ IsFiniteSet(tasks \ {t}) /\ Cardinality(tasks \ {t}) <= MaxTasks
             /\ \A x : /\ IsFiniteSet((tasks \ {t}) \cup {x})
                       /\ Cardinality((tasks \ {t}) \cup {x}) <= MaxTasks
  BY OneLess DEF TypeInv, TypeOK
<1> USE HandshakeAssumption, BackType, <1>0 DEF TypeInv
<1>1. ASSUME NEW r \in Pairs, InitiateOffer(r) PROVE TypeInv'
  <2>1. wire' \subseteq Envelope
    BY <1>1 DEF InitiateOffer, Envelope, TypeOK
  <2> QED
    BY <1>1, <2>1, InsertType DEF InitiateOffer, TypeOK
<1>2. ASSUME NEW r \in Pairs, CreateFederationPeer(r) PROVE TypeInv'
  BY <1>2, InsertType DEF CreateFederationPeer, TypeOK
<1>3. ASSUME NEW r \in Pairs, AcceptFederationPeer(r) PROVE TypeInv'
  <2> DEFINE t == [row |-> r, id |-> id[r], next |-> "accept", saw |-> "in"]
  <2>1. t \in Task
    BY DEF Task, TypeOK
  <2> HIDE DEF t
  <2>2. tasks' = tasks \cup {t} /\ Cardinality(tasks) < MaxTasks
    BY <1>3 DEF AcceptFederationPeer, t
  <2>3. IsFiniteSet(tasks') /\ Cardinality(tasks') <= MaxTasks
    BY <2>2, OneMore
  <2> QED
    BY <1>3, <2>1, <2>2, <2>3 DEF AcceptFederationPeer, TypeOK, rowVars
<1>4. ASSUME NEW r \in Pairs, DeleteFederationPeer(r) PROVE TypeInv'
  BY <1>4 DEF DeleteFederationPeer, Mishap, TypeOK
<1>5. ASSUME NEW m \in wire, Receive(m) PROVE TypeInv'
  <2> DEFINE t(n) == [row |-> m.row, id |-> id[m.row], next |-> n, saw |-> status[m.row]]
  <2>1. /\ Cardinality(tasks) < MaxTasks
        /\ wire' = wire \ {m}
        /\ \/ tasks' = tasks
           \/ \E n \in {"add", "caps", "connect", "complete"} : tasks' = tasks \cup {t(n)}
        /\ UNCHANGED <<rowVars, ghosts, mishaps>>
    BY <1>5 DEF Receive
  <2>2. \A n \in {"add", "caps", "connect", "complete"} : t(n) \in Task
    BY DEF TypeOK, Envelope, Task
  <2> HIDE DEF t
  <2>3. IsFiniteSet(tasks') /\ Cardinality(tasks') <= MaxTasks
    <3>1. CASE tasks' = tasks
      BY <3>1 DEF TypeOK
    <3>2. ASSUME NEW n, tasks' = tasks \cup {t(n)}
          PROVE  IsFiniteSet(tasks') /\ Cardinality(tasks') <= MaxTasks
      <4>1. \A x : /\ IsFiniteSet(tasks \cup {x})
                   /\ Cardinality(tasks \cup {x}) <= MaxTasks
        BY <2>1, OneMore
      <4> QED
        BY <3>2, <4>1
    <3> QED
      BY <2>1, <3>1, <3>2
  <2> QED
    BY <2>1, <2>2, <2>3 DEF TypeOK, rowVars
<1>6. ASSUME NEW t \in tasks, AddInbound(t) PROVE TypeInv'
  <2>1. t \in Task
    BY DEF TypeOK
  <2>2. CASE status[t.row] = "none"
    <3>1. \/ tasks' = (tasks \ {t}) \cup {[t EXCEPT !.next = "caps", !.id = id[t.row] + 1]}
          \/ tasks' = tasks \ {t}
      BY <1>6, <2>2 DEF AddInbound, Goes, Ends
    <3>2. [t EXCEPT !.next = "caps", !.id = id[t.row] + 1] \in Task
      <4>1. id[t.row] < MaxId /\ t.row \in Pairs
        BY <1>6, <2>1, <2>2 DEF AddInbound, Task
      <4>2. id[t.row] + 1 \in 0..MaxId
        BY <4>1 DEF TypeOK
      <4> QED
        BY <2>1, <4>2 DEF Task
    <3>3. IsFiniteSet(tasks') /\ Cardinality(tasks') <= MaxTasks
      BY <1>l, <3>1
    <3> QED
      BY <1>6, <2>1, <2>2, <3>1, <3>2, <3>3, InsertType DEF AddInbound, Task, TypeOK
  <2>3. CASE status[t.row] # "none"
    BY <1>6, <2>3, OneLess DEF AddInbound, Ends, TypeOK, rowVars
  <2> QED
    BY <2>2, <2>3
<1>7. ASSUME NEW t \in tasks, SetCapabilities(t) PROVE TypeInv'
  <2>1. t \in Task
    BY DEF TypeOK
  <2>2. caps' \subseteq Pairs /\ \A r \in caps' : status[r] # "none"
    BY <1>7, <2>1 DEF SetCapabilities, Negotiated, Exists, TypeOK, Task
  <2>3. [t EXCEPT !.next = "connect", !.id = t.id] \in Task
    BY <2>1 DEF Task
  <2>4. \/ tasks' = tasks \ {t}
        \/ tasks' = (tasks \ {t}) \cup {[t EXCEPT !.next = "connect", !.id = t.id]}
    BY <1>7 DEF SetCapabilities, Goes, Ends
  <2>5. IsFiniteSet(tasks') /\ Cardinality(tasks') <= MaxTasks
    BY <1>l, <2>4
  <2> QED
    BY <1>7, <2>2, <2>3, <2>4, <2>5 DEF SetCapabilities, TypeOK
<1>8. ASSUME NEW t \in tasks, Connect(t), Ends(t), UNCHANGED <<key, caps, id, mishaps>>,
             wire' \subseteq Envelope
      PROVE  TypeInv'
  <2>1. t \in Task
    BY DEF TypeOK
  <2>2. status' \in [Pairs -> {"none", "out", "in", "connected"}]
    BY <1>8, <2>1 DEF Connect, Task, TypeOK
  <2>3. \A r \in Pairs : status[r] # "none" => status'[r] # "none"
    BY <1>8, <2>1 DEF Connect, Task, TypeOK
  <2> QED
    BY <1>8, <2>2, <2>3, OneLess DEF Ends, TypeOK
<1>9. ASSUME NEW t \in tasks, CompleteOutbound(t) PROVE TypeInv'
  <2>1. t \in Task /\ [t EXCEPT !.next = "caps", !.saw = "connected"] \in Task
    BY DEF TypeOK, Task
  <2>2. CASE Exists(t) /\ status[t.row] = "out"
    <3>1. Complete(t) /\ (ThenCaps(t) \/ Ends(t)) /\ UNCHANGED <<wire, mishaps>>
      BY <1>9, <2>2 DEF CompleteOutbound, ghosts
    <3>2. IsFiniteSet(tasks') /\ Cardinality(tasks') <= MaxTasks
      BY <1>l, <3>1 DEF ThenCaps, Ends
    <3>3. tasks' \subseteq Task
      BY <2>1, <3>1 DEF ThenCaps, Ends, TypeOK
    <3> QED
      BY <2>1, <3>1, <3>2, <3>3 DEF Complete, Task, TypeOK
  <2>3. CASE ~(Exists(t) /\ status[t.row] = "out")
    BY <1>9, <2>3, OneLess DEF CompleteOutbound, Ends, TypeOK, rowVars
  <2> QED
    BY <2>2, <2>3
<1>10. ASSUME NEW t \in tasks, CrossOffer(t) PROVE TypeInv'
  BY <1>8, <1>10 DEF CrossOffer, TypeOK
<1>11. ASSUME NEW t \in tasks, AcceptInbound(t) PROVE TypeInv'
  <2>1. wire' \subseteq Envelope
    BY <1>11 DEF AcceptInbound, Confirm, Envelope, TypeOK, Task
  <2> QED
    BY <1>8, <1>11, <2>1 DEF AcceptInbound
<1>12. ASSUME NEW m \in wire, Lose(m) PROVE TypeInv'
  BY <1>12 DEF Lose, Mishap, TypeOK, rowVars
<1>13. ASSUME NEW t \in tasks, Crash(t) PROVE TypeInv'
  BY <1>13, OneLess DEF Crash, Mishap, Ends, TypeOK, rowVars
<1>14. CASE UNCHANGED vars
  BY <1>14 DEF vars, rowVars, TypeOK
<1> QED
  BY <1>1, <1>2, <1>3, <1>4, <1>5, <1>6, <1>7, <1>9, <1>10, <1>11, <1>12, <1>13, <1>14
     DEF Next, Runs

\* Types, kept by every behaviour: the statuses, the keys, the tasks and their
\* bound, the ids.
THEOREM HandshakeTypeCorrect == Spec => []TypeOK
<1>1. Init => TypeInv
  BY HandshakeAssumption, FS_EmptySet DEF Init, TypeInv, TypeOK
<1> QED
  BY <1>1, TypeStep, PTL DEF Spec, TypeInv

-----------------------------------------------------------------------------
(* What handlers know stays true.                                          *)

\* A new row has a larger id than any task has: no task finds it.
LEMMA InsertHides ==
  ASSUME TypeInv, NEW r \in Pairs, NEW s, NEW k, InsertRow(r, s, k),
         NEW t \in tasks, TaskSound(t),
         intent \subseteq intent', started \subseteq started'
  PROVE  /\ t.row = r => ~Exists(t)'
         /\ t.row # r => Exists(t)' = Exists(t) /\ key'[t.row] = key[t.row]
         /\ TaskSound(t)'
<1>1. /\ t \in Task /\ id \in [Pairs -> Nat] /\ t.id \in Nat
      /\ status' = [status EXCEPT ![r] = s]
      /\ key' = [key EXCEPT ![r] = k]
      /\ id' = [id EXCEPT ![r] = @ + 1]
  BY HandshakeAssumption DEF InsertRow, TypeInv, TypeOK, Task
<1>2. t.row \in Pairs /\ t.id <= id[t.row] /\ t.id <= id'[t.row]
  BY <1>1 DEF TaskSound, Task
<1>3. t.row = r => ~Exists(t)'
  BY <1>1, <1>2 DEF Exists
<1>4. t.row # r => Exists(t)' = Exists(t) /\ key'[t.row] = key[t.row]
  BY <1>1, <1>2 DEF Exists, TypeInv, TypeOK
<1> QED
  BY <1>2, <1>3, <1>4 DEF TaskSound

\* A status that changes, to another that exists, changes no handler's mind.
LEMMA StatusKeepsTask ==
  ASSUME NEW t \in tasks, TaskSound(t), UNCHANGED <<id, intent>>,
         status[t.row] = "none" => status'[t.row] = "none",
         key[t.row] = "real" => key'[t.row] = "real",
         started \subseteq started'
  PROVE  TaskSound(t)'
BY DEF TaskSound, Exists

LEMMA InitiateSound ==
  ASSUME HandInv, NEW r \in Pairs, InitiateOffer(r)
  PROVE  (/\ \A q \in Pairs : RowSound(q)
          /\ \A t \in tasks : TaskSound(t)
          /\ \A m \in wire : OfferSound(m))'
<1> USE DEF HandInv, InitiateOffer
<1>1. \A t \in tasks' : TaskSound(t)'
  BY InsertHides
<1>2. \A q \in Pairs : RowSound(q)'
  BY DEF RowSound, InsertRow, TypeInv, TypeOK
<1>3. \A m \in wire' : OfferSound(m)'
  <2> SUFFICES ASSUME NEW m \in wire', m.kind = "offer"
               PROVE  Back(m.row) \in started'
    BY DEF OfferSound
  <2>1. CASE m \in wire
    BY <2>1 DEF OfferSound
  <2>2. CASE m = [kind |-> "offer", row |-> Back(r)]
    BY <2>2, BackType
  <2> QED
    BY <2>1, <2>2
<1> QED
  BY <1>1, <1>2, <1>3

LEMMA CreateSound ==
  ASSUME HandInv, NEW r \in Pairs, CreateFederationPeer(r)
  PROVE  (/\ \A q \in Pairs : RowSound(q)
          /\ \A t \in tasks : TaskSound(t)
          /\ \A m \in wire : OfferSound(m))'
<1> USE DEF HandInv, CreateFederationPeer
<1>1. \A t \in tasks' : TaskSound(t)'
  BY InsertHides
<1>2. \A q \in Pairs : RowSound(q)'
  BY DEF RowSound, InsertRow, TypeInv, TypeOK
<1>3. \A m \in wire' : OfferSound(m)'
  BY DEF OfferSound
<1> QED
  BY <1>1, <1>2, <1>3

LEMMA AcceptSound ==
  ASSUME HandInv, NEW r \in Pairs, AcceptFederationPeer(r)
  PROVE  (/\ \A q \in Pairs : RowSound(q)
          /\ \A t \in tasks : TaskSound(t)
          /\ \A m \in wire : OfferSound(m))'
<1> USE DEF HandInv
<1> DEFINE new == [row |-> r, id |-> id[r], next |-> "accept", saw |-> "in"]
<1>1. /\ status[r] = "in" /\ UNCHANGED <<status, key, id, wire, started>>
      /\ tasks' = tasks \cup {new}
      /\ intent' = intent \cup {r}
  BY DEF AcceptFederationPeer, rowVars
<1>2. TaskSound(new)' /\ new' = new
  BY <1>1 DEF TaskSound, RowSound, Exists, TypeInv, TypeOK
<1> HIDE DEF new
<1>3. \A t \in tasks : TaskSound(t)'
  BY <1>1 DEF TaskSound, Exists
<1>4. \A q \in Pairs : RowSound(q)'
  BY <1>1 DEF RowSound
<1>5. \A m \in wire' : OfferSound(m)'
  BY <1>1 DEF OfferSound
<1> QED
  BY <1>1, <1>2, <1>3, <1>4, <1>5

LEMMA DeleteSound ==
  ASSUME HandInv, NEW r \in Pairs, DeleteFederationPeer(r)
  PROVE  (/\ \A q \in Pairs : RowSound(q)
          /\ \A t \in tasks : TaskSound(t)
          /\ \A m \in wire : OfferSound(m))'
<1> USE DEF HandInv
<1>1. /\ status' = [status EXCEPT ![r] = "none"]
      /\ key' = [key EXCEPT ![r] = "placeholder"]
      /\ intent' = intent \ {r}
      /\ UNCHANGED <<id, wire, tasks, started>>
  BY DEF DeleteFederationPeer
<1>2. \A q \in Pairs : RowSound(q)'
  BY <1>1 DEF RowSound, TypeInv, TypeOK
<1>3. ASSUME NEW t \in tasks PROVE TaskSound(t)'
  <2>1. t.row \in Pairs
    BY DEF TypeInv, TypeOK, Task
  <2> QED
    BY <1>1, <2>1 DEF TaskSound, Exists, TypeInv, TypeOK
<1>4. \A m \in wire' : OfferSound(m)'
  BY <1>1 DEF OfferSound
<1> QED
  BY <1>1, <1>2, <1>3, <1>4

LEMMA ReceiveSound ==
  ASSUME HandInv, NEW m \in wire, Receive(m)
  PROVE  (/\ \A q \in Pairs : RowSound(q)
          /\ \A t \in tasks : TaskSound(t)
          /\ \A n \in wire : OfferSound(n))'
<1> USE DEF HandInv
<1> DEFINE new(n) == [row |-> m.row, id |-> id[m.row], next |-> n, saw |-> status[m.row]]
<1>1. /\ UNCHANGED <<status, key, id, intent, started>>
      /\ wire' = wire \ {m}
      /\ \/ tasks' = tasks
         \/ status[m.row] = "none" /\ tasks' = tasks \cup {new("add")}
         \/ m.kind = "offer" /\ status[m.row] # "none" /\ tasks' = tasks \cup {new("caps")}
         \/ /\ m.kind = "offer" /\ status[m.row] = "out"
            /\ tasks' = tasks \cup {new("connect")}
         \/ status[m.row] = "out" /\ tasks' = tasks \cup {new("complete")}
  BY DEF Receive, rowVars, ghosts
<1>2. m.row \in Pairs /\ id[m.row] \in Nat
  BY HandshakeAssumption DEF TypeInv, TypeOK, Envelope
<1>3. RowSound(m.row) /\ OfferSound(m)
  BY <1>2
<1>4. status[m.row] = "none" => TaskSound(new("add"))
  BY <1>2 DEF TaskSound, Exists
<1>5. status[m.row] = "out" => TaskSound(new("complete"))
  BY <1>2, <1>3 DEF TaskSound, RowSound
<1>6. m.kind = "offer" /\ status[m.row] # "none" => TaskSound(new("caps"))
  BY <1>2, <1>3 DEF TaskSound, RowSound, OfferSound
<1>7. m.kind = "offer" /\ status[m.row] = "out" => TaskSound(new("connect"))
  BY <1>2, <1>3 DEF TaskSound, RowSound, OfferSound
<1> HIDE DEF new
<1>8. \A t \in tasks' : TaskSound(t)
  BY <1>1, <1>4, <1>5, <1>6, <1>7
<1>9. \A t \in tasks' : TaskSound(t)'
  BY <1>1, <1>8 DEF TaskSound, Exists
<1> QED
  BY <1>1, <1>9 DEF RowSound, OfferSound

LEMMA AddSound ==
  ASSUME HandInv, NEW t \in tasks, AddInbound(t)
  PROVE  (/\ \A q \in Pairs : RowSound(q)
          /\ \A u \in tasks : TaskSound(u)
          /\ \A m \in wire : OfferSound(m))'
<1> USE DEF HandInv
<1>1. /\ t.next = "add" /\ t.saw = "none" /\ UNCHANGED <<wire, intent, started>>
      /\ t \in Task /\ t.row \in Pairs
  BY DEF AddInbound, ghosts, TaskSound, TypeInv, TypeOK, Task
<1>2. CASE UNCHANGED rowVars /\ tasks' = tasks \ {t}
  BY <1>1, <1>2 DEF RowSound, TaskSound, OfferSound, Exists, rowVars
<1>3. CASE /\ InsertRow(t.row, "in", "real")
           /\ Goes(t, "caps", id[t.row] + 1) \/ Ends(t)
  <2> DEFINE new == [t EXCEPT !.next = "caps", !.id = id[t.row] + 1]
  <2>1. /\ new.row = t.row /\ new.saw = "none" /\ new.next = "caps"
        /\ new.id = id[t.row] + 1
    BY <1>1 DEF Task
  <2>2. id'[t.row] = id[t.row] + 1 /\ id[t.row] \in Nat
    BY <1>1, <1>3, HandshakeAssumption DEF InsertRow, TypeInv, TypeOK
  <2>3. tasks' \subseteq (tasks \ {t}) \cup {new}
    BY <1>3 DEF Goes, Ends
  <2> HIDE DEF new
  <2>4. ASSUME NEW u, u = new PROVE TaskSound(u)'
    BY <2>1, <2>2, <2>4 DEF TaskSound
  <2>5. \A u \in tasks : TaskSound(u)'
    BY <1>1, <1>3, InsertHides
  <2>6. \A q \in Pairs : RowSound(q)'
    BY <1>1, <1>3 DEF RowSound, InsertRow, TypeInv, TypeOK
  <2> QED
    BY <1>1, <2>3, <2>4, <2>5, <2>6 DEF OfferSound
<1> QED
  BY <1>2, <1>3 DEF AddInbound, Ends

LEMMA CapabilitiesSound ==
  ASSUME HandInv, NEW t \in tasks, SetCapabilities(t)
  PROVE  (/\ \A q \in Pairs : RowSound(q)
          /\ \A u \in tasks : TaskSound(u)
          /\ \A m \in wire : OfferSound(m))'
<1> USE DEF HandInv
<1>1. /\ t.next = "caps" /\ t \in Task
      /\ UNCHANGED <<status, key, id, wire, intent, started>>
  BY DEF SetCapabilities, ghosts, TypeInv, TypeOK
<1>2. \A u \in tasks : TaskSound(u)'
  BY <1>1 DEF TaskSound, Exists
<1>3. ASSUME NEW u, u = [t EXCEPT !.next = "connect", !.id = t.id], t.saw = "out"
      PROVE  TaskSound(u)'
  <2>1. u.row = t.row /\ u.saw = "out" /\ u.next = "connect" /\ u.id = t.id
    BY <1>1, <1>3 DEF Task
  <2> QED
    BY <1>1, <1>3, <2>1 DEF TaskSound, Exists
<1>4. \A u \in tasks' : TaskSound(u)'
  BY <1>2, <1>3 DEF SetCapabilities, Goes, Ends
<1> QED
  BY <1>1, <1>4 DEF RowSound, OfferSound

\* What a row's being connected by a handler takes: the handler found its row,
\* somebody asked for it, and a placeholder is a crossing.
LEMMA ConnectSound ==
  ASSUME HandInv, NEW t \in tasks, Connect(t), Ends(t),
         UNCHANGED <<key, id, intent, started>>,
         Exists(t) => /\ t.row \in intent
                      /\ key[t.row] = "placeholder" => Back(t.row) \in started,
         wire' \subseteq wire \cup {[kind |-> "confirm", row |-> Back(t.row)]}
  PROVE  (/\ \A q \in Pairs : RowSound(q)
          /\ \A u \in tasks : TaskSound(u)
          /\ \A m \in wire : OfferSound(m))'
<1> USE DEF HandInv
<1>1. \A u \in tasks : u \in Task /\ u.row \in Pairs
  BY DEF TypeInv, TypeOK, Task
<1>2. status' = [status EXCEPT ![t.row] = IF Exists(t) THEN "connected" ELSE @]
  BY DEF Connect
<1>3. \A q \in Pairs : status[q] = "none" => status'[q] = "none"
  BY <1>1, <1>2 DEF Exists, TypeInv, TypeOK
<1>4. \A q \in Pairs : RowSound(q)'
  <2> SUFFICES ASSUME NEW q \in Pairs PROVE RowSound(q)'
    OBVIOUS
  <2>1. CASE q = t.row /\ Exists(t)
    <3>1. status'[q] = "connected" /\ status[q] # "none"
      BY <1>2, <2>1 DEF Exists, TypeInv, TypeOK
    <3> QED
      BY <2>1, <3>1 DEF RowSound
  <2>2. CASE ~(q = t.row /\ Exists(t))
    <3>1. status'[q] = status[q]
      BY <1>2, <2>2 DEF TypeInv, TypeOK
    <3> QED
      BY <3>1 DEF RowSound
  <2> QED
    BY <2>1, <2>2
<1>5. \A u \in tasks' : TaskSound(u)'
  BY <1>1, <1>3, StatusKeepsTask DEF Ends
<1>6. \A m \in wire' : OfferSound(m)'
  BY DEF OfferSound
<1> QED
  BY <1>4, <1>5, <1>6

LEMMA CrossSound ==
  ASSUME HandInv, NEW t \in tasks, CrossOffer(t)
  PROVE  (/\ \A q \in Pairs : RowSound(q)
          /\ \A u \in tasks : TaskSound(u)
          /\ \A m \in wire : OfferSound(m))'
<1>1. TaskSound(t)
  BY DEF HandInv
<1> QED
  BY <1>1, ConnectSound DEF CrossOffer, TaskSound, ghosts

LEMMA AcceptInboundSound ==
  ASSUME HandInv, NEW t \in tasks, AcceptInbound(t)
  PROVE  (/\ \A q \in Pairs : RowSound(q)
          /\ \A u \in tasks : TaskSound(u)
          /\ \A m \in wire : OfferSound(m))'
<1>1. TaskSound(t)
  BY DEF HandInv
<1>2. wire' \subseteq wire \cup {[kind |-> "confirm", row |-> Back(t.row)]}
  BY DEF AcceptInbound, Confirm
<1> QED
  BY <1>1, <1>2, ConnectSound DEF AcceptInbound, TaskSound, ghosts

LEMMA CompleteSound ==
  ASSUME HandInv, NEW t \in tasks, CompleteOutbound(t)
  PROVE  (/\ \A q \in Pairs : RowSound(q)
          /\ \A u \in tasks : TaskSound(u)
          /\ \A m \in wire : OfferSound(m))'
<1> USE DEF HandInv
<1>1. /\ t \in Task /\ t.row \in Pairs
      /\ UNCHANGED <<wire, intent, started>>
  BY DEF CompleteOutbound, ghosts, TypeInv, TypeOK, Task
<1>2. CASE UNCHANGED rowVars /\ Ends(t)
  BY <1>1, <1>2 DEF RowSound, TaskSound, OfferSound, Exists, rowVars, Ends
<1>3. CASE /\ Exists(t) /\ status[t.row] = "out" /\ Complete(t)
           /\ ThenCaps(t) \/ Ends(t)
  <2>1. /\ status' = [status EXCEPT ![t.row] = "connected"]
        /\ key' = [key EXCEPT ![t.row] = "real"]
        /\ id' = id
    BY <1>3 DEF Complete
  <2>2. \A q \in Pairs : RowSound(q)'
    BY <1>1, <1>3, <2>1 DEF RowSound, TypeInv, TypeOK
  <2>3. \A u \in tasks : u.row \in Pairs
    BY DEF TypeInv, TypeOK, Task
  <2>4. \A q \in Pairs : /\ status[q] = "none" => status'[q] = "none"
                         /\ key[q] = "real" => key'[q] = "real"
    BY <1>1, <1>3, <2>1 DEF TypeInv, TypeOK
  <2>5. \A u \in tasks : TaskSound(u)'
    BY <1>1, <2>1, <2>3, <2>4, StatusKeepsTask
  <2>6. ASSUME NEW u, u = [t EXCEPT !.next = "caps", !.saw = "connected"]
        PROVE  TaskSound(u)'
    <3>1. u.row = t.row /\ u.next = "caps" /\ u.saw = "connected" /\ u.id = t.id
      BY <1>1, <2>6 DEF Task
    <3> QED
      BY <2>1, <3>1 DEF TaskSound
  <2> QED
    BY <1>1, <1>3, <2>2, <2>5, <2>6 DEF ThenCaps, Ends, OfferSound
<1> QED
  BY <1>2, <1>3 DEF CompleteOutbound

LEMMA HandStep == HandInv /\ [Next]_vars => HandInv'
<1> SUFFICES ASSUME HandInv, [Next]_vars PROVE HandInv'
  OBVIOUS
<1> DEFINE Sound == /\ \A q \in Pairs : RowSound(q)
                    /\ \A t \in tasks : TaskSound(t)
                    /\ \A m \in wire : OfferSound(m)
<1>1. TypeInv'
  BY TypeStep DEF HandInv
<1>2. ASSUME NEW r \in Pairs,
             \/ InitiateOffer(r) \/ CreateFederationPeer(r)
             \/ AcceptFederationPeer(r) \/ DeleteFederationPeer(r)
      PROVE  Sound'
  BY <1>2, InitiateSound, CreateSound, AcceptSound, DeleteSound
<1>3. ASSUME NEW m \in wire, Receive(m) PROVE Sound'
  BY <1>3, ReceiveSound
<1>4. ASSUME NEW t \in tasks, Runs(t) PROVE Sound'
  BY <1>4, AddSound, CapabilitiesSound, CrossSound, CompleteSound, AcceptInboundSound
     DEF Runs
<1>5. ASSUME UNCHANGED <<rowVars, ghosts>>,
             wire' \subseteq wire, tasks' \subseteq tasks
      PROVE  Sound'
  BY <1>5 DEF HandInv, RowSound, TaskSound, OfferSound, Exists, rowVars, ghosts
<1> HIDE DEF Sound
<1>6. Sound'
  BY <1>2, <1>3, <1>4, <1>5 DEF Next, vars, Lose, Crash, Ends
<1> QED
  BY <1>1, <1>6 DEF HandInv, Sound

LEMMA HandInit == Init => HandInv
<1> SUFFICES ASSUME Init PROVE HandInv
  OBVIOUS
<1>1. TypeInv
  BY HandshakeAssumption, FS_EmptySet DEF Init, TypeInv, TypeOK
<1> QED
  BY <1>1 DEF Init, HandInv, RowSound

LEMMA HandInvariant == Spec => []HandInv
BY HandInit, HandStep, PTL DEF Spec

\* A row is connected only while an administrator of its instance wants it: not
\* even a handler that read an earlier row of the same peer connects the new one.
THEOREM IntentNeeded == Spec => []ConnectedByIntent
<1>1. HandInv => ConnectedByIntent
  BY DEF HandInv, RowSound, ConnectedByIntent
<1> QED
  BY <1>1, HandInvariant, PTL

\* A connected row keeps the placeholder key only when both instances started.
THEOREM PlaceholderNeedsCrossing == Spec => []PlaceholderOnlyIfCrossed
<1>1. HandInv => PlaceholderOnlyIfCrossed
  BY DEF HandInv, RowSound, PlaceholderOnlyIfCrossed, Crossed
<1> QED
  BY <1>1, HandInvariant, PTL

-----------------------------------------------------------------------------
(* Capabilities.                                                           *)

\* A row inserted for r: the other rows, and the tasks, keep what they have.
LEMMA InsertNegotiated ==
  ASSUME HandInv, NEW r \in Pairs, NEW s, NEW k, InsertRow(r, s, k),
         status[r] = "none", NEW kept, kept \subseteq tasks, kept \subseteq tasks',
         \A t \in tasks : t.next = "caps" => t \in kept,
         byHand \subseteq byHand', intent \subseteq intent', started \subseteq started',
         \A q : Advertises(q)' = Advertises(q),
         \A q \in Pairs : RowNegotiated(q), \A t \in tasks : TaskNegotiated(t)
  PROVE  /\ \A q \in Pairs : q # r => RowNegotiated(q)'
         /\ \A t \in kept : TaskNegotiated(t)'
<1>1. \A t \in tasks : /\ t.row = r => ~Exists(t)'
                       /\ t.row # r => Exists(t)' = Exists(t)
  BY InsertHides DEF HandInv
<1>2. /\ \A q \in Pairs : q # r => status'[q] = status[q]
      /\ caps' = caps \ {r}
  BY DEF InsertRow, HandInv, TypeInv, TypeOK
<1>3. ASSUME NEW q \in Pairs, q # r PROVE RowNegotiated(q)'
  BY <1>1, <1>2, <1>3 DEF RowNegotiated
<1>4. ASSUME NEW t \in kept PROVE TaskNegotiated(t)'
  <2>1. t.row \in Pairs
    BY DEF HandInv, TypeInv, TypeOK, Task
  <2> QED
    BY <1>1, <1>2, <1>4, <2>1 DEF TaskNegotiated
<1> QED
  BY <1>3, <1>4

\* Rows that stay where they are, or become connected where they had waited or
\* had their capabilities: which rows exist, and which tasks find theirs, is as before.
LEMMA SameRowsNegotiated ==
  ASSUME HandInv, UNCHANGED <<id, byHand>>, caps \subseteq caps',
         \A q : Advertises(q)' = Advertises(q),
         \A q \in Pairs : \/ status'[q] = status[q]
                          \/ /\ status[q] # "none" /\ status'[q] = "connected"
                             /\ RowNegotiated(q)',
         \A t \in tasks \ tasks' : t.next = "caps" /\ Exists(t) => t.row \in caps',
         \A q \in Pairs : RowNegotiated(q), \A t \in tasks : TaskNegotiated(t)
  PROVE  /\ \A t \in tasks : Exists(t)' = Exists(t) /\ TaskNegotiated(t)'
         /\ \A q \in Pairs : RowNegotiated(q)'
<1>1. ASSUME NEW t \in tasks PROVE Exists(t)' = Exists(t) /\ TaskNegotiated(t)'
  <2>1. t.row \in Pairs
    BY DEF HandInv, TypeInv, TypeOK, Task
  <2>2. Exists(t)' = Exists(t)
    BY <2>1 DEF Exists
  <2> QED
    BY <2>1, <2>2 DEF TaskNegotiated
<1>2. ASSUME NEW q \in Pairs PROVE RowNegotiated(q)'
  BY <1>1, <1>2 DEF RowNegotiated
<1> QED
  BY <1>1, <1>2

LEMMA NamedStep == TypeInv /\ NamedInv /\ [Next]_vars => NamedInv'
<1> SUFFICES ASSUME TypeInv, NamedInv, [Next]_vars PROVE NamedInv'
  OBVIOUS
<1>1. \A r : Advertises(r)' = Advertises(r)
  BY SameReleases
<1>2. \A t \in tasks : t \in Task
  BY DEF TypeInv, TypeOK
<1>3. ASSUME caps' \subseteq caps, \A t \in tasks' \ tasks : t.next # "caps"
      PROVE  NamedInv'
  BY <1>1, <1>3 DEF NamedInv
<1>4. ASSUME NEW r \in Pairs,
             \/ InitiateOffer(r) \/ CreateFederationPeer(r)
             \/ AcceptFederationPeer(r) \/ DeleteFederationPeer(r)
      PROVE  NamedInv'
  BY <1>3, <1>4 DEF InitiateOffer, CreateFederationPeer, AcceptFederationPeer,
    DeleteFederationPeer, InsertRow, rowVars
<1>5. ASSUME NEW m \in wire, Receive(m) PROVE NamedInv'
  <2>1. /\ caps' = caps
        /\ \A t \in tasks' \ tasks : t.next = "caps" => Advertises(t.row)
    BY <1>5 DEF Receive, rowVars
  <2> QED
    BY <1>1, <2>1 DEF NamedInv
<1>6. ASSUME NEW t \in tasks, AddInbound(t) PROVE NamedInv'
  <2>1. caps' \subseteq caps
    BY <1>6 DEF AddInbound, InsertRow, rowVars
  <2>2. \/ tasks' = tasks \ {t}
        \/ /\ tasks' = (tasks \ {t}) \cup {[t EXCEPT !.next = "caps",
                                                   !.id = id[t.row] + 1]}
           /\ Advertises(t.row)
    BY <1>6 DEF AddInbound, Goes, Ends
  <2>3. [t EXCEPT !.next = "caps", !.id = id[t.row] + 1].row = t.row
    BY <1>2 DEF Task
  <2> QED
    BY <1>1, <2>1, <2>2, <2>3 DEF NamedInv
<1>7. ASSUME NEW t \in tasks, SetCapabilities(t) PROVE NamedInv'
  <2>1. Advertises(t.row) /\ caps' \subseteq caps \cup {t.row}
    BY <1>7 DEF SetCapabilities, Negotiated, NamedInv
  <2>2. \A u \in tasks' \ tasks : u.next = "connect"
    BY <1>2, <1>7 DEF SetCapabilities, Goes, Ends, Task
  <2> QED
    BY <1>1, <2>1, <2>2 DEF NamedInv
<1>8. ASSUME NEW t \in tasks, CompleteOutbound(t) PROVE NamedInv'
  <2>1. caps' = caps
    BY <1>8 DEF CompleteOutbound, Complete, rowVars
  <2>2. \/ tasks' = tasks \ {t}
        \/ /\ tasks' = (tasks \ {t}) \cup {[t EXCEPT !.next = "caps",
                                                   !.saw = "connected"]}
           /\ Advertises(t.row)
    BY <1>8 DEF CompleteOutbound, ThenCaps, Ends
  <2>3. [t EXCEPT !.next = "caps", !.saw = "connected"].row = t.row
    BY <1>2 DEF Task
  <2> QED
    BY <1>1, <2>1, <2>2, <2>3 DEF NamedInv
<1>9. ASSUME NEW t \in tasks, CrossOffer(t) \/ AcceptInbound(t) \/ Crash(t)
      PROVE  NamedInv'
  BY <1>3, <1>9 DEF CrossOffer, AcceptInbound, Crash, Ends, rowVars
<1>10. ASSUME NEW m \in wire, Lose(m) PROVE NamedInv'
  BY <1>3, <1>10 DEF Lose, rowVars
<1>11. CASE UNCHANGED vars
  BY <1>3, <1>11 DEF vars, rowVars
<1> QED
  BY <1>4, <1>5, <1>6, <1>7, <1>8, <1>9, <1>10, <1>11 DEF Next, Runs

LEMMA CapsStep == HandInv /\ CapsInv /\ [Next]_vars => CapsInv'
<1> DEFINE Negotiations == /\ \A r \in Pairs : RowNegotiated(r)
                           /\ \A t \in tasks : TaskNegotiated(t)
<1> SUFFICES ASSUME HandInv, CapsInv, [Next]_vars, mishaps' = 0
             PROVE  Negotiations'
  BY DEF CapsInv
<1>1. mishaps = 0 /\ ~Mishap /\ Negotiations
  BY DEF CapsInv, HandInv, TypeInv, Mishap, Next, vars, InitiateOffer,
         CreateFederationPeer, AcceptFederationPeer, DeleteFederationPeer, Receive,
         Runs, AddInbound, SetCapabilities, CrossOffer, CompleteOutbound,
         AcceptInbound, Lose, Crash
<1>2. \A t \in tasks : t \in Task /\ t.row \in Pairs /\ TaskSound(t)
  BY DEF HandInv, TypeInv, TypeOK, Task
<1>t. \A r : Advertises(r)' = Advertises(r)
  BY SameReleases
<1> USE <1>t
<1>3. ASSUME NEW r \in Pairs, InitiateOffer(r) PROVE Negotiations'
  <2>1. status'[r] = "out"
    BY <1>3 DEF InitiateOffer, InsertRow, HandInv, TypeInv, TypeOK
  <2> QED
    BY <1>1, <1>3, <2>1, InsertNegotiated DEF InitiateOffer, RowNegotiated
<1>4. ASSUME NEW r \in Pairs, CreateFederationPeer(r) PROVE Negotiations'
  <2>1. r \in byHand'
    BY <1>4 DEF CreateFederationPeer
  <2> QED
    BY <1>1, <1>4, <2>1, InsertNegotiated DEF CreateFederationPeer, RowNegotiated
<1>5. ASSUME NEW r \in Pairs, AcceptFederationPeer(r) PROVE Negotiations'
  <2> DEFINE new == [row |-> r, id |-> id[r], next |-> "accept", saw |-> "in"]
  <2>1. /\ tasks' = tasks \cup {new} /\ status[r] = "in"
        /\ UNCHANGED <<status, id, caps, byHand>>
    BY <1>5 DEF AcceptFederationPeer, rowVars
  <2>2. TaskNegotiated(new)' /\ new' = new
    BY <2>1 DEF TaskNegotiated
  <2> HIDE DEF new
  <2>3. /\ \A t \in tasks : TaskNegotiated(t)'
        /\ \A q \in Pairs : RowNegotiated(q)'
    BY <1>1, <2>1, SameRowsNegotiated
  <2> QED
    BY <2>1, <2>2, <2>3
<1>6. ASSUME NEW m \in wire, Receive(m) PROVE Negotiations'
  <2>1. /\ UNCHANGED <<status, id, caps, byHand>> /\ tasks \subseteq tasks'
        /\ \A t \in tasks' \ tasks : \/ t.next \in {"add", "caps", "complete"}
                                     \/ t.next = "connect" /\ ~Advertises(t.row)
    BY <1>6 DEF Receive, rowVars, ghosts
  <2>2. \A t \in tasks' \ tasks : TaskNegotiated(t)'
    BY <2>1 DEF TaskNegotiated
  <2>3. /\ \A t \in tasks : TaskNegotiated(t)'
        /\ \A q \in Pairs : RowNegotiated(q)'
    BY <1>1, <2>1, SameRowsNegotiated
  <2> QED
    BY <2>2, <2>3
<1>7. ASSUME NEW t \in tasks, AddInbound(t) PROVE Negotiations'
  <2>1. t.next = "add" /\ t \in Task /\ t.row \in Pairs /\ UNCHANGED ghosts
    BY <1>2, <1>7 DEF AddInbound
  <2>2. CASE UNCHANGED rowVars /\ tasks' = tasks \ {t}
    BY <1>1, <2>1, <2>2, SameRowsNegotiated DEF rowVars, ghosts
  <2>3. CASE /\ InsertRow(t.row, "in", "real") /\ status[t.row] = "none"
             /\ Goes(t, "caps", id[t.row] + 1)
    <3> DEFINE new == [t EXCEPT !.next = "caps", !.id = id[t.row] + 1]
    <3>1. tasks' = (tasks \ {t}) \cup {new}
      BY <2>3 DEF Goes
    <3>2. new.row = t.row /\ new.next = "caps" /\ new.id = id[t.row] + 1
      BY <2>1 DEF Task
    <3> HIDE DEF new
    <3>3. /\ \A q \in Pairs : q # t.row => RowNegotiated(q)'
          /\ \A u \in tasks \ {t} : TaskNegotiated(u)'
      <4>1. \A u \in tasks : u.next = "caps" => u \in tasks \ {t}
        BY <2>1
      <4> QED
        BY <1>1, <2>1, <2>3, <3>1, <4>1, InsertNegotiated DEF ghosts
    <3>4. ASSUME NEW u, u = new
          PROVE  Exists(u)' /\ u.row = t.row /\ u.next = "caps" /\ u \in tasks'
      BY <2>1, <2>3, <3>1, <3>2, <3>4 DEF Exists, InsertRow, HandInv, TypeInv, TypeOK
    <3>5. RowNegotiated(t.row)'
      BY <3>4 DEF RowNegotiated
    <3>6. \A u \in tasks' : TaskNegotiated(u)'
      BY <3>1, <3>3, <3>4 DEF TaskNegotiated
    <3> QED
      BY <3>3, <3>5, <3>6
  <2>4. CASE /\ InsertRow(t.row, "in", "real") /\ status[t.row] = "none"
             /\ ~Advertises(t.row) /\ tasks' = tasks \ {t}
    <3>1. /\ \A q \in Pairs : q # t.row => RowNegotiated(q)'
          /\ \A u \in tasks \ {t} : TaskNegotiated(u)'
      <4>1. \A u \in tasks : u.next = "caps" => u \in tasks \ {t}
        BY <2>1
      <4> QED
        BY <1>1, <2>1, <2>4, <4>1, InsertNegotiated DEF ghosts
    <3>2. RowNegotiated(t.row)'
      BY <2>4 DEF RowNegotiated
    <3> QED
      BY <2>4, <3>1, <3>2
  <2> QED
    BY <1>7, <2>2, <2>3, <2>4 DEF AddInbound, Ends
<1>8. ASSUME NEW t \in tasks, SetCapabilities(t) PROVE Negotiations'
  <2>1. /\ UNCHANGED <<status, id, byHand>> /\ caps \subseteq caps'
        /\ Exists(t) => t.row \in caps'
        /\ tasks \ {t} \subseteq tasks'
    BY <1>8 DEF SetCapabilities, Negotiated, ghosts, Goes, Ends
  <2>2. /\ \A u \in tasks : TaskNegotiated(u)' /\ Exists(u)' = Exists(u)
        /\ \A q \in Pairs : RowNegotiated(q)'
    BY <1>1, <2>1, SameRowsNegotiated
  <2>3. ASSUME NEW u, u = [t EXCEPT !.next = "connect", !.id = t.id]
        PROVE  TaskNegotiated(u)'
    <3>1. u.row = t.row /\ u.id = t.id /\ u.next = "connect"
      BY <1>2, <2>3 DEF Task
    <3> QED
      BY <2>1, <3>1 DEF TaskNegotiated, Exists
  <2> QED
    BY <1>8, <2>2, <2>3 DEF SetCapabilities, Goes, Ends
<1>9. ASSUME NEW t \in tasks, t.next # "caps", Connect(t), Ends(t),
             UNCHANGED <<id, caps, byHand>>,
             Exists(t) => \/ t.row \in caps \/ ~Advertises(t.row)
                          \/ status[t.row] \in {"in", "connected"}
      PROVE  Negotiations'
  <2>1. status' = [status EXCEPT ![t.row] = IF Exists(t) THEN "connected" ELSE @]
    BY <1>9 DEF Connect
  <2>2. /\ \A q \in Pairs : q # t.row \/ ~Exists(t) => status'[q] = status[q]
        /\ Exists(t) => status[t.row] # "none" /\ status'[t.row] = "connected"
    BY <1>2, <2>1 DEF Exists, HandInv, TypeInv, TypeOK
  <2>3. \A u \in tasks : Exists(u)' = Exists(u)
    BY <1>2, <1>9, <2>2 DEF Exists
  <2>4. Exists(t) => RowNegotiated(t.row)'
    BY <1>1, <1>2, <1>9, <2>3 DEF RowNegotiated, Ends
  <2>5. \A q \in Pairs : \/ status'[q] = status[q]
                         \/ /\ status[q] # "none" /\ status'[q] = "connected"
                            /\ RowNegotiated(q)'
    BY <2>2, <2>4
  <2>6. /\ \A u \in tasks : TaskNegotiated(u)'
        /\ \A q \in Pairs : RowNegotiated(q)'
    BY <1>1, <1>9, <2>5, SameRowsNegotiated DEF Ends
  <2> QED
    BY <1>9, <2>6 DEF Ends
<1>10. ASSUME NEW t \in tasks, CrossOffer(t) PROVE Negotiations'
  BY <1>1, <1>9, <1>10 DEF CrossOffer, TaskNegotiated, ghosts
<1>11. ASSUME NEW t \in tasks, AcceptInbound(t) PROVE Negotiations'
  BY <1>1, <1>9, <1>11 DEF AcceptInbound, TaskNegotiated, ghosts
<1>12. ASSUME NEW t \in tasks, CompleteOutbound(t) PROVE Negotiations'
  <2>1. t.next = "complete" /\ UNCHANGED byHand
    BY <1>12 DEF CompleteOutbound, ghosts
  <2>2. CASE UNCHANGED rowVars /\ Ends(t)
    BY <1>1, <2>1, <2>2, SameRowsNegotiated DEF rowVars, Ends
  <2>3. CASE Exists(t) /\ Complete(t) /\ ThenCaps(t)
    <3> DEFINE new == [t EXCEPT !.next = "caps", !.saw = "connected"]
    <3>1. new.row = t.row /\ new.id = t.id /\ new.next = "caps"
      BY <1>2 DEF Task
    <3>2. tasks' = (tasks \ {t}) \cup {new} /\ new' = new
      BY <2>3 DEF ThenCaps
    <3> HIDE DEF new
    <3>3. /\ \A q \in Pairs : q # t.row => status'[q] = status[q]
          /\ status[t.row] # "none" /\ status'[t.row] = "connected"
          /\ UNCHANGED <<caps, id>>
      BY <1>2, <2>3 DEF Complete, Exists, HandInv, TypeInv, TypeOK
    <3>4. Exists(new)'
      BY <2>3, <3>1, <3>2, <3>3 DEF Exists
    <3>5. RowNegotiated(t.row)'
      BY <3>1, <3>2, <3>4 DEF RowNegotiated
    <3>6. \A q \in Pairs : \/ status'[q] = status[q]
                           \/ /\ status[q] # "none" /\ status'[q] = "connected"
                              /\ RowNegotiated(q)'
      BY <3>3, <3>5
    <3>7. /\ \A u \in tasks : TaskNegotiated(u)'
          /\ \A q \in Pairs : RowNegotiated(q)'
      BY <1>1, <2>1, <3>2, <3>3, <3>6, SameRowsNegotiated
    <3>8. TaskNegotiated(new)'
      BY <3>1, <3>2 DEF TaskNegotiated
    <3> QED
      BY <3>2, <3>7, <3>8
  <2>4. CASE Exists(t) /\ Complete(t) /\ Ends(t) /\ ~Advertises(t.row)
    <3>1. /\ \A q \in Pairs : q # t.row => status'[q] = status[q]
          /\ status[t.row] # "none" /\ status'[t.row] = "connected"
          /\ UNCHANGED <<caps, id>>
      BY <1>2, <2>4 DEF Complete, Exists, HandInv, TypeInv, TypeOK
    <3>2. RowNegotiated(t.row)'
      BY <2>4 DEF RowNegotiated
    <3>3. \A q \in Pairs : \/ status'[q] = status[q]
                           \/ /\ status[q] # "none" /\ status'[q] = "connected"
                              /\ RowNegotiated(q)'
      BY <3>1, <3>2
    <3>4. /\ \A u \in tasks : TaskNegotiated(u)'
          /\ \A q \in Pairs : RowNegotiated(q)'
      BY <1>1, <2>1, <2>4, <3>1, <3>3, SameRowsNegotiated DEF Ends
    <3> QED
      BY <2>4, <3>4 DEF Ends
  <2> QED
    BY <1>12, <2>2, <2>3, <2>4 DEF CompleteOutbound
<1>13. ASSUME UNCHANGED vars PROVE Negotiations'
  BY <1>1, <1>13, SameRowsNegotiated DEF vars, rowVars, ghosts
<1> HIDE DEF Negotiations
<1> QED
  BY <1>1, <1>3, <1>4, <1>5, <1>6, <1>7, <1>8, <1>10, <1>11, <1>12, <1>13
     DEF Next, Runs, DeleteFederationPeer, Lose, Crash

\* A connected row without capabilities was entered by hand, belongs to a peer
\* that names none, is about to get them, or something was cut short: the two
\* statements that write a row and its capabilities lose nothing by themselves,
\* whatever runs between them.  And no row counts as negotiated whose peer named
\* nothing, mishaps or not.
THEOREM CapabilitiesFollow == Spec => []NegotiatedUnlessCut
<1>1. Init => CapsInv /\ NamedInv
  BY DEF Init, CapsInv, NamedInv, RowNegotiated
<1>2. HandInv /\ NamedInv /\ [Next]_vars => NamedInv'
  BY NamedStep DEF HandInv
<1>3. Spec => [](CapsInv /\ NamedInv)
  BY <1>1, <1>2, HandInvariant, CapsStep, PTL DEF Spec
<1>4. HandInv /\ CapsInv /\ NamedInv => NegotiatedUnlessCut
  BY DEF HandInv, TypeInv, CapsInv, NamedInv, RowNegotiated, NegotiatedUnlessCut
<1> QED
  BY <1>3, <1>4, HandInvariant, PTL
=============================================================================
