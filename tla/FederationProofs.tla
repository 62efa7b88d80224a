-------------------------- MODULE FederationProofs --------------------------
(***************************************************************************)
(* Federation, for any finite sets of activities and rows, any processes   *)
(* on both sides and any number of faults: what is marked sent was         *)
(* received, the cursor loses rows only for reasons the code has, a        *)
(* settled row stays settled, and the author at the peer hears of a copy   *)
(* once.                                                                   *)
(***************************************************************************)
EXTENDS Federation, FiniteSetTheorems, WellFoundedInduction, TLAPS

Responses == {"stored", "replayed", "rejected", "error"}
CallType ==
  [from : Workers \cup {NULL}, peer : Peers, solo : BOOLEAN,
   rows : Seq(Rows \X Nat), noted : BOOLEAN, answers : Seq(Responses)]

\* A request is for rows of one peer, and its next envelope is noted only while
\* there is one.
CallSound(q) ==
  /\ q \in CallType
  /\ Len(q.answers) <= Len(q.rows)
  /\ q.noted => ~Answered(q)
  /\ q.solo => Len(q.rows) = 1
  /\ \A i \in DOMAIN q.rows : PeerOf(q.rows[i][1]) = q.peer

\* The shares, and what is known of them.
ShareTyped ==
  /\ granted \subseteq Shares /\ leftOut \subseteq Shares
  /\ cached \in [Dispatchers -> [Objects -> (SUBSET Shares) \cup {NULL}]]
  /\ misread \subseteq Activities

SenderTyped ==
  /\ stage \in [Activities -> {"none", "open", "committed"}]
  /\ cursor \in Activities \cup {0}
  /\ batch \in [Dispatchers -> SUBSET Activities]
  /\ ShareTyped
  /\ peerUp \subseteq Peers
  /\ outbox \in [Rows -> Statuses]
  /\ attempts \in [Rows -> Nat] /\ wait \in [Rows -> 0..Backoff]
  /\ hand \in [Workers -> SUBSET (Rows \X Nat)]
  /\ \A w \in Workers : IsFiniteSet(hand[w])
  /\ verdict \in [Workers -> SUBSET (Rows \X Nat \X Verdicts)]

ReceiverTyped ==
  /\ fresh \in [Copies -> 0..CacheTTL]
  /\ inbox \in [Copies -> InboxStatuses] /\ tries \in [Copies -> Nat]
  /\ desk \in [Readers -> SUBSET (Copies \X Nat)]
  /\ doing \in [Readers -> SUBSET Step]
  /\ \A d \in Readers : \A s, t \in doing[d] : s = t
  /\ applied \subseteq Copies /\ notified \in [Copies -> Nat]

TypeInv ==
  /\ SenderTyped /\ ReceiverTyped /\ mishaps \in Nat
  /\ \A q \in calls : CallSound(q)

\* The activities behind the cursor, or behind the last of a listed batch, have
\* their rows: what committed since the batch was listed was overtaken.
Covered(r) ==
  \/ outbox[r] # "absent" \/ ~Shared(Act(r))
  \/ Act(r) \in misread \/ ShareOf(r) \in leftOut

\* A process holds every share of an object it has read, but those left out.
CacheInv ==
  \A d \in Dispatchers, o \in Objects :
    cached[d][o] # NULL => \A s \in Shares : s[1] = o => s \in cached[d][o] \cup leftOut

CoveredUpTo(last, except) ==
  \A r \in Rows :
    /\ stage[Act(r)] = "committed" /\ Act(r) <= last
    /\ Act(r) \notin overtaken \cup except
    => Covered(r)

CursorInv ==
  /\ CacheInv
  /\ cursor # 0 => stage[cursor] = "committed"
  /\ CoveredUpTo(cursor, {})
  /\ \A d \in Dispatchers : batch[d] # {} =>
       /\ \A a \in batch[d] : stage[a] = "committed"
       /\ CoveredUpTo(LastOf(batch[d]), batch[d])

\* Whoever says that a copy was received is right: the replay cache, an answer
\* on its way, the verdict of a worker and the row.
Received(c) ==
  \/ inbox[c] # "absent" \/ c \in turnedAway
  \/ \E q \in calls : q.noted /\ NextCopy(q) = c

ReceivedInv ==
  /\ \A r \in Rows : outbox[r] = "sent" => Received(CopyOf(r))
  /\ \A w \in Workers : \A v \in verdict[w] : v[3] = "sent" => Received(CopyOf(v[1]))
  /\ \A q \in calls : \A i \in DOMAIN q.answers :
       q.answers[i] \in {"stored", "replayed"} => Received(CopyOf(q.rows[i][1]))
  /\ \A c \in Copies : fresh[c] > 0 => Received(c)

\* A copy is applied once; one reader is about to tell its author, or told, and
\* none does before it is applied.
Tells(d, c) == \E s \in doing[d] : s.copy = c /\ s.at = "notify"

ToldOnce(c) ==
  /\ notified[c] <= 1
  /\ \A d \in Readers : Tells(d, c) => notified[c] = 0
  /\ \A d, e \in Readers : Tells(d, c) /\ Tells(e, c) => d = e
  /\ c \notin applied =>
       /\ notified[c] = 0 /\ inbox[c] # "processed"
       /\ \A d \in Readers : \A s \in doing[d] : s.copy = c => s.at = "insert"
  /\ c \in applied /\ mishaps = 0 =>
       notified[c] = 1 \/ \E d \in Readers : Tells(d, c)

EffectsInv == \A c \in Copies : ToldOnce(c)

\* Until the first fault, whoever is to insert has seen no attempt.
FirstTries ==
  mishaps = 0 =>
    /\ \A c \in Copies \ applied : tries[c] = 0
    /\ \A d \in Readers : \A h \in desk[d] : h[1] \notin applied => h[2] = 0
    /\ \A d \in Readers : \A s \in doing[d] : s.at = "insert" => s.tries = 0

\* A worker has each row in one place: on its hand, in its request, or in what it
\* has to write.
Asks(w, q) == q \in calls /\ q.from = w

HeldOnce(w) ==
  /\ \A h, k \in hand[w] : h[1] = k[1] => h = k
  /\ \A u, v \in verdict[w] : u[1] = v[1] => u = v
  /\ \A q, o \in calls : Asks(w, q) /\ Asks(w, o) => q = o
  /\ \A q \in calls : Asks(w, q) =>
       \A i, j \in DOMAIN q.rows : q.rows[i][1] = q.rows[j][1] => i = j
  /\ \A h \in hand[w] : \A v \in verdict[w] : h[1] # v[1]
  /\ \A q \in calls : Asks(w, q) => \A i \in DOMAIN q.rows :
       /\ \A h \in hand[w] : h[1] # q.rows[i][1]
       /\ \A v \in verdict[w] : v[1] # q.rows[i][1]

\* A worker that is alone has listed each with at least the attempts it has.
Holds(w, r, n) ==
  \/ <<r, n>> \in hand[w]
  \/ \E v \in verdict[w] : v[1] = r /\ v[2] = n
  \/ \E q \in calls : Asks(w, q) /\ \E i \in DOMAIN q.rows : q.rows[i] = <<r, n>>

SawLatest(w) == \A r \in Rows, n \in Nat : Holds(w, r, n) => attempts[r] <= n

AttemptsInv ==
  /\ \A w \in Workers : HeldOnce(w)
  /\ AttemptsBounded
  /\ (\A v, w \in Workers : v = w) => \A w \in Workers : SawLatest(w)

-----------------------------------------------------------------------------
(* The ends of a set of positions.                                         *)

\* A set of numbers that is not empty has a least element.
LEMMA LeastExists ==
  ASSUME NEW S \in SUBSET Nat, S # {}
  PROVE  \E x \in S : \A y \in S : x <= y
<1>1. PICK x \in S : \A y \in S : ~(<<y, x>> \in OpToRel(<, Nat))
  BY NatLessThanWellFounded, WFMin
<1>2. \A y \in S : ~(y < x)
  BY <1>1 DEF OpToRel
<1> QED
  BY <1>2

\* And a greatest one if it is finite: a smallest subset without one would have
\* one again when an element is taken away.
LEMMA GreatestExists ==
  ASSUME NEW S \in SUBSET Nat, IsFiniteSet(S), S # {}
  PROVE  LastOf(S) \in S /\ \A x \in S : x <= LastOf(S)
<1> DEFINE HasLast(T) == \E x \in T : \A y \in T : y <= x
           Bad == {T \in SUBSET S : T # {} /\ ~HasLast(T)}
           Sizes == {n \in Nat : \E T \in Bad : Cardinality(T) = n}
<1>1. \A T \in SUBSET S : IsFiniteSet(T) /\ Cardinality(T) \in Nat
  BY FS_Subset, FS_CardinalityType
<1>2. ASSUME NEW T \in Bad, \A U \in Bad : Cardinality(T) <= Cardinality(U)
      PROVE  FALSE
  <2>1. PICK x \in T : TRUE
    OBVIOUS
  <2>2. T \ {x} # {}
    BY <2>1
  <2>3. Cardinality(T \ {x}) < Cardinality(T)
    BY <1>1, <2>1, FS_RemoveElement
  <2>4. T \ {x} \in SUBSET S /\ T \ {x} \notin Bad
    <3>1. T \in SUBSET S /\ T \ {x} \in SUBSET S
      OBVIOUS
    <3>2. ~(Cardinality(T) <= Cardinality(T \ {x}))
      BY <1>1, <2>3, <3>1
    <3> QED
      BY <1>2, <3>1, <3>2
  <2>5. PICK y \in T \ {x} : \A z \in T \ {x} : z <= y
    BY <2>2, <2>4
  <2>6. x \in Nat /\ y \in Nat /\ \A z \in T : z \in Nat
    BY <2>1, <2>5
  <2>7. CASE y <= x
    BY <2>1, <2>5, <2>6, <2>7
  <2>8. CASE ~(y <= x)
    BY <2>1, <2>5, <2>6, <2>8
  <2> QED
    BY <2>7, <2>8
<1>3. Bad = {}
  <2> SUFFICES ASSUME Bad # {} PROVE FALSE
    OBVIOUS
  <2>1. Sizes \subseteq Nat /\ Sizes # {} /\ \A U \in Bad : Cardinality(U) \in Sizes
    BY <1>1
  <2>2. PICK n \in Sizes : \A k \in Sizes : n <= k
    BY <2>1, LeastExists
  <2>3. PICK T \in Bad : Cardinality(T) = n
    BY <2>2
  <2> QED
    BY <1>2, <2>1, <2>2, <2>3
<1> QED
  BY <1>3 DEF LastOf

-----------------------------------------------------------------------------
(* Requests.                                                               *)

\* An answer more, and the next envelope is not noted yet.
LEMMA ReplySound ==
  ASSUME NEW q, CallSound(q), ~Answered(q), NEW a \in Responses,
         NEW new, new = [q EXCEPT !.answers = Append(@, a), !.noted = FALSE]
  PROVE  /\ CallSound(new) /\ new.rows = q.rows
         /\ new.answers = Append(q.answers, a) /\ ~new.noted
<1>1. q \in CallType /\ q.answers \in Seq(Responses) /\ q.rows \in Seq(Rows \X Nat)
  BY DEF CallSound, CallType
<1>2. Append(q.answers, a) \in Seq(Responses) /\ Len(Append(q.answers, a)) = Len(q.answers) + 1
  BY <1>1
<1>3. /\ new \in CallType /\ new.rows = q.rows /\ new.answers = Append(q.answers, a)
      /\ new.noted = FALSE /\ new.solo = q.solo /\ new.peer = q.peer
  BY <1>1, <1>2 DEF CallType
<1>4. Len(q.answers) \in Nat /\ Len(q.rows) \in Nat
  BY <1>1
<1>5. Len(q.answers) + 1 <= Len(q.rows)
  BY <1>4 DEF CallSound, Answered
<1> QED
  <2>1. Len(new.answers) <= Len(new.rows)
    BY <1>2, <1>3, <1>5
  <2>2. \A i \in DOMAIN new.rows : PeerOf(new.rows[i][1]) = new.peer
    BY <1>3 DEF CallSound
  <2>3. CallSound(new)
    BY <1>3, <2>1, <2>2 DEF CallSound
  <2> QED
    BY <1>3, <2>3

\* The next envelope is noted; the worker waits no more.
LEMMA NotedSound ==
  ASSUME NEW q, CallSound(q)
  PROVE  /\ ~Answered(q) => CallSound([q EXCEPT !.noted = TRUE])
         /\ CallSound([q EXCEPT !.from = NULL])
BY DEF CallSound, CallType, Answered

\* One answer for the whole request.
LEMMA AwaySound ==
  ASSUME NEW q, CallSound(q), ~q.noted, NEW a \in Responses,
         NEW new, new = [q EXCEPT !.answers = [i \in DOMAIN q.rows |-> a]]
  PROVE  /\ CallSound(new) /\ new.rows = q.rows /\ ~new.noted
         /\ new.answers = [i \in DOMAIN q.rows |-> a] /\ Answered(new)
<1> DEFINE all == [i \in DOMAIN q.rows |-> a]
<1>1. q \in CallType /\ q.rows \in Seq(Rows \X Nat)
  BY DEF CallSound, CallType
<1>2. all \in Seq(Responses) /\ Len(all) = Len(q.rows)
  BY <1>1
<1>3. /\ new \in CallType /\ new.rows = q.rows /\ new.answers = all
      /\ new.noted = q.noted /\ new.solo = q.solo /\ new.peer = q.peer
  <2>1. new = [q EXCEPT !.answers = all]
    OBVIOUS
  <2> HIDE DEF all
  <2> QED
    BY <1>1, <1>2, <2>1 DEF CallType
<1> HIDE DEF all
<1>4. CallSound(new) /\ Answered(new)
  BY <1>1, <1>2, <1>3 DEF CallSound, Answered
<1> QED
  BY <1>3, <1>4 DEF all

\* The envelopes of a request are the rows it was built from, each once.
LEMMA PostSound ==
  ASSUME TypeInv, NEW w \in Workers, NEW p \in Peers, NEW built, built # {},
         built \subseteq {h \in hand[w] : PeerOf(h[1]) = p},
         NEW solo \in BOOLEAN, solo => Cardinality(built) = 1,
         NEW order \in SetToSeqs(built)
  PROVE  /\ CallSound([from |-> w, peer |-> p, solo |-> solo, rows |-> order,
                       noted |-> FALSE, answers |-> <<>>])
         /\ \A i \in DOMAIN order : order[i] \in built
         /\ \A i, j \in DOMAIN order : order[i] = order[j] => i = j
<1>1. IsFiniteSet(built) /\ Cardinality(built) \in Nat
  BY FS_Subset, FS_CardinalityType DEF TypeInv, SenderTyped
<1>2. /\ order \in [1..Cardinality(built) -> built]
      /\ \A i, j \in 1..Cardinality(built) : i # j => order[i] # order[j]
  BY DEF SetToSeqs
<1>3. built \subseteq Rows \X Nat /\ \A h \in built : PeerOf(h[1]) = p
  BY DEF TypeInv, SenderTyped
<1>4. order \in Seq(Rows \X Nat) /\ Len(order) = Cardinality(built)
  BY <1>1, <1>2, <1>3
<1>5. <<>> \in Seq(Responses) /\ Len(<<>>) = 0
  OBVIOUS
<1>6. DOMAIN order = 1..Cardinality(built)
  BY <1>2
<1> DEFINE new == [from |-> w, peer |-> p, solo |-> solo, rows |-> order,
                   noted |-> FALSE, answers |-> <<>>]
<1>7. new \in CallType
  BY <1>4, <1>5 DEF CallType
<1>8. CallSound(new)
  BY <1>1, <1>2, <1>3, <1>4, <1>5, <1>6, <1>7 DEF CallSound
<1> QED
  BY <1>2, <1>6, <1>8

LEMMA Readings ==
  \A a \in Responses : /\ Reading[a] \in Verdicts
                       /\ Reading[a] = "sent" => a \in {"stored", "replayed"}
BY DEF Responses, Reading, Verdicts

\* A result comes from one of the answers for the row's activity.
LEMMA ResultFrom ==
  ASSUME NEW c, CallSound(c), Answered(c), NEW i \in DOMAIN c.rows
  PROVE  \E k \in DOMAIN c.rows :
           /\ Act(c.rows[k][1]) = Act(c.rows[i][1])
           /\ k \in DOMAIN c.answers /\ c.answers[k] \in Responses
           /\ ResultFor(c, i) = Reading[c.answers[k]]
<1>1. /\ c.rows \in Seq(Rows \X Nat) /\ c.answers \in Seq(Responses)
      /\ Len(c.answers) = Len(c.rows)
  BY DEF CallSound, CallType, Answered
<1> DEFINE mine == {k \in DOMAIN c.rows : Act(c.rows[k][1]) = Act(c.rows[i][1])}
<1>2. mine \subseteq Nat /\ mine # {}
  BY <1>1
<1>3. \E k \in mine : \A m \in mine : k <= m
  BY <1>2, LeastExists
<1> DEFINE k0 == CHOOSE k \in mine : \A m \in mine : k <= m
<1>4. k0 \in mine
  <2> HIDE DEF mine
  <2> QED
    BY <1>3
<1>5. ResultFor(c, i) = Reading[c.answers[k0]]
  BY DEF ResultFor
<1> HIDE DEF k0
<1>6. k0 \in DOMAIN c.answers /\ c.answers[k0] \in Responses
  BY <1>1, <1>4
<1> QED
  BY <1>4, <1>5, <1>6

\* What the worker is left to write is about rows of the request, with the counts
\* it listed, and at most once for each row.
LEMMA SettledFrom ==
  ASSUME NEW c, CallSound(c), NEW result,
         \A i \in Keyed(c) : result[i] \in Verdicts
  PROVE  /\ Settled(c, result) \subseteq Rows \X Nat \X Verdicts
         /\ \A v \in Settled(c, result) : \E i \in Keyed(c) :
              v = <<c.rows[i][1], c.rows[i][2], result[i]>>
<1>1. \A i \in Keyed(c) : c.rows[i] \in Rows \X Nat
  BY DEF Keyed, CallSound, CallType
<1> QED
  BY <1>1 DEF Settled

-----------------------------------------------------------------------------
(* Types.                                                                  *)

\* The mutations of Inbox answer an envelope, or note it.
LEMMA ReplyStep ==
  ASSUME TypeInv, NEW q \in calls, ~Answered(q), NEW a \in Responses, Reply(q, a)
  PROVE  \A x \in calls' : CallSound(x)
<1>1. PICK new : new = [q EXCEPT !.answers = Append(@, a), !.noted = FALSE]
  OBVIOUS
<1>2. CallSound(new)
  BY <1>1, ReplySound DEF TypeInv
<1> QED
  BY <1>1, <1>2 DEF Reply, Progress, TypeInv

\* A worker posts those it may of the rows it holds for the peer, and no others.
Group(w, p) == {h \in hand[w] : PeerOf(h[1]) = p}

LEMMA DeliverPosts ==
  ASSUME TypeInv, NEW w \in Workers, NEW p \in Peers, Deliver(w, p)
  PROVE  \/ calls' = calls
         \/ \E new : /\ calls' = calls \cup {new}
                     /\ CallSound(new) /\ new.from = w /\ ~new.noted
                     /\ new.answers = <<>>
                     /\ \A i \in DOMAIN new.rows :
                          new.rows[i] \in Group(w, p) \ Refused(Group(w, p))
                     /\ \A i, j \in DOMAIN new.rows : new.rows[i] = new.rows[j] => i = j
                     /\ verdict' = [verdict EXCEPT ![w] =
                                      Verdict(Refused(Group(w, p)), "refused")]
<1> DEFINE group == {h \in hand[w] : PeerOf(h[1]) = p}
           solo == Cardinality(group) = 1
           built == group \ Refused(group)
<1>1. CASE calls' = calls
  BY <1>1
<1>2. ASSUME Post(w, p, built, solo),
             verdict' = [verdict EXCEPT ![w] = Verdict(Refused(group), "refused")]
      PROVE  \/ calls' = calls
             \/ \E new : /\ calls' = calls \cup {new}
                         /\ CallSound(new) /\ new.from = w /\ ~new.noted
                         /\ new.answers = <<>>
                         /\ \A i \in DOMAIN new.rows :
                              new.rows[i] \in Group(w, p) \ Refused(Group(w, p))
                         /\ \A i, j \in DOMAIN new.rows : new.rows[i] = new.rows[j] => i = j
                         /\ verdict' = [verdict EXCEPT ![w] =
                                          Verdict(Refused(Group(w, p)), "refused")]
  <2>1. CASE built = {}
    BY <1>2, <2>1 DEF Post
  <2>2. CASE built # {}
    <3>1. IsFiniteSet(group) /\ IsFiniteSet(built)
      BY FS_Subset DEF TypeInv, SenderTyped
    <3>2. solo => Cardinality(built) = 1
      <4>1. SUFFICES ASSUME solo PROVE Cardinality(built) = 1
        OBVIOUS
      <4>2. PICK h : group = {h}
        BY <3>1, <4>1, FS_Singleton
      <4>3. built = {h}
        BY <2>2, <4>2
      <4> QED
        BY <4>3, FS_Singleton
    <3>3. PICK order \in SetToSeqs(built) :
            calls' = calls \cup {[from |-> w, peer |-> p, solo |-> solo,
                                  rows |-> order, noted |-> FALSE, answers |-> <<>>]}
      BY <1>2, <2>2 DEF Post
    <3>4. solo \in BOOLEAN /\ built \subseteq group
      OBVIOUS
    <3> HIDE DEF solo, built
    <3>5. PICK new : new = [from |-> w, peer |-> p, solo |-> solo, rows |-> order,
                            noted |-> FALSE, answers |-> <<>>]
      OBVIOUS
    <3>6. /\ CallSound(new) /\ new.rows = order
          /\ \A i \in DOMAIN order : order[i] \in built
          /\ \A i, j \in DOMAIN order : order[i] = order[j] => i = j
      BY <2>2, <3>2, <3>4, <3>5, PostSound
    <3>7. new.from = w /\ ~new.noted /\ new.answers = <<>>
      BY <3>5
    <3>8. group = Group(w, p) /\ built = Group(w, p) \ Refused(Group(w, p))
      BY DEF Group, built
    <3> HIDE DEF group
    <3>9. \A i \in DOMAIN new.rows : new.rows[i] \in Group(w, p) \ Refused(Group(w, p))
      BY <3>6, <3>8
    <3>10. verdict' = [verdict EXCEPT ![w] = Verdict(Refused(Group(w, p)), "refused")]
      BY <1>2, <3>8
    <3> QED
      BY <3>3, <3>5, <3>6, <3>7, <3>9, <3>10
  <2> QED
    BY <2>1, <2>2
<1> QED
  BY <1>1, <1>2 DEF Deliver

LEMMA CallsStep ==
  ASSUME TypeInv, Next
  PROVE  \A x \in calls' : CallSound(x)
<1>1. \A q \in calls : CallSound(q)
  BY DEF TypeInv
<1>2. ASSUME NEW w \in Workers, NEW p \in Peers, Deliver(w, p)
      PROVE  \A x \in calls' : CallSound(x)
  BY <1>1, <1>2, DeliverPosts
<1>3. ASSUME NEW q \in calls, Answer(q) \/ Vanish(q)
      PROVE  \A x \in calls' : CallSound(x)
  BY <1>1, <1>3 DEF Answer, Vanish
<1>4. ASSUME NEW q \in calls, GiveUp(q)
      PROVE  \A x \in calls' : CallSound(x)
  BY <1>1, <1>4, NotedSound DEF GiveUp, Progress
<1>5. ASSUME NEW w \in Workers, CrashWorker(w)
      PROVE  \A x \in calls' : CallSound(x)
  BY <1>1, <1>5, NotedSound DEF CrashWorker
<1>6. ASSUME NEW q \in calls, TurnRequestAway(q)
      PROVE  \A x \in calls' : CallSound(x)
  <2>1. PICK a \in {"rejected", "error"} :
          Progress(q, [q EXCEPT !.answers = [i \in DOMAIN q.rows |-> a]])
    BY <1>6 DEF TurnRequestAway
  <2>2. PICK new : new = [q EXCEPT !.answers = [i \in DOMAIN q.rows |-> a]]
    OBVIOUS
  <2>3. a \in Responses /\ ~q.noted /\ CallSound(q)
    BY <1>1, <1>6 DEF TurnRequestAway, Responses
  <2>4. CallSound(new)
    BY <2>2, <2>3, AwaySound
  <2> QED
    BY <1>1, <2>1, <2>2, <2>4 DEF Progress
<1>7. ASSUME NEW q \in calls, Note(q)
      PROVE  \A x \in calls' : CallSound(x)
  <2>1. CASE Reply(q, "replayed")
    BY <1>7, <2>1, ReplyStep DEF Note, Responses
  <2>2. CASE Progress(q, [q EXCEPT !.noted = TRUE])
    BY <1>1, <1>7, <2>2, NotedSound DEF Note, Progress
  <2> QED
    BY <1>7, <2>1, <2>2 DEF Note
<1>8. ASSUME NEW q \in calls, Store(q)
      PROVE  \A x \in calls' : CallSound(x)
  <2>1. \E a \in Responses : Reply(q, a)
    BY <1>8 DEF Store, Reject, Responses
  <2> QED
    BY <1>8, <2>1, ReplyStep DEF Store
<1>9. CASE calls' = calls
  BY <1>1, <1>9
<1>10. \/ calls' = calls
       \/ \E w \in Workers, p \in Peers : Deliver(w, p)
       \/ \E q \in calls : Answer(q) \/ Vanish(q) \/ GiveUp(q)
       \/ \E w \in Workers : CrashWorker(w)
       \/ \E q \in calls : TurnRequestAway(q) \/ Note(q) \/ Store(q)
  BY DEF Next, Sender, Receiver, Tick, Record, Commit, ListUndispatched,
     ReadShares, GrantShare, EndShare, Dispatch, DispatchRollsBack, ListDue, Settle,
     RequeueOutbox, CancelPending, SwitchPeer,
     ListPending, Look, Insert, Notify, Finish, CrashReader, RequeueInbox, workVars
<1> QED
  BY <1>2, <1>3, <1>4, <1>5, <1>6, <1>7, <1>8, <1>9, <1>10

\* A row is listed with the attempts it has.
LEMMA ListTyped ==
  ASSUME SenderTyped, NEW S \in SUBSET Rows
  PROVE  /\ {<<r, attempts[r]>> : r \in S} \subseteq Rows \X Nat
         /\ IsFiniteSet({<<r, attempts[r]>> : r \in S})
<1> DEFINE f == [r \in S |-> <<r, attempts[r]>>]
           T == {<<r, attempts[r]>> : r \in S}
<1>1. f \in [S -> T] /\ \A t \in T : \E r \in S : f[r] = t
  OBVIOUS
<1>2. T \subseteq Rows \X Nat
  BY DEF SenderTyped
<1>3. IsFiniteSet(S)
  BY OutboxAssumption, FS_Subset
<1> HIDE DEF f, T
<1>4. f \in Surjection(S, T)
  BY <1>1 DEF Surjection
<1>5. IsFiniteSet(T)
  BY <1>3, <1>4, FS_Surjection
<1> QED
  BY <1>2, <1>5 DEF T

\* What a worker is left to write.
LEMMA VerdictTyped ==
  ASSUME TypeInv, Next
  PROVE  /\ hand' \in [Workers -> SUBSET (Rows \X Nat)]
         /\ verdict' \in [Workers -> SUBSET (Rows \X Nat \X Verdicts)]
         /\ \A w \in Workers : IsFiniteSet(hand'[w])
<1> DEFINE Typed == /\ hand' \in [Workers -> SUBSET (Rows \X Nat)]
                    /\ verdict' \in [Workers -> SUBSET (Rows \X Nat \X Verdicts)]
                    /\ \A w \in Workers : IsFiniteSet(hand'[w])
<1>1. /\ hand \in [Workers -> SUBSET (Rows \X Nat)]
      /\ verdict \in [Workers -> SUBSET (Rows \X Nat \X Verdicts)]
      /\ \A x \in Workers : IsFiniteSet(hand[x])
  BY DEF TypeInv, SenderTyped
<1>2. ASSUME NEW x \in Workers, ListDue(x)
      PROVE  Typed
  <2>1. Due \subseteq Rows
    BY DEF Due
  <2> DEFINE listed == {<<r, attempts[r]>> : r \in Due}
  <2>2. listed \subseteq Rows \X Nat /\ IsFiniteSet(listed)
    BY <2>1, ListTyped DEF TypeInv
  <2>3. hand' = [hand EXCEPT ![x] = listed] /\ verdict' = verdict
    BY <1>2 DEF ListDue
  <2> HIDE DEF listed
  <2> QED
    BY <1>1, <2>2, <2>3
<1>3. ASSUME NEW x \in Workers, NEW p \in Peers, Deliver(x, p)
      PROVE  Typed
  <2> DEFINE group == {h \in hand[x] : PeerOf(h[1]) = p}
  <2>1. hand' = [hand EXCEPT ![x] = @ \ group]
    BY <1>3 DEF Deliver
  <2>2. hand' \in [Workers -> SUBSET (Rows \X Nat)] /\ \A w \in Workers : IsFiniteSet(hand'[w])
    <3>1. IsFiniteSet(hand[x] \ group)
      BY <1>1, FS_Difference
    <3> HIDE DEF group
    <3> QED
      BY <1>1, <2>1, <3>1
  <2>3. \A S \in SUBSET hand[x] : \A v \in Verdicts : Verdict(S, v) \subseteq Rows \X Nat \X Verdicts
    BY <1>1 DEF Verdict
  <2>4. \E S1, S2 \in SUBSET hand[x] : \E u, v \in Verdicts :
          verdict' = [verdict EXCEPT ![x] = Verdict(S1, u) \cup Verdict(S2, v)]
    <3>1. {"refused", "failed", "retry"} \subseteq Verdicts /\ Verdict({}, "retry") = {}
      BY DEF Verdicts, Verdict
    <3> DEFINE refused == Refused(group)
               early == IF Cardinality(group) = 1 THEN refused ELSE {}
    <3>2. /\ refused \in SUBSET hand[x] /\ early \in SUBSET hand[x]
          /\ group \ early \in SUBSET hand[x] /\ {} \in SUBSET hand[x]
      BY DEF Refused
    <3>3. \/ verdict' = [verdict EXCEPT ![x] = Verdict(refused, "refused")]
          \/ verdict' = [verdict EXCEPT ![x] =
                           Verdict(early, "refused") \cup Verdict(group \ early, "failed")]
          \/ verdict' = [verdict EXCEPT ![x] =
                           Verdict(early, "refused") \cup Verdict(group \ early, "retry")]
      BY <1>3 DEF Deliver
    <3>4. Verdict(refused, "refused") = Verdict(refused, "refused") \cup Verdict({}, "retry")
      BY <3>1
    <3> HIDE DEF refused, early, group
    <3> QED
      BY <3>1, <3>2, <3>3, <3>4
  <2>5. verdict' \in [Workers -> SUBSET (Rows \X Nat \X Verdicts)]
    BY <1>1, <2>3, <2>4
  <2> QED
    BY <2>2, <2>5
<1>4. ASSUME NEW c \in calls, Answer(c) \/ GiveUp(c)
      PROVE  Typed
  <2>1. CallSound(c) /\ hand' = hand
    BY <1>4 DEF TypeInv, Answer, GiveUp
  <2>2. \E result : /\ \A i \in Keyed(c) : result[i] \in Verdicts
                    /\ verdict' = [verdict EXCEPT ![c.from] = @ \cup Settled(c, result)]
    <3>1. CASE Answer(c)
      <4>1. \A i \in Keyed(c) : ResultFor(c, i) \in Verdicts
        BY <2>1, <3>1, ResultFrom, Readings DEF Answer, Keyed
      <4> QED
        BY <3>1, <4>1 DEF Answer
    <3>2. CASE GiveUp(c)
      BY <3>2 DEF GiveUp, Verdicts
    <3> QED
      BY <1>4, <3>1, <3>2
  <2>3. PICK S : /\ S \subseteq Rows \X Nat \X Verdicts
                 /\ verdict' = [verdict EXCEPT ![c.from] = @ \cup S]
    BY <2>1, <2>2, SettledFrom
  <2> QED
    BY <1>1, <2>1, <2>3
<1>5. ASSUME NEW x \in Workers, Settle(x) \/ CrashWorker(x)
      PROVE  Typed
  BY <1>1, <1>5, FS_EmptySet DEF Settle, CrashWorker
<1>6. CASE hand' = hand /\ verdict' = verdict
  BY <1>1, <1>6
<1>7. \/ hand' = hand /\ verdict' = verdict
      \/ \E x \in Workers : ListDue(x) \/ Settle(x) \/ CrashWorker(x)
      \/ \E x \in Workers, p \in Peers : Deliver(x, p)
      \/ \E c \in calls : Answer(c) \/ GiveUp(c)
  BY DEF Next, Sender, Receiver, Tick, Record, Commit, ListUndispatched,
     ReadShares, GrantShare, EndShare, Dispatch, DispatchRollsBack, RequeueOutbox,
     CancelPending, SwitchPeer, workVars, outboxVars
<1> QED
  BY <1>2, <1>3, <1>4, <1>5, <1>6, <1>7

\* The status a verdict sets, and what it leaves alone.
LEMMA WriteEffect ==
  ASSUME SenderTyped, NEW r \in Rows, NEW n \in Nat, NEW v \in Verdicts, Write(r, n, v)
  PROVE  /\ outbox' \in [Rows -> Statuses]
         /\ attempts' \in [Rows -> Nat] /\ wait' \in [Rows -> 0..Backoff]
         /\ \A s \in Rows : outbox[s] # "queued" => outbox'[s] = outbox[s]
         /\ \A s \in Rows : /\ attempts'[s] \in {attempts[s], attempts[s] + 1}
                            /\ attempts'[s] # attempts[s] => s = r /\ n + 1 < MaxAttempts
         /\ \A s \in Rows : outbox'[s] = "sent" => outbox[s] = "sent" \/ (s = r /\ v = "sent")
         /\ \A s \in Rows : outbox[s] # "absent" => outbox'[s] # "absent"
<1> DEFINE last == n + 1 >= MaxAttempts
           status == CASE v = "retry" -> IF last THEN "failed" ELSE "queued"
                       [] OTHER -> v
<1>0. /\ MaxAttempts \in Nat /\ Backoff \in Nat
      /\ outbox \in [Rows -> Statuses]
      /\ attempts \in [Rows -> Nat] /\ wait \in [Rows -> 0..Backoff]
  BY OutboxAssumption DEF SenderTyped
<1>1. CASE outbox[r] # "queued"
  BY <1>0, <1>1 DEF Write, queueVars
<1>2. CASE outbox[r] = "queued"
  <2>1. /\ outbox' = [outbox EXCEPT ![r] = status]
        /\ attempts' = [attempts EXCEPT ![r] = IF v = "retry" /\ ~last THEN @ + 1 ELSE @]
        /\ wait' = [wait EXCEPT ![r] = IF v = "retry" /\ ~last THEN Backoff ELSE @]
    BY <1>2 DEF Write
  <2>2. /\ status \in Statuses \ {"absent"}
        /\ status = "sent" => v = "sent"
    BY DEF Verdicts, Statuses
  <2>3. ~last => n + 1 < MaxAttempts
    BY <1>0
  <2> HIDE DEF last, status
  <2>4. /\ outbox' \in [Rows -> Statuses]
        /\ \A s \in Rows : outbox[s] # "queued" => outbox'[s] = outbox[s]
        /\ \A s \in Rows : outbox'[s] = "sent" => outbox[s] = "sent" \/ (s = r /\ v = "sent")
        /\ \A s \in Rows : outbox[s] # "absent" => outbox'[s] # "absent"
    BY <1>0, <1>2, <2>1, <2>2
  <2>5. /\ attempts' \in [Rows -> Nat]
        /\ \A s \in Rows : /\ attempts'[s] \in {attempts[s], attempts[s] + 1}
                           /\ attempts'[s] # attempts[s] => s = r /\ n + 1 < MaxAttempts
    <3>1. CASE v = "retry" /\ ~last
      BY <1>0, <2>1, <2>3, <3>1
    <3>2. CASE ~(v = "retry" /\ ~last)
      BY <1>0, <2>1, <3>2
    <3> QED
      BY <3>1, <3>2
  <2>6. wait' \in [Rows -> 0..Backoff]
    BY <1>0, <2>1
  <2> QED
    BY <2>4, <2>5, <2>6
<1> QED
  BY <1>1, <1>2

LEMMA LastOfBatch ==
  ASSUME SenderTyped, NEW d \in Dispatchers, batch[d] # {}
  PROVE  LastOf(batch[d]) \in batch[d] /\ \A a \in batch[d] : a <= LastOf(batch[d])
<1>1. batch[d] \subseteq Nat /\ IsFiniteSet(batch[d])
  BY OutboxAssumption, FS_Subset DEF SenderTyped
<1> QED
  BY <1>1, GreatestExists

LEMMA SenderStep ==
  ASSUME TypeInv, Next
  PROVE  SenderTyped'
<1> DEFINE Feed == /\ stage \in [Activities -> {"none", "open", "committed"}]
                   /\ cursor \in Activities \cup {0}
                   /\ batch \in [Dispatchers -> SUBSET Activities]
                   /\ ShareTyped /\ peerUp \subseteq Peers
           Queue == /\ outbox \in [Rows -> Statuses]
                    /\ attempts \in [Rows -> Nat] /\ wait \in [Rows -> 0..Backoff]
<1>1. Feed /\ Queue /\ SenderTyped
  BY DEF TypeInv, SenderTyped
<1>2. Feed'
  <2>1. ASSUME NEW a \in Activities, Record(a) \/ Commit(a)
        PROVE  Feed'
    BY <1>1, <2>1 DEF Record, Commit, ShareTyped, shareVars
  <2>2. ASSUME NEW d \in Dispatchers, ListUndispatched(d)
        PROVE  Feed'
    <3>1. cached' \in [Dispatchers -> [Objects -> (SUBSET Shares) \cup {NULL}]]
      BY <1>1, <2>2 DEF ListUndispatched, Evictions, ShareTyped
    <3> QED
      BY <1>1, <2>2, <3>1 DEF ListUndispatched, Undispatched, ShareTyped
  <2>3. ASSUME NEW d \in Dispatchers, Dispatch(d) \/ DispatchRollsBack(d)
        PROVE  Feed'
    <3>1. LastOf(batch[d]) \in Activities
      BY <1>1, <2>3, LastOfBatch DEF Dispatch, DispatchRollsBack
    <3>2. ShareTyped'
      <4>1. misread' \subseteq Activities
        BY <1>1, <2>3 DEF Dispatch, DispatchRollsBack, ShareTyped, shareVars
      <4> QED
        BY <1>1, <2>3, <4>1 DEF Dispatch, DispatchRollsBack, ShareTyped, shareVars
    <3> QED
      BY <1>1, <2>3, <3>1, <3>2 DEF Dispatch, DispatchRollsBack, Advance
  <2>4. ASSUME NEW p \in Peers, SwitchPeer(p)
        PROVE  Feed'
    BY <1>1, <2>4 DEF SwitchPeer, feedVars, ShareTyped, shareVars
  <2>5. CASE UNCHANGED <<feedVars, peerUp>>
    BY <1>1, <2>5 DEF feedVars, ShareTyped, shareVars
  <2>6. ASSUME NEW d \in Dispatchers, NEW o \in Objects, ReadShares(d, o)
        PROVE  Feed'
    <3>1. InEffect(o) \subseteq Shares
      BY <1>1 DEF InEffect, ShareTyped
    <3>2. ShareTyped'
      BY <1>1, <2>6, <3>1 DEF ReadShares, ShareTyped
    <3> QED
      BY <1>1, <2>6, <3>2 DEF ReadShares
  <2>7. ASSUME NEW s \in Shares, GrantShare(s) \/ EndShare(s)
        PROVE  Feed'
    BY <1>1, <2>7 DEF GrantShare, EndShare, ShareTyped
  <2> QED
    BY <2>1, <2>2, <2>3, <2>4, <2>5, <2>6, <2>7
    DEF Next, Sender, Receiver, Tick, ListDue, Settle, CrashWorker, Deliver, Answer,
        GiveUp, RequeueOutbox, CancelPending, outboxVars
<1>3. Queue'
  <2>1. ASSUME NEW d \in Dispatchers, Dispatch(d)
        PROVE  Queue'
    BY <1>1, <2>1 DEF Dispatch, Statuses
  <2>2. ASSUME NEW w \in Workers, Settle(w)
        PROVE  Queue'
    <3>1. PICK v \in verdict[w] : Write(v[1], v[2], v[3]) \/ UNCHANGED queueVars
      BY <2>2 DEF Settle
    <3>2. v[1] \in Rows /\ v[2] \in Nat /\ v[3] \in Verdicts
      BY <1>1 DEF SenderTyped
    <3>3. CASE Write(v[1], v[2], v[3])
      BY <1>1, <3>2, <3>3, WriteEffect
    <3>4. CASE UNCHANGED queueVars
      BY <1>1, <3>4 DEF queueVars
    <3> QED
      BY <3>1, <3>3, <3>4
  <2>3. ASSUME NEW r \in Rows, RequeueOutbox(r)
        PROVE  Queue'
    BY <1>1, <2>3, OutboxAssumption DEF RequeueOutbox, Statuses
  <2>4. ASSUME NEW p \in Peers, CancelPending(p)
        PROVE  Queue'
    BY <1>1, <2>4 DEF CancelPending, Statuses
  <2>5. CASE Tick
    <3>1. \A r \in Rows : (IF wait[r] > 0 THEN wait[r] - 1 ELSE 0) \in 0..Backoff
      BY <1>1, OutboxAssumption
    <3> QED
      BY <1>1, <2>5, <3>1 DEF Tick, RowsTick
  <2>6. CASE UNCHANGED queueVars
    BY <1>1, <2>6 DEF queueVars
  <2> QED
    BY <2>1, <2>2, <2>3, <2>4, <2>5, <2>6
    DEF Next, Sender, Receiver, Record, Commit, ListUndispatched,
     ReadShares, GrantShare, EndShare, DispatchRollsBack, ListDue, CrashWorker,
     Deliver, Answer, GiveUp, SwitchPeer, outboxVars
<1> QED
  BY <1>2, <1>3, VerdictTyped DEF SenderTyped

\* The next envelope of a request is about a copy of one of its rows.
LEMMA NextCopyOf ==
  ASSUME NEW q, CallSound(q), ~Answered(q)
  PROVE  /\ Len(q.answers) + 1 \in DOMAIN q.rows
         /\ NextCopy(q) = CopyOf(q.rows[Len(q.answers) + 1][1])
         /\ NextCopy(q) \in Copies
<1>1. /\ q.rows \in Seq(Rows \X Nat) /\ Len(q.answers) \in Nat
      /\ Len(q.answers) <= Len(q.rows) /\ Len(q.answers) # Len(q.rows)
  BY DEF CallSound, CallType, Answered
<1>2. Len(q.answers) + 1 \in DOMAIN q.rows
  BY <1>1
<1>3. q.rows[Len(q.answers) + 1][1] \in Rows
  BY <1>1, <1>2
<1>4. NextCopy(q) = CopyOf(q.rows[Len(q.answers) + 1][1])
  BY DEF NextCopy, CopyOf, PeerOf, Act
<1> QED
  BY <1>2, <1>3, <1>4, FederationAssumption DEF CopyOf

LEMMA ReceiverStep ==
  ASSUME TypeInv, Next
  PROVE  ReceiverTyped'
<1> DEFINE Rows1 == /\ fresh \in [Copies -> 0..CacheTTL]
                    /\ inbox \in [Copies -> InboxStatuses] /\ tries \in [Copies -> Nat]
                    /\ applied \subseteq Copies /\ notified \in [Copies -> Nat]
           Desks == /\ desk \in [Readers -> SUBSET (Copies \X Nat)]
                    /\ doing \in [Readers -> SUBSET Step]
                    /\ \A d \in Readers : \A s, t \in doing[d] : s = t
<1>1. Rows1 /\ Desks /\ \A q \in calls : CallSound(q)
  BY DEF TypeInv, ReceiverTyped
<1> USE InboxAssumption
<1>2. ASSUME NEW q \in calls, ~Answered(q), Note(q) \/ Store(q)
      PROVE  Rows1' /\ Desks'
  <2>1. NextCopy(q) \in Copies
    BY <1>1, <1>2, NextCopyOf
  <2>2. CASE Note(q)
    BY <1>1, <2>1, <2>2 DEF Note, receiptVars, applyVars
  <2>3. CASE Store(q)
    BY <1>1, <2>1, <2>3 DEF Store, applyVars, InboxStatuses
  <2> QED
    BY <1>2, <2>2, <2>3
<1>3. ASSUME NEW d \in Readers, ListPending(d) \/ CrashReader(d)
      PROVE  Rows1' /\ Desks'
  BY <1>1, <1>3 DEF ListPending, CrashReader, receiptVars
<1>4. ASSUME NEW c \in Copies, NEW st \in InboxStatuses, Mark(c, st)
      PROVE  /\ inbox' \in [Copies -> InboxStatuses] /\ tries' \in [Copies -> Nat]
  BY <1>1, <1>4 DEF Mark
<1>5. ASSUME NEW c \in Copies, NEW n, MarkAttempt(c, n)
      PROVE  /\ inbox' \in [Copies -> InboxStatuses] /\ tries' \in [Copies -> Nat]
  <2>1. \E st \in InboxStatuses : Mark(c, st)
    BY <1>1, <1>5 DEF MarkAttempt, InboxStatuses
  <2> QED
    BY <1>4, <2>1
<1>6. ASSUME NEW d \in Readers, Look(d)
      PROVE  Rows1' /\ Desks'
  <2>1. PICK h \in desk[d] :
          /\ desk' = [desk EXCEPT ![d] = @ \ {h}]
          /\ \/ /\ doing' = [doing EXCEPT ![d] =
                     {[copy |-> h[1], tries |-> h[2],
                       at |-> IF h[1] \in applied THEN "mark" ELSE "insert"]}]
                /\ UNCHANGED receiptVars
             \/ /\ \/ Mark(h[1], "failed") \/ Mark(h[1], "rejected")
                   \/ MarkAttempt(h[1], h[2])
                /\ UNCHANGED doing
          /\ UNCHANGED <<fresh, applied, notified>>
    BY <1>6 DEF Look
  <2>2. h[1] \in Copies /\ h[2] \in Nat
    BY <1>1
  <2>3. Rows1'
    <3>1. inbox' \in [Copies -> InboxStatuses] /\ tries' \in [Copies -> Nat]
      BY <1>1, <1>4, <1>5, <2>1, <2>2 DEF receiptVars, InboxStatuses
    <3> QED
      BY <1>1, <2>1, <3>1
  <2>4. Desks'
    <3>1. [copy |-> h[1], tries |-> h[2],
           at |-> IF h[1] \in applied THEN "mark" ELSE "insert"] \in Step
      BY <2>2 DEF Step
    <3> QED
      BY <1>1, <2>1, <3>1
  <2> QED
    BY <2>3, <2>4
<1>7. ASSUME NEW d \in Readers, NEW s \in doing[d], NEW at \in {"insert", "notify", "mark"},
             Goes(d, s, at)
      PROVE  /\ doing' \in [Readers -> SUBSET Step]
             /\ \A e \in Readers : \A x, y \in doing'[e] : x = y
  <2>1. [s EXCEPT !.at = at] \in Step
    BY <1>1 DEF Step
  <2> QED
    BY <1>1, <1>7, <2>1 DEF Goes
<1>8. ASSUME NEW d \in Readers, Insert(d)
      PROVE  Rows1' /\ Desks'
  <2>1. PICK s \in doing[d] :
          /\ applied' = applied \cup {s.copy}
          /\ \/ Goes(d, s, "notify") /\ UNCHANGED receiptVars
             \/ Goes(d, s, "mark") /\ UNCHANGED receiptVars
             \/ doing' = [doing EXCEPT ![d] = {}] /\ MarkAttempt(s.copy, s.tries)
          /\ UNCHANGED <<fresh, desk, notified>>
    BY <1>8 DEF Insert
  <2>2. s.copy \in Copies
    BY <1>1 DEF Step
  <2>3. inbox' \in [Copies -> InboxStatuses] /\ tries' \in [Copies -> Nat]
    BY <1>1, <1>5, <2>1, <2>2 DEF receiptVars
  <2>4. /\ doing' \in [Readers -> SUBSET Step]
        /\ \A e \in Readers : \A x, y \in doing'[e] : x = y
    BY <1>1, <1>7, <2>1
  <2> QED
    BY <1>1, <2>1, <2>2, <2>3, <2>4
<1>9. ASSUME NEW d \in Readers, Notify(d)
      PROVE  Rows1' /\ Desks'
  <2>1. PICK s \in doing[d] :
          /\ Goes(d, s, "mark")
          /\ notified' = [notified EXCEPT ![s.copy] = @ + 1] \/ UNCHANGED notified
          /\ UNCHANGED <<fresh, receiptVars, desk, applied>>
    BY <1>9 DEF Notify
  <2>2. s.copy \in Copies
    BY <1>1 DEF Step
  <2> QED
    BY <1>1, <1>7, <2>1, <2>2 DEF receiptVars
<1>10. ASSUME NEW d \in Readers, Finish(d)
       PROVE  Rows1' /\ Desks'
  <2>1. PICK s \in doing[d] :
          /\ doing' = [doing EXCEPT ![d] = {}]
          /\ Mark(s.copy, "processed") \/ Mark(s.copy, "failed")
          /\ UNCHANGED <<fresh, desk, applied, notified>>
    BY <1>10 DEF Finish
  <2>2. s.copy \in Copies
    BY <1>1 DEF Step
  <2>3. inbox' \in [Copies -> InboxStatuses] /\ tries' \in [Copies -> Nat]
    BY <1>4, <2>1, <2>2 DEF InboxStatuses
  <2> QED
    BY <1>1, <2>1, <2>3
<1>11. ASSUME NEW c \in Copies, RequeueInbox(c)
       PROVE  Rows1' /\ Desks'
  BY <1>1, <1>11 DEF RequeueInbox, applyVars, InboxStatuses
<1>12. ASSUME Tick
       PROVE  Rows1' /\ Desks'
  <2>1. \A c \in Copies : (IF fresh[c] > 0 THEN fresh[c] - 1 ELSE 0) \in 0..CacheTTL
    BY <1>1
  <2> QED
    BY <1>1, <1>12, <2>1 DEF Tick, CacheTick, receiptVars, applyVars
<1>13. ASSUME UNCHANGED <<fresh, receiptVars, applyVars>>
       PROVE  Rows1' /\ Desks'
  BY <1>1, <1>13 DEF receiptVars, applyVars
<1>14. \/ UNCHANGED <<fresh, receiptVars, applyVars>>
       \/ \E q \in calls : ~Answered(q) /\ (Note(q) \/ Store(q))
       \/ \E d \in Readers : \/ ListPending(d) \/ Look(d) \/ Insert(d) \/ Notify(d)
                             \/ Finish(d) \/ CrashReader(d)
       \/ \E c \in Copies : RequeueInbox(c)
       \/ Tick
  BY DEF Next, Sender, Receiver, TurnRequestAway, Vanish, inboxVars
<1>15. Rows1' /\ Desks'
  BY <1>2, <1>3, <1>6, <1>8, <1>9, <1>10, <1>11, <1>12, <1>13, <1>14
<1> QED
  BY <1>15 DEF ReceiverTyped

\* The count of faults only grows.
LEMMA MishapsStep ==
  ASSUME TypeInv, Next
  PROVE  mishaps' \in Nat /\ mishaps' >= mishaps
<1>1. mishaps' = mishaps \/ Mishap
  BY DEF Next, Sender, Receiver, Tick, Record, Commit, ListUndispatched,
     ReadShares, GrantShare, EndShare, Dispatch, DispatchRollsBack, ListDue, Settle,
     CrashWorker, Deliver, Answer, GiveUp, RequeueOutbox,
     CancelPending, SwitchPeer, TurnRequestAway, Note, Store, Vanish, ListPending,
     Look, Insert, Notify, Finish, CrashReader, RequeueInbox
<1> QED
  BY <1>1 DEF TypeInv, Mishap

LEMMA TypeStep ==
  TypeInv /\ [Next]_vars => TypeInv'
<1>1. ASSUME TypeInv, Next PROVE TypeInv'
  BY <1>1, SenderStep, ReceiverStep, MishapsStep, CallsStep DEF TypeInv
<1>2. ASSUME TypeInv, UNCHANGED vars PROVE TypeInv'
  BY <1>2 DEF vars, outboxVars, feedVars, shareVars, queueVars, inboxVars, receiptVars,
     applyVars, TypeInv, SenderTyped, ShareTyped, ReceiverTyped
<1> QED
  BY <1>1, <1>2

LEMMA TypeInit == Init => TypeInv
<1> SUFFICES ASSUME Init PROVE TypeInv
  OBVIOUS
<1>1. SenderTyped
  BY OutboxAssumption, FS_EmptySet DEF Init, OutboxInit, SenderTyped, ShareTyped, Statuses
<1>2. ReceiverTyped
  BY InboxAssumption DEF Init, InboxInit, ReceiverTyped, InboxStatuses
<1> QED
  BY <1>1, <1>2 DEF Init, TypeInv

\* Every row, request and step has its type, whatever is lost, repeated or late.
THEOREM FederationTypeCorrect == Spec => []TypeOK
<1>1. TypeInv => TypeOK
  <2> SUFFICES ASSUME TypeInv PROVE TypeOK
    OBVIOUS
  <2>1. ASSUME NEW d \in Readers
        PROVE  Cardinality(doing[d]) <= 1
    <3>1. CASE doing[d] = {}
      BY <3>1, FS_EmptySet
    <3>2. ASSUME NEW s \in doing[d] PROVE Cardinality(doing[d]) <= 1
      <4>1. \A t \in doing[d] : t = s
        BY DEF TypeInv, ReceiverTyped
      <4>2. doing[d] = {s}
        BY <4>1
      <4>3. Cardinality({s}) = 1
        BY FS_Singleton
      <4> QED
        BY <4>2, <4>3
    <3> QED
      BY <3>1, <3>2
  <2>2. InboxTypeOK
    BY <2>1 DEF TypeInv, ReceiverTyped, InboxTypeOK
  <2>3. \A q \in calls : CallOK(q)
    BY DEF TypeInv, CallSound, CallType, CallOK, Responses
  <2> QED
    BY <2>2, <2>3 DEF TypeInv, SenderTyped, ShareTyped, TypeOK
<1> QED
  BY <1>1, TypeInit, TypeStep, PTL DEF Spec

-----------------------------------------------------------------------------
(* The rows and the cursor.                                                *)

\* A row appears, is queued, and ends; it is sent because a worker was told so.
LEMMA RowsMove ==
  ASSUME TypeInv, Next, NEW r \in Rows
  PROVE  /\ outbox[r] # "absent" => outbox'[r] # "absent"
         /\ outbox[r] \in {"sent", "refused", "cancelled"} => outbox'[r] = outbox[r]
         /\ outbox[r] = "failed" => outbox'[r] \in {"failed", "queued"}
         /\ outbox'[r] = "sent" =>
              \/ outbox[r] = "sent"
              \/ \E w \in Workers : \E v \in verdict[w] : v[1] = r /\ v[3] = "sent"
<1>1. SenderTyped /\ outbox \in [Rows -> Statuses]
  BY DEF TypeInv, SenderTyped
<1>2. CASE outbox' = outbox
  BY <1>2
<1>3. ASSUME NEW d \in Dispatchers, Dispatch(d)
      PROVE  /\ outbox[r] # "absent" => outbox'[r] = outbox[r]
             /\ outbox[r] = "absent" => outbox'[r] \in {"absent", "queued"}
  BY <1>1, <1>3 DEF Dispatch
<1>4. ASSUME NEW w \in Workers, NEW v \in verdict[w], Write(v[1], v[2], v[3])
      PROVE  /\ outbox[r] # "queued" => outbox'[r] = outbox[r]
             /\ outbox'[r] = "sent" => outbox[r] = "sent" \/ (v[1] = r /\ v[3] = "sent")
             /\ outbox[r] # "absent" => outbox'[r] # "absent"
  <2>1. v[1] \in Rows /\ v[2] \in Nat /\ v[3] \in Verdicts
    BY <1>1 DEF SenderTyped
  <2> QED
    BY <1>1, <1>4, <2>1, WriteEffect
<1>5. ASSUME NEW s \in Rows, RequeueOutbox(s)
      PROVE  \/ outbox'[r] = outbox[r]
             \/ outbox[r] = "failed" /\ outbox'[r] = "queued"
  BY <1>1, <1>5 DEF RequeueOutbox
<1>6. ASSUME NEW p \in Peers, CancelPending(p)
      PROVE  \/ outbox'[r] = outbox[r]
             \/ outbox[r] = "queued" /\ outbox'[r] = "cancelled"
  BY <1>1, <1>6 DEF CancelPending
<1>7. \/ outbox' = outbox
      \/ \E d \in Dispatchers : Dispatch(d)
      \/ \E w \in Workers : \E v \in verdict[w] : Write(v[1], v[2], v[3])
      \/ \E s \in Rows : RequeueOutbox(s)
      \/ \E p \in Peers : CancelPending(p)
  BY DEF Next, Sender, Receiver, Tick, Record, Commit, ListUndispatched,
     ReadShares, GrantShare, EndShare, DispatchRollsBack, ListDue, Settle,
     CrashWorker, Deliver, Answer, GiveUp, SwitchPeer,
     outboxVars, queueVars
<1> QED
  <2>1. CASE \E d \in Dispatchers : Dispatch(d)
    BY <1>3, <2>1
  <2>2. CASE \E w \in Workers : \E v \in verdict[w] : Write(v[1], v[2], v[3])
    BY <1>4, <2>2
  <2>3. CASE \E s \in Rows : RequeueOutbox(s)
    BY <1>5, <2>3
  <2>4. CASE \E p \in Peers : CancelPending(p)
    BY <1>6, <2>4
  <2> QED
    BY <1>2, <1>7, <2>1, <2>2, <2>3, <2>4

\* A settled row keeps its status, whichever worker writes late.
THEOREM SettledStays == Spec => SettledRowsStay
<1> DEFINE Stay ==
      \A r \in Rows :
        /\ outbox[r] \in {"sent", "refused", "cancelled"} => outbox'[r] = outbox[r]
        /\ outbox[r] = "failed" => outbox'[r] \in {"failed", "queued"}
<1>1. TypeInv /\ [Next]_vars => [Stay]_vars
  BY RowsMove
<1> QED
  BY <1>1, TypeInit, TypeStep, PTL DEF Spec, SettledRowsStay

\* What is covered stays covered, and what commits below one that is committed
\* is overtaken.
LEMMA CoverageStep ==
  ASSUME TypeInv, Next
  PROVE  /\ \A r \in Rows : Covered(r) => Covered(r)'
         /\ leftOut \subseteq leftOut'
         /\ overtaken \subseteq overtaken'
         /\ \A a \in Activities : stage[a] = "committed" => stage'[a] = "committed"
         /\ \A a, b \in Activities :
              /\ stage[a] # "committed" /\ stage'[a] = "committed"
              /\ stage[b] = "committed" /\ a <= b
              => a \in overtaken'
<1>1. /\ stage \in [Activities -> {"none", "open", "committed"}]
      /\ \A a \in Activities : a \in Nat
  BY OutboxAssumption DEF TypeInv, SenderTyped
<1>2. misread \subseteq misread' /\ leftOut \subseteq leftOut'
  BY DEF Next, Sender, Receiver, Tick, Record, Commit, ListUndispatched,
     ReadShares, GrantShare, EndShare, Dispatch, DispatchRollsBack, ListDue, Settle,
     CrashWorker, Deliver, Answer, GiveUp,
     RequeueOutbox, CancelPending, SwitchPeer, outboxVars, feedVars, shareVars
<1>3. \/ stage' = stage /\ overtaken' = overtaken
      \/ \E a \in Activities : Record(a) \/ Commit(a)
  BY DEF Next, Sender, Receiver, Tick, ListUndispatched,
     ReadShares, GrantShare, EndShare, Dispatch, DispatchRollsBack, ListDue, Settle,
     CrashWorker, Deliver, Answer, GiveUp,
     RequeueOutbox, CancelPending, SwitchPeer, outboxVars, feedVars
<1>4. ASSUME NEW a \in Activities, Commit(a)
      PROVE  /\ stage' = [stage EXCEPT ![a] = "committed"] /\ overtaken \subseteq overtaken'
             /\ \A b \in Activities : stage[b] = "committed" /\ a <= b => a \in overtaken'
  <2>1. stage[a] = "open"
    BY <1>4 DEF Commit
  <2>2. ASSUME NEW b \in Activities, stage[b] = "committed", a <= b
        PROVE  b > a
    BY <1>1, <2>1, <2>2
  <2> QED
    BY <1>4, <2>2 DEF Commit
<1>5. ASSUME NEW a \in Activities, Record(a)
      PROVE  stage[a] = "none" /\ stage' = [stage EXCEPT ![a] = "open"] /\ overtaken' = overtaken
  BY <1>5 DEF Record
<1>6. \A r \in Rows : Covered(r) => Covered(r)'
  BY <1>2, RowsMove DEF Covered, Shared
<1>7. CASE \E a \in Activities : Commit(a)
  BY <1>1, <1>2, <1>4, <1>6, <1>7
<1>8. CASE \E a \in Activities : Record(a)
  BY <1>1, <1>2, <1>5, <1>6, <1>8
<1> QED
  BY <1>2, <1>3, <1>6, <1>7, <1>8

\* So what was covered up to a committed activity is so after any step.
LEMMA CoveredStays ==
  ASSUME TypeInv, Next, NEW last \in Activities, NEW except, CoveredUpTo(last, except),
         stage[last] = "committed"
  PROVE  \A r \in Rows :
           /\ stage'[Act(r)] = "committed" /\ Act(r) <= last
           /\ Act(r) \notin overtaken' \cup except
           => Covered(r)'
<1> SUFFICES ASSUME NEW r \in Rows, stage'[Act(r)] = "committed", Act(r) <= last,
                    Act(r) \notin overtaken' \cup except
             PROVE  Covered(r)'
  OBVIOUS
<1>1. Act(r) \in Activities
  BY OutboxAssumption DEF Act
<1>2. stage[Act(r)] = "committed"
  BY <1>1, CoverageStep
<1>3. Act(r) \notin overtaken \cup except
  BY CoverageStep
<1> QED
  BY <1>2, <1>3, CoverageStep DEF CoveredUpTo

\* A cache is filled with what is in effect, and is emptied only whole.
LEMMA CacheStep ==
  ASSUME TypeInv, CacheInv, Next
  PROVE  CacheInv'
<1>1. ShareTyped /\ leftOut \subseteq leftOut'
  BY CoverageStep DEF TypeInv, SenderTyped
<1>2. CASE cached' = cached
  BY <1>1, <1>2 DEF CacheInv
<1>3. ASSUME NEW d \in Dispatchers, ListUndispatched(d)
      PROVE  CacheInv'
  <2>1. PICK kept \in SUBSET Objects :
          cached' = [cached EXCEPT ![d] =
                       [o \in Objects |-> IF o \in kept THEN cached[d][o] ELSE NULL]]
    BY <1>3 DEF ListUndispatched, Evictions
  <2>2. \A e \in Dispatchers, o \in Objects :
          cached'[e][o] # NULL => cached'[e][o] = cached[e][o]
    BY <1>1, <2>1 DEF ShareTyped
  <2> QED
    BY <1>1, <2>2 DEF CacheInv
<1>4. ASSUME NEW d \in Dispatchers, NEW o \in Objects, ReadShares(d, o)
      PROVE  CacheInv'
  <2>1. /\ cached' = [cached EXCEPT ![d][o] = InEffect(o)]
        /\ leftOut' = leftOut \cup ({s \in Shares : s[1] = o} \ InEffect(o))
    BY <1>4 DEF ReadShares
  <2>2. \A e \in Dispatchers, p \in Objects :
          cached'[e][p] = IF e = d /\ p = o THEN InEffect(o) ELSE cached[e][p]
    BY <1>1, <2>1 DEF ShareTyped
  <2> HIDE DEF InEffect
  <2> QED
    BY <1>1, <2>1, <2>2 DEF CacheInv
<1>5. \/ cached' = cached
      \/ \E d \in Dispatchers : ListUndispatched(d)
      \/ \E d \in Dispatchers, o \in Objects : ReadShares(d, o)
  BY DEF Next, Sender, Receiver, Tick, Record, Commit, GrantShare, EndShare, Dispatch,
     DispatchRollsBack, ListDue, Settle, CrashWorker, Deliver, Answer, GiveUp,
     RequeueOutbox, CancelPending, SwitchPeer, outboxVars, feedVars, shareVars
<1> QED
  BY <1>2, <1>3, <1>4, <1>5

\* An activity that is dispatched and was seen has the row of each share read.
LEMMA DispatchCovers ==
  ASSUME TypeInv, CacheInv, NEW d \in Dispatchers, Dispatch(d),
         NEW r \in Rows, Act(r) \in batch[d]
  PROVE  Covered(r)'
<1>1. PICK hidden \in SUBSET batch[d] :
        /\ \A a \in batch[d] \ hidden : Shared(a) => cached[d][ObjectOf[a]] # NULL
        /\ outbox' = [s \in Rows |->
                        IF outbox[s] = "absent"
                           /\ s \in UNION {Recipients(d, a) : a \in batch[d] \ hidden}
                        THEN "queued" ELSE outbox[s]]
        /\ misread' = misread \cup hidden
        /\ leftOut' = leftOut
  BY DEF Dispatch
<1>2. CASE Act(r) \in hidden
  BY <1>1, <1>2 DEF Covered
<1>3. CASE ~Shared(Act(r))
  BY <1>3 DEF Covered, Shared
<1>4. CASE Act(r) \notin hidden /\ Shared(Act(r))
  <2>1. Act(r) \in Activities /\ ObjectOf[Act(r)] \in Objects
    BY OutboxAssumption DEF Act, Objects
  <2>2. ShareOf(r) \in Shares /\ ShareOf(r)[1] = ObjectOf[Act(r)]
    BY DEF Shares, ShareOf
  <2>3. ShareOf(r) \in cached[d][ObjectOf[Act(r)]] \cup leftOut
    BY <1>1, <1>4, <2>1, <2>2 DEF CacheInv
  <2>4. CASE ShareOf(r) \in leftOut
    BY <1>1, <2>4 DEF Covered, ShareOf
  <2>5. CASE ShareOf(r) \in cached[d][ObjectOf[Act(r)]]
    <3>1. r \in Recipients(d, Act(r))
      BY <1>4, <2>5 DEF Recipients
    <3>2. r \in UNION {Recipients(d, a) : a \in batch[d] \ hidden}
      BY <1>4, <3>1
    <3>3. outbox'[r] # "absent"
      BY <1>1, <3>2
    <3> QED
      BY <3>3 DEF Covered
  <2> QED
    BY <2>3, <2>4, <2>5
<1> QED
  BY <1>2, <1>3, <1>4

LEMMA CursorStep ==
  TypeInv /\ CursorInv /\ [Next]_vars => CursorInv'
<1>0. /\ \A a \in Activities : a \in Nat /\ a # 0
      /\ \A r \in Rows : Act(r) \in Activities
  BY OutboxAssumption DEF Act
<1>1. ASSUME TypeInv, CursorInv, Next
      PROVE  CursorInv'
  <2>1. /\ SenderTyped /\ SenderTyped'
        /\ cursor \in Activities \cup {0} /\ batch \in [Dispatchers -> SUBSET Activities]
    BY <1>1, SenderStep DEF TypeInv, SenderTyped
  <2>2. \A d \in Dispatchers : batch[d] # {} =>
          /\ LastOf(batch[d]) \in batch[d] /\ LastOf(batch[d]) \in Activities
          /\ stage[LastOf(batch[d])] = "committed"
    BY <1>1, <2>1, LastOfBatch DEF CursorInv
  <2>3. ASSUME NEW d \in Dispatchers, batch[d] # {}, batch'[d] = batch[d]
        PROVE  /\ \A a \in batch'[d] : stage'[a] = "committed"
               /\ CoveredUpTo(LastOf(batch[d]), batch[d])'
    <3>1. \A a \in batch[d] : stage'[a] = "committed"
      BY <1>1, <2>1, <2>3, CoverageStep DEF CursorInv
    <3>2. CoveredUpTo(LastOf(batch[d]), batch[d])
      BY <1>1, <2>3 DEF CursorInv
    <3> QED
      BY <1>1, <2>2, <2>3, <3>1, <3>2, CoveredStays DEF CoveredUpTo
  <2>4. ASSUME cursor' = cursor
        PROVE  /\ cursor' # 0 => stage'[cursor'] = "committed"
               /\ CoveredUpTo(cursor, {})'
    <3>1. CASE cursor = 0
      <4>1. \A r \in Rows : ~(Act(r) <= 0)
        BY <1>0
      <4> QED
        BY <2>4, <3>1, <4>1 DEF CoveredUpTo
    <3>2. CASE cursor # 0
      <4>1. cursor \in Activities /\ stage[cursor] = "committed" /\ CoveredUpTo(cursor, {})
        BY <1>1, <2>1, <3>2 DEF CursorInv
      <4> QED
        BY <1>1, <2>4, <4>1, CoverageStep, CoveredStays DEF CoveredUpTo
    <3> QED
      BY <3>1, <3>2
  <2>0. CacheInv'
    BY <1>1, CacheStep DEF CursorInv
  <2>5. ASSUME NEW d \in Dispatchers, ListUndispatched(d)
        PROVE  CursorInv'
    <3>1. /\ batch' = [batch EXCEPT ![d] = Undispatched]
          /\ cursor' = cursor /\ stage' = stage /\ outbox' = outbox
          /\ overtaken' = overtaken /\ leftOut' = leftOut /\ misread' = misread
      BY <2>5 DEF ListUndispatched, queueVars
    <3>2. CoveredUpTo(LastOf(Undispatched), Undispatched)'
      <4>1. SUFFICES ASSUME NEW r \in Rows, stage[Act(r)] = "committed",
                            Act(r) \notin overtaken, Act(r) \notin Undispatched
                     PROVE  Covered(r)
        <5>1. Undispatched' = Undispatched
          BY <3>1 DEF Undispatched
        <5> QED
          BY <3>1, <5>1 DEF CoveredUpTo, Covered, Shared
      <4>2. Act(r) <= cursor
        BY <1>0, <2>1, <4>1 DEF Undispatched
      <4> QED
        BY <1>1, <4>1, <4>2 DEF CursorInv, CoveredUpTo
    <3>3. ASSUME NEW e \in Dispatchers, batch'[e] # {}
          PROVE  /\ \A a \in batch'[e] : stage'[a] = "committed"
                 /\ CoveredUpTo(LastOf(batch[e]), batch[e])'
      <4>1. CASE e = d
        <5>1. batch'[e] = Undispatched /\ Undispatched' = Undispatched
          BY <2>1, <3>1, <4>1 DEF Undispatched
        <5>2. \A a \in Undispatched : stage'[a] = "committed"
          BY <3>1 DEF Undispatched
        <5> QED
          BY <3>2, <5>1, <5>2 DEF CoveredUpTo
      <4>2. CASE e # d
        BY <2>1, <2>3, <3>1, <3>3, <4>2
      <4> QED
        BY <4>1, <4>2
    <3> QED
      BY <2>0, <2>4, <3>1, <3>3 DEF CursorInv
  <2>6. ASSUME NEW d \in Dispatchers, Dispatch(d)
        PROVE  CursorInv'
    <3>1. /\ batch[d] # {} /\ batch' = [batch EXCEPT ![d] = {}]
          /\ cursor' = LastOf(batch[d]) /\ stage' = stage /\ overtaken' = overtaken
      BY <2>6 DEF Dispatch, Advance
    <3>3. \A r \in Rows : Act(r) \in batch[d] => Covered(r)'
      BY <1>1, <2>6, DispatchCovers DEF CursorInv
    <3>4. CoveredUpTo(LastOf(batch[d]), batch[d])
      BY <1>1, <3>1 DEF CursorInv
    <3>5. CoveredUpTo(cursor, {})'
      BY <1>1, <2>2, <3>1, <3>3, <3>4, CoveredStays DEF CoveredUpTo
    <3>6. stage'[cursor'] = "committed"
      BY <2>2, <3>1
    <3>7. \A e \in Dispatchers : batch'[e] # {} => batch[e] # {} /\ batch'[e] = batch[e]
      BY <2>1, <3>1
    <3> QED
      BY <2>0, <2>3, <3>5, <3>6, <3>7 DEF CursorInv
  <2>7. ASSUME cursor' = cursor,
               \A d \in Dispatchers : batch'[d] # {} => batch[d] # {} /\ batch'[d] = batch[d]
        PROVE  CursorInv'
    BY <2>0, <2>3, <2>4, <2>7 DEF CursorInv
  <2>8. ASSUME NEW d \in Dispatchers, DispatchRollsBack(d)
        PROVE  CursorInv'
    BY <2>1, <2>7, <2>8 DEF DispatchRollsBack
  <2>9. \/ cursor' = cursor /\ batch' = batch
        \/ \E d \in Dispatchers : ListUndispatched(d) \/ Dispatch(d) \/ DispatchRollsBack(d)
    BY <1>1 DEF Next, Sender, Receiver, Tick, Record, Commit, ReadShares, GrantShare,
       EndShare, ListDue, Settle, CrashWorker, Deliver, Answer, GiveUp, RequeueOutbox,
       CancelPending, SwitchPeer, outboxVars, feedVars
  <2> QED
    BY <2>5, <2>6, <2>7, <2>8, <2>9
<1>2. ASSUME CursorInv, UNCHANGED vars
      PROVE  CursorInv'
  BY <1>2 DEF vars, outboxVars, feedVars, shareVars, queueVars, CursorInv, CacheInv,
     CoveredUpTo, Covered, Shared
<1> QED
  BY <1>1, <1>2

\* The cursor passes a shared activity without its row only for a reason that is
\* known: it committed after a later one, its visibility could not be looked up,
\* or a process read the object's recipients while the share was not in effect or
\* its peer was off, and has kept what it read.
THEOREM NothingLost == Spec => []CursorMissesOnlyOvertaken
<1>1. Init => CursorInv
  BY OutboxAssumption DEF Init, OutboxInit, CursorInv, CacheInv, CoveredUpTo, Act
<1>2. CursorInv => CursorMissesOnlyOvertaken
  BY DEF CursorInv, CoveredUpTo, Covered, CursorMissesOnlyOvertaken
<1> QED
  BY <1>1, <1>2, TypeInit, TypeStep, CursorStep, PTL DEF Spec

-----------------------------------------------------------------------------
(* What was received.                                                      *)

\* A row of the inbox does not disappear, and history only grows.
LEMMA InboxKept ==
  ASSUME TypeInv, Next
  PROVE  /\ \A c \in Copies : inbox[c] # "absent" => inbox'[c] # "absent"
         /\ turnedAway \subseteq turnedAway'
<1>1. inbox \in [Copies -> InboxStatuses]
  BY DEF TypeInv, ReceiverTyped
<1>2. turnedAway \subseteq turnedAway'
  BY DEF Next, Sender, Receiver, Tick, TurnRequestAway, Note, Store, Reject, Vanish,
     ListPending, Look, Insert, Notify, Finish, CrashReader, RequeueInbox, inboxVars
<1>3. ASSUME NEW b, NEW st \in InboxStatuses \ {"absent"}, inbox' = [inbox EXCEPT ![b] = st]
      PROVE  \A c \in Copies : inbox[c] # "absent" => inbox'[c] # "absent"
  BY <1>1, <1>3
<1>4. ASSUME NEW b, NEW n, MarkAttempt(b, n)
      PROVE  \A c \in Copies : inbox[c] # "absent" => inbox'[c] # "absent"
  BY <1>1, <1>4 DEF MarkAttempt, Mark, InboxStatuses
<1>5. \/ inbox' = inbox
      \/ \E b : \E st \in InboxStatuses \ {"absent"} : inbox' = [inbox EXCEPT ![b] = st]
      \/ \E b, n : MarkAttempt(b, n)
  <2>1. {"pending", "processed", "rejected", "failed"} \subseteq InboxStatuses \ {"absent"}
    BY DEF InboxStatuses
  <2>2. ASSUME NEW d \in Readers, Look(d)
        PROVE  \/ inbox' = inbox
               \/ \E b : \E st \in InboxStatuses \ {"absent"} : inbox' = [inbox EXCEPT ![b] = st]
               \/ \E b, n : MarkAttempt(b, n)
    BY <2>1, <2>2 DEF Look, Mark, receiptVars
  <2>3. ASSUME NEW d \in Readers, Insert(d) \/ Finish(d)
        PROVE  \/ inbox' = inbox
               \/ \E b : \E st \in InboxStatuses \ {"absent"} : inbox' = [inbox EXCEPT ![b] = st]
               \/ \E b, n : MarkAttempt(b, n)
    BY <2>1, <2>3 DEF Insert, Finish, Mark, receiptVars
  <2>4. ASSUME NEW q \in calls, Store(q)
        PROVE  \/ inbox' = inbox
               \/ \E b : \E st \in InboxStatuses \ {"absent"} : inbox' = [inbox EXCEPT ![b] = st]
    BY <2>1, <2>4 DEF Store
  <2>5. ASSUME NEW b \in Copies, RequeueInbox(b)
        PROVE  \E st \in InboxStatuses \ {"absent"} : inbox' = [inbox EXCEPT ![b] = st]
    BY <2>1, <2>5 DEF RequeueInbox
  <2>6. \/ inbox' = inbox
        \/ \E d \in Readers : Look(d) \/ Insert(d) \/ Finish(d)
        \/ \E q \in calls : Store(q)
        \/ \E b \in Copies : RequeueInbox(b)
    BY DEF Next, Sender, Receiver, Tick, TurnRequestAway, Note, Vanish,
       ListPending, Notify, CrashReader, inboxVars, receiptVars
  <2> QED
    BY <2>2, <2>3, <2>4, <2>5, <2>6
<1> QED
  BY <1>2, <1>3, <1>4, <1>5

\* A request that noted a copy goes on, or leaves a row or a trace behind.
LEMMA NotedKept ==
  ASSUME TypeInv, Next, NEW q \in calls, q.noted
  PROVE  Received(NextCopy(q))'
<1> DEFINE c == NextCopy(q)
<1>1. CallSound(q) /\ ~Answered(q) /\ c \in Copies
  BY NextCopyOf DEF TypeInv, CallSound
<1>2. inbox \in [Copies -> InboxStatuses]
  BY DEF TypeInv, ReceiverTyped
<1>3. CASE q \in calls'
  BY <1>3 DEF Received
<1>4. ASSUME NEW new \in calls', new = [q EXCEPT !.from = NULL]
      PROVE  Received(c)'
  <2>1. new.noted /\ NextCopy(new) = c
    BY <1>1, <1>4 DEF CallSound, CallType, NextCopy
  <2> QED
    BY <2>1 DEF Received
<1>5. CASE GiveUp(q)
  <2>1. [q EXCEPT !.from = NULL] \in calls'
    BY <1>5 DEF GiveUp, Progress
  <2> QED
    BY <1>4, <2>1
<1>6. ASSUME NEW w \in Workers, CrashWorker(w)
      PROVE  Received(c)'
  <2>1. q \in calls' \/ [q EXCEPT !.from = NULL] \in calls'
    BY <1>6 DEF CrashWorker
  <2> QED
    BY <1>3, <1>4, <2>1
<1>7. CASE Vanish(q)
  BY <1>7 DEF Vanish, Received
<1>8. CASE Store(q)
  BY <1>1, <1>2, <1>8 DEF Store, Reject, Received
<1>9. \/ q \in calls'
      \/ \E w \in Workers : CrashWorker(w)
      \/ GiveUp(q) \/ Vanish(q) \/ Store(q)
  <2>1. ASSUME NEW x \in calls, x # q,
               Answer(x) \/ GiveUp(x) \/ Vanish(x) \/ TurnRequestAway(x) \/ Note(x) \/ Store(x)
        PROVE  q \in calls'
    BY <2>1 DEF Answer, GiveUp, Vanish, TurnRequestAway, Note, Store, Reject, Reply, Progress
  <2>2. ~Answer(q) /\ ~TurnRequestAway(q) /\ ~Note(q)
    BY <1>1 DEF Answer, TurnRequestAway, Note
  <2>3. ASSUME NEW w \in Workers, NEW p \in Peers, Deliver(w, p)
        PROVE  q \in calls'
    BY <2>3, DeliverPosts
  <2>4. \/ calls' = calls
        \/ \E w \in Workers, p \in Peers : Deliver(w, p)
        \/ \E w \in Workers : CrashWorker(w)
        \/ \E x \in calls : Answer(x) \/ GiveUp(x) \/ Vanish(x) \/ TurnRequestAway(x)
                            \/ Note(x) \/ Store(x)
    BY DEF Next, Sender, Receiver, Tick, Record, Commit, ListUndispatched,
     ReadShares, GrantShare, EndShare, Dispatch, DispatchRollsBack, ListDue, Settle,
     RequeueOutbox, CancelPending, SwitchPeer,
       ListPending, Look, Insert, Notify, Finish, CrashReader, RequeueInbox, workVars
  <2> QED
    BY <2>1, <2>2, <2>3, <2>4
<1> QED
  BY <1>3, <1>5, <1>6, <1>7, <1>8, <1>9

LEMMA ReceivedStays ==
  ASSUME TypeInv, Next, NEW c \in Copies, Received(c)
  PROVE  Received(c)'
BY InboxKept, NotedKept DEF Received

\* A worker is told that a row was sent only by an answer for its copy.
LEMMA ToldSent ==
  ASSUME TypeInv, ReceivedInv, NEW q \in calls, Answer(q), NEW i \in Keyed(q),
         ResultFor(q, i) = "sent"
  PROVE  Received(CopyOf(q.rows[i][1]))
<1>1. CallSound(q) /\ Answered(q) /\ i \in DOMAIN q.rows
  BY DEF TypeInv, Answer, Keyed
<1>2. PICK k \in DOMAIN q.rows :
        /\ Act(q.rows[k][1]) = Act(q.rows[i][1])
        /\ k \in DOMAIN q.answers /\ q.answers[k] \in Responses
        /\ ResultFor(q, i) = Reading[q.answers[k]]
  BY <1>1, ResultFrom
<1>3. q.answers[k] \in {"stored", "replayed"}
  BY <1>2, Readings
<1>4. CopyOf(q.rows[k][1]) = CopyOf(q.rows[i][1])
  BY <1>1, <1>2 DEF CallSound, CopyOf
<1> QED
  BY <1>2, <1>3, <1>4 DEF ReceivedInv

LEMMA VerdictsFrom ==
  ASSUME TypeInv, ReceivedInv, Next, NEW w \in Workers, NEW v \in verdict'[w], v[3] = "sent"
  PROVE  Received(CopyOf(v[1]))
<1>1. verdict \in [Workers -> SUBSET (Rows \X Nat \X Verdicts)]
  BY DEF TypeInv, SenderTyped
<1>2. CASE v \in verdict[w]
  BY <1>2 DEF ReceivedInv
<1>3. ASSUME NEW q \in calls, Answer(q)
      PROVE  Received(CopyOf(v[1]))
  <2>1. CASE v \notin verdict[w]
    <3>1. v \in Settled(q, [i \in Keyed(q) |-> ResultFor(q, i)])
      BY <1>1, <1>3, <2>1 DEF Answer
    <3>2. PICK i \in Keyed(q) : v = <<q.rows[i][1], q.rows[i][2], ResultFor(q, i)>>
      BY <3>1 DEF Settled
    <3> QED
      BY <1>3, <3>2, ToldSent
  <2> QED
    BY <1>2, <2>1
<1>4. ASSUME NEW q \in calls, GiveUp(q)
      PROVE  v \in verdict[w]
  BY <1>1, <1>4 DEF GiveUp, Settled
<1>5. ASSUME NEW x \in Workers, NEW p \in Peers, Deliver(x, p)
      PROVE  v \in verdict[w]
  <2> DEFINE group == {h \in hand[x] : PeerOf(h[1]) = p}
             refused == Refused(group)
             early == IF Cardinality(group) = 1 THEN refused ELSE {}
  <2>1. \A S : \A u \in Verdict(S, "refused") \cup Verdict(S, "failed") \cup Verdict(S, "retry") :
          u[3] # "sent"
    BY DEF Verdict
  <2>2. \/ verdict' = [verdict EXCEPT ![x] = Verdict(refused, "refused")]
        \/ verdict' = [verdict EXCEPT ![x] =
                         Verdict(early, "refused") \cup Verdict(group \ early, "failed")]
        \/ verdict' = [verdict EXCEPT ![x] =
                         Verdict(early, "refused") \cup Verdict(group \ early, "retry")]
    BY <1>5 DEF Deliver
  <2> HIDE DEF refused, early, group
  <2> QED
    BY <1>1, <2>1, <2>2
<1>6. ASSUME NEW x \in Workers, Settle(x) \/ CrashWorker(x)
      PROVE  v \in verdict[w]
  BY <1>1, <1>6 DEF Settle, CrashWorker
<1>7. \/ verdict' = verdict
      \/ \E q \in calls : Answer(q) \/ GiveUp(q)
      \/ \E x \in Workers, p \in Peers : Deliver(x, p)
      \/ \E x \in Workers : Settle(x) \/ CrashWorker(x)
  BY DEF Next, Sender, Receiver, Tick, Record, Commit, ListUndispatched,
     ReadShares, GrantShare, EndShare, Dispatch, ListDue,
     DispatchRollsBack, RequeueOutbox, CancelPending, SwitchPeer, workVars, outboxVars
<1> QED
  BY <1>2, <1>3, <1>4, <1>5, <1>6, <1>7

\* An answer that says the peer has the copy is true when it is given.
LEMMA AnswersFrom ==
  ASSUME TypeInv, ReceivedInv, Next, NEW q \in calls', NEW i \in DOMAIN q.answers,
         q.answers[i] \in {"stored", "replayed"}
  PROVE  \/ Received(CopyOf(q.rows[i][1]))
         \/ Received(CopyOf(q.rows[i][1]))'
<1> DEFINE c == CopyOf(q.rows[i][1])
<1>1. \A x \in calls : CallSound(x)
  BY DEF TypeInv
<1>2. inbox \in [Copies -> InboxStatuses]
  BY DEF TypeInv, ReceiverTyped
<1>3. ASSUME NEW x \in calls, q.rows = x.rows, q.answers = x.answers
      PROVE  Received(c)
  BY <1>3 DEF ReceivedInv
<1>4. ASSUME NEW w \in Workers, NEW p \in Peers, Deliver(w, p)
      PROVE  Received(c)
  BY <1>3, <1>4, DeliverPosts
<1>5. ASSUME NEW x \in calls, Answer(x) \/ Vanish(x)
      PROVE  Received(c)
  BY <1>3, <1>5 DEF Answer, Vanish
<1>6. ASSUME NEW x \in calls, NEW new, new = [x EXCEPT !.from = NULL] \/ new = [x EXCEPT !.noted = TRUE]
      PROVE  new.rows = x.rows /\ new.answers = x.answers
  BY <1>1, <1>6 DEF CallSound, CallType
<1>7. ASSUME NEW x \in calls, GiveUp(x)
      PROVE  Received(c)
  BY <1>3, <1>6, <1>7 DEF GiveUp, Progress
<1>8. ASSUME NEW w \in Workers, CrashWorker(w)
      PROVE  Received(c)
  BY <1>3, <1>6, <1>8 DEF CrashWorker
<1>9. ASSUME NEW x \in calls, TurnRequestAway(x)
      PROVE  Received(c)
  <2>1. PICK a \in {"rejected", "error"} :
          Progress(x, [x EXCEPT !.answers = [k \in DOMAIN x.rows |-> a]])
    BY <1>9 DEF TurnRequestAway
  <2>2. PICK new : new = [x EXCEPT !.answers = [k \in DOMAIN x.rows |-> a]]
    OBVIOUS
  <2>3. a \in Responses /\ ~x.noted /\ CallSound(x)
    BY <1>1, <1>9 DEF TurnRequestAway, Responses
  <2>4. new.answers = [k \in DOMAIN x.rows |-> a]
    BY <2>2, <2>3, AwaySound
  <2>5. q # new
    BY <2>4
  <2> QED
    BY <1>3, <2>1, <2>2, <2>5 DEF Progress
\* The answer that is added is about the copy noted or stored now.
<1>10. ASSUME NEW x \in calls, ~Answered(x), NEW a \in Responses, Reply(x, a),
              a \in {"stored", "replayed"} => Received(NextCopy(x)) \/ Received(NextCopy(x))'
       PROVE  Received(c) \/ Received(c)'
  <2>1. PICK new : new = [x EXCEPT !.answers = Append(@, a), !.noted = FALSE]
    OBVIOUS
  <2>2. CallSound(x)
    BY <1>1
  <2>3. new.rows = x.rows /\ new.answers = Append(x.answers, a)
    BY <1>10, <2>1, <2>2, ReplySound
  <2>4. CASE q = new
    <3>1. x.answers \in Seq(Responses)
      BY <2>2 DEF CallSound, CallType
    <3>2. CASE i \in DOMAIN x.answers
      <4>1. q.answers[i] = x.answers[i]
        BY <2>3, <2>4, <3>1, <3>2
      <4> QED
        BY <2>3, <2>4, <3>2, <4>1 DEF ReceivedInv
    <3>3. CASE i \notin DOMAIN x.answers
      <4>1. i = Len(x.answers) + 1 /\ q.answers[i] = a
        BY <2>3, <2>4, <3>1, <3>3
      <4>2. c = NextCopy(x)
        BY <1>10, <2>2, <2>3, <2>4, <4>1, NextCopyOf
      <4> QED
        BY <1>10, <4>1, <4>2
    <3> QED
      BY <3>2, <3>3
  <2> QED
    BY <1>3, <1>10, <2>1, <2>4 DEF Reply, Progress
<1>11. ASSUME NEW x \in calls, Note(x)
       PROVE  Received(c) \/ Received(c)'
  <2>1. CASE Reply(x, "replayed") /\ fresh[NextCopy(x)] > 0
    <3>1. NextCopy(x) \in Copies
      BY <1>1, <1>11, NextCopyOf DEF Note
    <3>2. Received(NextCopy(x))
      BY <2>1, <3>1 DEF ReceivedInv
    <3> QED
      BY <1>10, <1>11, <2>1, <3>2 DEF Note, Responses
  <2>2. CASE Progress(x, [x EXCEPT !.noted = TRUE])
    BY <1>3, <1>6, <2>2 DEF Progress
  <2> QED
    BY <1>11, <2>1, <2>2 DEF Note
<1>12. ASSUME NEW x \in calls, Store(x)
       PROVE  Received(c) \/ Received(c)'
  <2>1. NextCopy(x) \in Copies
    BY <1>1, <1>12, NextCopyOf DEF Store
  <2>2. PICK a \in Responses :
          /\ Reply(x, a)
          /\ a \in {"stored", "replayed"} => inbox[NextCopy(x)] # "absent" \/ inbox'[NextCopy(x)] # "absent"
    BY <1>2, <1>12, <2>1 DEF Store, Reject, Responses
  <2>3. a \in {"stored", "replayed"} => Received(NextCopy(x)) \/ Received(NextCopy(x))'
    BY <2>2 DEF Received
  <2> QED
    BY <1>10, <1>12, <2>2, <2>3 DEF Store
<1>13. CASE calls' = calls
  BY <1>3, <1>13
<1>14. \/ calls' = calls
       \/ \E w \in Workers, p \in Peers : Deliver(w, p)
       \/ \E w \in Workers : CrashWorker(w)
       \/ \E x \in calls : Answer(x) \/ GiveUp(x) \/ Vanish(x) \/ TurnRequestAway(x)
                           \/ Note(x) \/ Store(x)
  BY DEF Next, Sender, Receiver, Tick, Record, Commit, ListUndispatched,
     ReadShares, GrantShare, EndShare, Dispatch, DispatchRollsBack, ListDue, Settle,
     RequeueOutbox, CancelPending, SwitchPeer,
     ListPending, Look, Insert, Notify, Finish, CrashReader, RequeueInbox, workVars
<1> QED
  BY <1>4, <1>5, <1>7, <1>8, <1>9, <1>11, <1>12, <1>13, <1>14

\* The cache remembers what was noted.
LEMMA FreshFrom ==
  ASSUME TypeInv, ReceivedInv, Next, NEW c \in Copies, fresh'[c] > 0
  PROVE  Received(c) \/ Received(c)'
<1>1. fresh \in [Copies -> 0..CacheTTL] /\ CacheTTL \in Nat
  BY InboxAssumption DEF TypeInv, ReceiverTyped
<1>2. CASE fresh[c] > 0
  BY <1>2 DEF ReceivedInv
<1>3. ASSUME NEW q \in calls, Note(q)
      PROVE  Received(c) \/ Received(c)'
  <2>1. CallSound(q)
    BY DEF TypeInv
  <2>2. CASE c = NextCopy(q) /\ ~(fresh[c] > 0)
    <3>1. Progress(q, [q EXCEPT !.noted = TRUE])
      BY <1>3, <2>2 DEF Note
    <3>2. PICK new : new = [q EXCEPT !.noted = TRUE]
      OBVIOUS
    <3>3. new \in calls' /\ new.noted /\ NextCopy(new) = c
      BY <2>1, <2>2, <3>1, <3>2 DEF CallSound, CallType, NextCopy, Progress
    <3> QED
      BY <3>3 DEF Received
  <2>3. CASE c # NextCopy(q)
    BY <1>1, <1>2, <1>3, <2>3 DEF Note
  <2> QED
    BY <1>2, <2>2, <2>3
<1>4. CASE Tick
  BY <1>1, <1>2, <1>4 DEF Tick, CacheTick
<1>5. CASE fresh' = fresh
  BY <1>2, <1>5
<1>6. \/ fresh' = fresh
      \/ Tick
      \/ \E q \in calls : Note(q)
  BY DEF Next, Sender, Receiver, TurnRequestAway, Store, Vanish, ListPending, Look, Insert,
     Notify, Finish, CrashReader, RequeueInbox, inboxVars
<1> QED
  BY <1>3, <1>4, <1>5, <1>6

LEMMA ReceivedStep ==
  TypeInv /\ ReceivedInv /\ [Next]_vars => ReceivedInv'
<1>1. ASSUME TypeInv, ReceivedInv, Next
      PROVE  ReceivedInv'
  <2>1. \A r \in Rows : CopyOf(r) \in Copies
    BY FederationAssumption DEF CopyOf
  <2>2. ASSUME NEW r \in Rows, outbox'[r] = "sent"
        PROVE  Received(CopyOf(r))'
    <3>1. Received(CopyOf(r))
      BY <1>1, <2>2, RowsMove DEF ReceivedInv
    <3> QED
      BY <1>1, <2>1, <3>1, ReceivedStays
  <2>3. ASSUME NEW w \in Workers, NEW v \in verdict'[w], v[3] = "sent"
        PROVE  Received(CopyOf(v[1]))'
    <3>1. v[1] \in Rows
      BY <1>1, <2>3, SenderStep DEF SenderTyped
    <3>2. Received(CopyOf(v[1]))
      BY <1>1, <2>3, VerdictsFrom
    <3> QED
      BY <1>1, <2>1, <3>1, <3>2, ReceivedStays
  <2>4. ASSUME NEW q \in calls', NEW i \in DOMAIN q.answers,
               q.answers[i] \in {"stored", "replayed"}
        PROVE  Received(CopyOf(q.rows[i][1]))'
    <3>1. CallSound(q)
      BY <1>1, CallsStep
    <3>2. q.rows[i][1] \in Rows
      BY <3>1 DEF CallSound, CallType
    <3> QED
      BY <1>1, <2>1, <2>4, <3>2, AnswersFrom, ReceivedStays
  <2>5. ASSUME NEW c \in Copies, fresh'[c] > 0
        PROVE  Received(c)'
    BY <1>1, <2>5, FreshFrom, ReceivedStays
  <2> QED
    BY <2>2, <2>3, <2>4, <2>5 DEF ReceivedInv
<1>2. ASSUME ReceivedInv, UNCHANGED vars
      PROVE  ReceivedInv'
  BY <1>2 DEF vars, outboxVars, queueVars, inboxVars, receiptVars, ReceivedInv, Received
<1> QED
  BY <1>1, <1>2

\* What is marked sent was received: it is in the peer's inbox, or was noted
\* there and turned away, or is between the two.
THEOREM SentIsReceived == Spec => []SentWasReceived
<1>1. Init => ReceivedInv
  BY DEF Init, OutboxInit, InboxInit, ReceivedInv
<1>2. ReceivedInv => SentWasReceived
  BY DEF ReceivedInv, Received, SentWasReceived
<1> QED
  BY <1>1, <1>2, TypeInit, TypeStep, ReceivedStep, PTL DEF Spec

-----------------------------------------------------------------------------
(* What the peer's author hears.                                           *)

\* Only Finish makes a row processed.
LEMMA ProcessedFrom ==
  ASSUME TypeInv, Next, NEW c \in Copies, inbox'[c] = "processed", inbox[c] # "processed"
  PROVE  \E d \in Readers : \E s \in doing[d] : s.copy = c /\ s.at = "mark" /\ Finish(d)
<1>1. inbox \in [Copies -> InboxStatuses]
  BY DEF TypeInv, ReceiverTyped
<1>2. ASSUME NEW b, NEW n, MarkAttempt(b, n)
      PROVE  FALSE
  BY <1>1, <1>2 DEF MarkAttempt, Mark
<1>3. ASSUME NEW d \in Readers, Look(d) \/ Insert(d)
      PROVE  FALSE
  BY <1>1, <1>2, <1>3 DEF Look, Insert, Mark, receiptVars
<1>4. ASSUME NEW q \in calls, Store(q)
      PROVE  FALSE
  BY <1>1, <1>4 DEF Store
<1>5. ASSUME NEW b \in Copies, RequeueInbox(b)
      PROVE  FALSE
  BY <1>1, <1>5 DEF RequeueInbox
<1>6. ASSUME NEW d \in Readers, Finish(d)
      PROVE  \E s \in doing[d] : s.copy = c /\ s.at = "mark"
  BY <1>1, <1>6 DEF Finish, Mark
<1>7. \/ inbox' = inbox
      \/ \E d \in Readers : Look(d) \/ Insert(d) \/ Finish(d)
      \/ \E q \in calls : Store(q)
      \/ \E b \in Copies : RequeueInbox(b)
  BY DEF Next, Sender, Receiver, Tick, TurnRequestAway, Note, Vanish,
     ListPending, Notify, CrashReader, inboxVars, receiptVars
<1> QED
  BY <1>3, <1>4, <1>5, <1>6, <1>7

\* A reader takes one step with one copy.
LEMMA ReaderStep ==
  ASSUME TypeInv, Next, EffectsInv, NEW d \in Readers,
         Look(d) \/ Insert(d) \/ Notify(d) \/ Finish(d) \/ CrashReader(d)
  PROVE  EffectsInv'
<1>1. /\ doing \in [Readers -> SUBSET Step]
      /\ \A e \in Readers : \A s, t \in doing[e] : s = t
      /\ applied \subseteq Copies /\ notified \in [Copies -> Nat]
      /\ desk \in [Readers -> SUBSET (Copies \X Nat)]
      /\ mishaps \in Nat
  BY DEF TypeInv, ReceiverTyped
<1>2. mishaps' \in Nat /\ (mishaps' = 0 => mishaps = 0)
  BY <1>1, MishapsStep
<1>3. \A s \in Step, at \in {"insert", "notify", "mark"} :
        LET new == [s EXCEPT !.at = at] IN new.copy = s.copy /\ new.at = at
  BY DEF Step
<1> SUFFICES ASSUME NEW c \in Copies
             PROVE  ToldOnce(c)'
  BY DEF EffectsInv
<1>4. ToldOnce(c) /\ \A b \in Copies : ToldOnce(b)
  BY DEF EffectsInv
<1>5. inbox'[c] = "processed" =>
        \/ inbox[c] = "processed"
        \/ \E e \in Readers : \E s \in doing[e] : s.copy = c /\ s.at = "mark"
  BY ProcessedFrom
<1>6. c \notin applied => inbox'[c] # "processed"
  BY <1>4, <1>5 DEF ToldOnce
<1>7. CASE Look(d)
  <2>1. PICK h \in desk[d] :
          /\ doing[d] = {}
          /\ \/ doing' = [doing EXCEPT ![d] =
                     {[copy |-> h[1], tries |-> h[2],
                       at |-> IF h[1] \in applied THEN "mark" ELSE "insert"]}]
             \/ doing' = doing
          /\ UNCHANGED <<applied, notified>>
    BY <1>7 DEF Look
  <2>2. \A e \in Readers : Tells(e, c)' <=> Tells(e, c)
    BY <1>1, <2>1 DEF Tells
  <2>3. c \notin applied => \A e \in Readers : \A s \in doing'[e] : s.copy = c => s.at = "insert"
    BY <1>1, <1>4, <2>1 DEF ToldOnce
  <2> QED
    BY <1>2, <1>4, <1>6, <2>1, <2>2, <2>3 DEF ToldOnce
<1>8. CASE Insert(d)
  <2>1. PICK s \in doing[d] :
          /\ s.at = "insert" /\ applied' = applied \cup {s.copy} /\ notified' = notified
          /\ \/ s.copy \notin applied /\ Goes(d, s, "notify")
             \/ s.copy \in applied /\ Goes(d, s, "mark")
             \/ s.copy \in applied /\ doing' = [doing EXCEPT ![d] = {}]
    BY <1>8 DEF Insert
  <2>2. s \in Step /\ doing[d] = {s}
    BY <1>1
  <2>3. PICK new : new = [s EXCEPT !.at = "notify"]
    OBVIOUS
  <2>4. PICK done : done = [s EXCEPT !.at = "mark"]
    OBVIOUS
  <2>5. new.copy = s.copy /\ new.at = "notify" /\ done.copy = s.copy /\ done.at = "mark"
    BY <1>3, <2>2, <2>3, <2>4
  <2>6. \/ s.copy \notin applied /\ doing' = [doing EXCEPT ![d] = {new}]
        \/ s.copy \in applied /\ doing' = [doing EXCEPT ![d] = {done}]
        \/ s.copy \in applied /\ doing' = [doing EXCEPT ![d] = {}]
    BY <2>1, <2>3, <2>4 DEF Goes
  <2>7. ~Tells(d, c)
    BY <2>1, <2>2 DEF Tells
  <2>8. \A e \in Readers : e # d => doing'[e] = doing[e]
    BY <1>1, <2>6
  <2>9. CASE c = s.copy /\ s.copy \notin applied
    <3>1. notified[c] = 0 /\ \A e \in Readers : ~Tells(e, c)
      BY <1>4, <2>9 DEF ToldOnce, Tells
    <3>2. doing'[d] = {new}
      BY <1>1, <2>6, <2>9
    <3>3. \A e \in Readers : Tells(e, c)' <=> e = d
      BY <2>5, <2>8, <2>9, <3>1, <3>2 DEF Tells
    <3>4. c \in applied' /\ notified'[c] = 0
      BY <2>1, <2>9, <3>1
    <3> QED
      BY <3>3, <3>4 DEF ToldOnce
  <2>10. CASE ~(c = s.copy /\ s.copy \notin applied)
    <3>1. \A e \in Readers : Tells(e, c)' <=> Tells(e, c)
      BY <1>1, <2>5, <2>6, <2>7, <2>8, <2>10 DEF Tells
    <3>2. c \notin applied' => \A e \in Readers : \A t \in doing'[e] : t.copy = c => t.at = "insert"
      BY <1>1, <1>4, <2>1, <2>5, <2>6, <2>8 DEF ToldOnce
    <3>3. c \in applied' <=> c \in applied
      BY <2>1, <2>10
    <3> QED
      BY <1>2, <1>4, <1>6, <2>1, <3>1, <3>2, <3>3 DEF ToldOnce
  <2> QED
    BY <2>9, <2>10
<1>9. CASE Notify(d)
  <2>1. PICK s \in doing[d] :
          /\ s.at = "notify" /\ Goes(d, s, "mark") /\ applied' = applied
          /\ \/ notified' = [notified EXCEPT ![s.copy] = @ + 1]
             \/ notified' = notified /\ Mishap
    BY <1>9 DEF Notify
  <2>2. s \in Step /\ doing[d] = {s} /\ s.copy \in Copies
    BY <1>1 DEF Step
  <2>3. PICK done : done = [s EXCEPT !.at = "mark"]
    OBVIOUS
  <2>4. done.copy = s.copy /\ done.at = "mark" /\ doing' = [doing EXCEPT ![d] = {done}]
    BY <1>3, <2>1, <2>2, <2>3 DEF Goes
  <2>5. Tells(d, s.copy) /\ s.copy \in applied /\ notified[s.copy] = 0
    BY <1>4, <2>1, <2>2 DEF ToldOnce, Tells
  <2>6. CASE c = s.copy
    <3>1. \A e \in Readers : ~Tells(e, c)'
      BY <1>1, <1>4, <2>4, <2>5, <2>6 DEF ToldOnce, Tells
    <3>2. /\ notified'[c] <= 1
          /\ mishaps' = 0 => notified'[c] = 1
      BY <1>1, <2>1, <2>2, <2>5, <2>6 DEF Mishap
    <3> QED
      BY <2>1, <2>5, <2>6, <3>1, <3>2 DEF ToldOnce
  <2>7. CASE c # s.copy
    <3>1. notified'[c] = notified[c]
      BY <1>1, <2>1, <2>7
    <3>2. \A e \in Readers : Tells(e, c)' <=> Tells(e, c)
      BY <1>1, <2>2, <2>4, <2>7 DEF Tells
    <3>3. c \notin applied => \A e \in Readers : \A t \in doing'[e] : t.copy = c => t.at = "insert"
      BY <1>1, <1>4, <2>4, <2>7 DEF ToldOnce
    <3> QED
      BY <1>2, <1>4, <1>6, <2>1, <3>1, <3>2, <3>3 DEF ToldOnce
  <2> QED
    BY <2>6, <2>7
<1>10. CASE Finish(d)
  <2>1. PICK s \in doing[d] :
          /\ s.at = "mark" /\ doing' = [doing EXCEPT ![d] = {}]
          /\ UNCHANGED <<applied, notified>>
    BY <1>10 DEF Finish
  <2>2. doing[d] = {s}
    BY <1>1
  <2>3. \A e \in Readers : Tells(e, c)' <=> Tells(e, c)
    BY <1>1, <2>1, <2>2 DEF Tells
  <2>4. c \notin applied => \A e \in Readers : \A t \in doing'[e] : t.copy = c => t.at = "insert"
    BY <1>1, <1>4, <2>1 DEF ToldOnce
  <2> QED
    BY <1>2, <1>4, <1>6, <2>1, <2>3, <2>4 DEF ToldOnce
<1>11. CASE CrashReader(d)
  <2>1. /\ doing' = [doing EXCEPT ![d] = {}] /\ mishaps' # 0
        /\ UNCHANGED <<applied, notified>>
    BY <1>1, <1>11 DEF CrashReader, Mishap
  <2>2. \A e \in Readers : doing'[e] \subseteq doing[e]
    BY <1>1, <2>1
  <2>3. \A e \in Readers : Tells(e, c)' => Tells(e, c)
    BY <2>2 DEF Tells
  <2>4. c \notin applied => \A e \in Readers : \A t \in doing'[e] : t.copy = c => t.at = "insert"
    BY <1>4, <2>2 DEF ToldOnce
  <2> QED
    BY <1>4, <1>6, <2>1, <2>3, <2>4 DEF ToldOnce
<1> QED
  BY <1>7, <1>8, <1>9, <1>10, <1>11

LEMMA EffectsStep ==
  TypeInv /\ EffectsInv /\ [Next]_vars => EffectsInv'
<1>1. ASSUME TypeInv, EffectsInv, Next
      PROVE  EffectsInv'
  <2>1. CASE UNCHANGED <<doing, applied, notified>>
    <3>1. mishaps' = 0 => mishaps = 0
      BY <1>1, MishapsStep DEF TypeInv
    <3>2. ASSUME NEW c \in Copies
          PROVE  ToldOnce(c)'
      <4>1. ToldOnce(c)
        BY <1>1 DEF EffectsInv
      <4>2. \A d \in Readers : Tells(d, c)' <=> Tells(d, c)
        BY <2>1 DEF Tells
      <4>3. c \notin applied => inbox'[c] # "processed"
        BY <1>1, <4>1, ProcessedFrom DEF ToldOnce
      <4> QED
        BY <2>1, <3>1, <4>1, <4>2, <4>3 DEF ToldOnce
    <3> QED
      BY <3>2 DEF EffectsInv
  <2>2. \/ UNCHANGED <<doing, applied, notified>>
        \/ \E d \in Readers : Look(d) \/ Insert(d) \/ Notify(d) \/ Finish(d) \/ CrashReader(d)
    BY <1>1 DEF Next, Sender, Receiver, Tick, TurnRequestAway, Note, Store, Vanish,
       ListPending, RequeueInbox, inboxVars, applyVars
  <2> QED
    BY <1>1, <2>1, <2>2, ReaderStep
<1>2. ASSUME EffectsInv, UNCHANGED vars
      PROVE  EffectsInv'
  BY <1>2 DEF vars, inboxVars, receiptVars, applyVars, EffectsInv, ToldOnce, Tells
<1> QED
  BY <1>1, <1>2

\* A like or comment is written before its row is processed, and its author
\* hears of it once: at most once whatever happens, and exactly once unless
\* something went wrong.
THEOREM AuthorToldOnce == Spec => []EffectsOnce
<1>1. Init => EffectsInv
  BY DEF Init, InboxInit, EffectsInv, ToldOnce, Tells
<1>2. TypeInv /\ EffectsInv => EffectsOnce
  BY DEF TypeInv, EffectsInv, ToldOnce, Tells, EffectsOnce
<1> QED
  BY <1>1, <1>2, TypeInit, TypeStep, EffectsStep, PTL DEF Spec

\* Before the first fault only copies that were applied are marked, so whoever is
\* to apply one has seen no attempt.
LEMMA FirstTriesStep ==
  TypeInv /\ EffectsInv /\ FirstTries /\ [Next]_vars => FirstTries'
<1>1. ASSUME TypeInv, EffectsInv, FirstTries, Next
      PROVE  FirstTries'
  <2> SUFFICES ASSUME mishaps' = 0
               PROVE  /\ \A c \in Copies \ applied' : tries'[c] = 0
                      /\ \A d \in Readers : \A h \in desk'[d] : h[1] \notin applied' => h[2] = 0
                      /\ \A d \in Readers : \A s \in doing'[d] : s.at = "insert" => s.tries = 0
    BY DEF FirstTries
  <2>1. mishaps = 0 /\ ~Mishap
    BY <1>1, MishapsStep DEF TypeInv, Mishap
  <2>2. /\ \A c \in Copies \ applied : tries[c] = 0
        /\ \A d \in Readers : \A h \in desk[d] : h[1] \notin applied => h[2] = 0
        /\ \A d \in Readers : \A s \in doing[d] : s.at = "insert" => s.tries = 0
    BY <1>1, <2>1 DEF FirstTries
  <2>3. /\ doing \in [Readers -> SUBSET Step]
        /\ \A e \in Readers : \A s, t \in doing[e] : s = t
        /\ desk \in [Readers -> SUBSET (Copies \X Nat)] /\ tries \in [Copies -> Nat]
    BY <1>1 DEF TypeInv, ReceiverTyped
  <2>4. ASSUME NEW d \in Readers, ListPending(d)
        PROVE  FirstTries'
    BY <2>2, <2>3, <2>4 DEF ListPending, receiptVars, FirstTries
  <2>5. ASSUME NEW d \in Readers, Look(d)
        PROVE  FirstTries'
    <3>1. PICK h \in desk[d] :
            /\ desk' = [desk EXCEPT ![d] = @ \ {h}]
            /\ doing' = [doing EXCEPT ![d] =
                           {[copy |-> h[1], tries |-> h[2],
                             at |-> IF h[1] \in applied THEN "mark" ELSE "insert"]}]
            /\ tries' = tries /\ applied' = applied
      BY <2>1, <2>5 DEF Look, receiptVars
    <3>2. ASSUME NEW e \in Readers, NEW s \in doing'[e], s.at = "insert"
          PROVE  s.tries = 0
      <4>1. CASE e = d
        BY <2>2, <2>3, <3>1, <3>2, <4>1
      <4>2. CASE e # d
        BY <2>2, <2>3, <3>1, <3>2, <4>2
      <4> QED
        BY <4>1, <4>2
    <3> QED
      BY <2>2, <2>3, <3>1, <3>2 DEF FirstTries
  <2>6. ASSUME NEW d \in Readers, NEW s \in doing[d], NEW at \in {"notify", "mark"},
               Goes(d, s, at)
        PROVE  \A e \in Readers : \A t \in doing'[e] : t.at = "insert" => t.tries = 0
    <3>1. PICK new : new = [s EXCEPT !.at = at]
      OBVIOUS
    <3>2. new.at # "insert"
      BY <2>3, <3>1 DEF Step
    <3>3. doing' = [doing EXCEPT ![d] = {new}]
      BY <2>6, <3>1 DEF Goes
    <3> QED
      BY <2>2, <2>3, <3>2, <3>3
  <2>7. ASSUME NEW d \in Readers, Insert(d)
        PROVE  FirstTries'
    <3>1. PICK s \in doing[d] :
            /\ applied' = applied \cup {s.copy} /\ desk' = desk
            /\ \/ Goes(d, s, "notify") \/ Goes(d, s, "mark")
               \/ doing' = [doing EXCEPT ![d] = {}]
            /\ tries' = tries \/ MarkAttempt(s.copy, s.tries)
      BY <2>7 DEF Insert, receiptVars
    <3>2. \A c \in Copies \ applied' : tries'[c] = 0
      BY <2>2, <2>3, <3>1 DEF MarkAttempt, Mark
    <3>3. \A e \in Readers : \A t \in doing'[e] : t.at = "insert" => t.tries = 0
      BY <2>2, <2>3, <2>6, <3>1
    <3> QED
      BY <2>2, <3>1, <3>2, <3>3 DEF FirstTries
  <2>8. ASSUME NEW d \in Readers, Notify(d)
        PROVE  FirstTries'
    <3>1. \A e \in Readers : \A t \in doing'[e] : t.at = "insert" => t.tries = 0
      BY <2>6, <2>8 DEF Notify
    <3> QED
      BY <2>2, <2>8, <3>1 DEF Notify, receiptVars, FirstTries
  <2>9. ASSUME NEW d \in Readers, Finish(d)
        PROVE  FirstTries'
    <3>1. PICK s \in doing[d] :
            /\ s.at = "mark" /\ doing' = [doing EXCEPT ![d] = {}]
            /\ Mark(s.copy, "processed") \/ Mark(s.copy, "failed")
            /\ applied' = applied /\ desk' = desk
      BY <2>9 DEF Finish
    <3>2. s.copy \in applied
      BY <1>1, <2>3, <3>1 DEF EffectsInv, ToldOnce, Step
    <3>3. \A c \in Copies \ applied' : tries'[c] = 0
      BY <2>2, <2>3, <3>1, <3>2 DEF Mark
    <3>4. \A e \in Readers : \A t \in doing'[e] : t.at = "insert" => t.tries = 0
      BY <2>2, <2>3, <3>1
    <3> QED
      BY <2>2, <3>1, <3>3, <3>4 DEF FirstTries
  <2>10. ASSUME NEW d \in Readers, CrashReader(d)
         PROVE  FALSE
    BY <2>1, <2>10 DEF CrashReader
  <2>11. ASSUME NEW b \in Copies, RequeueInbox(b)
         PROVE  FirstTries'
    BY <2>2, <2>3, <2>11 DEF RequeueInbox, applyVars, FirstTries
  <2>12. CASE UNCHANGED <<tries, desk, doing, applied>>
    BY <2>2, <2>12
  <2>13. \/ UNCHANGED <<tries, desk, doing, applied>>
         \/ \E d \in Readers : \/ ListPending(d) \/ Look(d) \/ Insert(d) \/ Notify(d)
                               \/ Finish(d) \/ CrashReader(d)
         \/ \E b \in Copies : RequeueInbox(b)
    BY <1>1 DEF Next, Sender, Receiver, Tick, TurnRequestAway, Note, Store, Vanish,
       inboxVars, receiptVars, applyVars
  <2> QED
    BY <2>4, <2>5, <2>7, <2>8, <2>9, <2>10, <2>11, <2>12, <2>13 DEF FirstTries
<1>2. ASSUME FirstTries, UNCHANGED vars
      PROVE  FirstTries'
  BY <1>2 DEF vars, inboxVars, receiptVars, applyVars, FirstTries
<1> QED
  BY <1>1, <1>2

\* Two dispatchers on one row leave it processed as long as nothing goes wrong,
\* if one failed attempt does not fail a row: the late comment's attempt is
\* counted, and its mark leaves the status as it is.
THEOREM ProcessedIsKept == MaxTries > 1 /\ Spec => ProcessedStays
<1> SUFFICES ASSUME MaxTries > 1
             PROVE  Spec => ProcessedStays
  OBVIOUS
<1> DEFINE Stay == \A c \in Copies : inbox[c] = "processed" /\ mishaps' = 0
                                     => inbox'[c] = "processed"
<1>1. Init => EffectsInv /\ FirstTries
  BY DEF Init, InboxInit, EffectsInv, ToldOnce, Tells, FirstTries
<1>2. ASSUME TypeInv, FirstTries, Next
      PROVE  Stay
  <2> SUFFICES ASSUME NEW c \in Copies, inbox[c] = "processed", mishaps' = 0
               PROVE  inbox'[c] = "processed"
    OBVIOUS
  <2>1. mishaps = 0 /\ ~Mishap
    BY <1>2, MishapsStep DEF TypeInv, Mishap
  <2>2. inbox \in [Copies -> InboxStatuses] /\ doing \in [Readers -> SUBSET Step]
    BY <1>2 DEF TypeInv, ReceiverTyped
  <2>3. ASSUME NEW d \in Readers, Insert(d)
        PROVE  inbox'[c] = "processed"
    <3>1. PICK s \in doing[d] : s.at = "insert" /\ (inbox' = inbox \/ MarkAttempt(s.copy, s.tries))
      BY <2>3 DEF Insert, receiptVars
    <3>2. s.tries = 0
      BY <1>2, <2>1, <3>1 DEF FirstTries
    <3>3. inbox' = inbox \/ inbox' = [inbox EXCEPT ![s.copy] = inbox[s.copy]]
      BY <1>2, <3>1, <3>2, InboxAssumption DEF MarkAttempt, Mark
    <3> QED
      BY <2>2, <3>3
  <2>4. ASSUME NEW d \in Readers, Look(d) \/ Finish(d)
        PROVE  inbox'[c] = "processed"
    BY <2>1, <2>2, <2>4 DEF Look, Finish, Mark, receiptVars
  <2>5. ASSUME NEW q \in calls, Store(q)
        PROVE  inbox'[c] = "processed"
    BY <2>1, <2>2, <2>5 DEF Store
  <2>6. ASSUME NEW b \in Copies, RequeueInbox(b)
        PROVE  inbox'[c] = "processed"
    BY <2>2, <2>6 DEF RequeueInbox
  <2>7. \/ inbox' = inbox
        \/ \E d \in Readers : Look(d) \/ Insert(d) \/ Finish(d)
        \/ \E q \in calls : Store(q)
        \/ \E b \in Copies : RequeueInbox(b)
    BY <1>2 DEF Next, Sender, Receiver, Tick, TurnRequestAway, Note, Vanish,
       ListPending, Notify, CrashReader, inboxVars, receiptVars
  <2> QED
    BY <2>3, <2>4, <2>5, <2>6, <2>7
<1>3. TypeInv /\ FirstTries /\ [Next]_vars => [Stay]_inboxVars
  BY <1>2 DEF vars
<1> QED
  BY <1>1, <1>3, TypeInit, TypeStep, EffectsStep, FirstTriesStep, PTL DEF Spec, ProcessedStays

-----------------------------------------------------------------------------
(* Attempts.                                                               *)

\* A worker asks for what it asked for before, unless it posts now.
LEMMA AskedBefore ==
  ASSUME TypeInv, Next, NEW w \in Workers, \A p \in Peers : ~Deliver(w, p)
  PROVE  /\ \A o \in calls' : o.from = w => \E q \in calls : q.from = w /\ q.rows = o.rows
         /\ (\A q, o \in calls : q.from = w /\ o.from = w => q = o)
            => \A q, o \in calls' : q.from = w /\ o.from = w => q = o
<1> DEFINE Before == /\ \A o \in calls' : o.from = w => \E q \in calls : q.from = w /\ q.rows = o.rows
                     /\ (\A q, o \in calls : q.from = w /\ o.from = w => q = o)
                        => \A q, o \in calls' : q.from = w /\ o.from = w => q = o
<1>1. \A q \in calls : CallSound(q) /\ q \in CallType
  BY DEF TypeInv, CallSound
<1>2. w # NULL
  BY OutboxAssumption
<1>3. ASSUME NEW q \in calls, NEW new, Progress(q, new), new.rows = q.rows,
             new.from = q.from \/ new.from = NULL
      PROVE  Before
  BY <1>2, <1>3 DEF Progress
<1>4. ASSUME NEW x \in Workers, NEW p \in Peers, Deliver(x, p)
      PROVE  Before
  BY <1>4, DeliverPosts
<1>5. ASSUME NEW q \in calls, Answer(q) \/ Vanish(q)
      PROVE  Before
  BY <1>5 DEF Answer, Vanish
<1>6. ASSUME NEW q \in calls, GiveUp(q) \/ TurnRequestAway(q) \/ Note(q) \/ Store(q)
      PROVE  \E new : /\ Progress(q, new) /\ new.rows = q.rows
                      /\ new.from = q.from \/ new.from = NULL
  <2>1. CASE GiveUp(q)
    BY <1>1, <2>1 DEF GiveUp, CallType
  <2>2. CASE TurnRequestAway(q)
    <3>1. \A a : LET new == [q EXCEPT !.answers = a] IN new.rows = q.rows /\ new.from = q.from
      BY <1>1 DEF CallType
    <3> QED
      BY <2>2, <3>1 DEF TurnRequestAway
  <2>3. ASSUME NEW a, Reply(q, a)
        PROVE  \E new : Progress(q, new) /\ new.rows = q.rows /\ new.from = q.from
    <3>1. PICK new : new = [q EXCEPT !.answers = Append(@, a), !.noted = FALSE]
      OBVIOUS
    <3>2. new.rows = q.rows /\ new.from = q.from
      BY <1>1, <3>1 DEF CallType
    <3> QED
      BY <2>3, <3>1, <3>2 DEF Reply
  <2>4. CASE Note(q)
    <3>1. PICK new : new = [q EXCEPT !.noted = TRUE]
      OBVIOUS
    <3>2. new.rows = q.rows /\ new.from = q.from
      BY <1>1, <3>1 DEF CallType
    <3> QED
      BY <2>3, <2>4, <3>1, <3>2 DEF Note
  <2>5. CASE Store(q)
    BY <2>3, <2>5 DEF Store, Reject
  <2> QED
    BY <1>6, <2>1, <2>2, <2>4, <2>5
<1>7. ASSUME NEW x \in Workers, CrashWorker(x)
      PROVE  Before
  <2>1. calls' = {IF q.from = x THEN [q EXCEPT !.from = NULL] ELSE q : q \in calls}
    BY <1>7 DEF CrashWorker
  <2>2. \A q \in calls : [q EXCEPT !.from = NULL].from = NULL
    BY <1>1 DEF CallType
  <2>3. \A o \in calls' : o.from = w => o \in calls
    BY <1>2, <2>1, <2>2
  <2> QED
    BY <2>3
<1>8. \/ calls' = calls
      \/ \E x \in Workers, p \in Peers : Deliver(x, p)
      \/ \E x \in Workers : CrashWorker(x)
      \/ \E q \in calls : Answer(q) \/ GiveUp(q) \/ Vanish(q) \/ TurnRequestAway(q)
                          \/ Note(q) \/ Store(q)
  BY DEF Next, Sender, Receiver, Tick, Record, Commit, ListUndispatched,
     ReadShares, GrantShare, EndShare, Dispatch, DispatchRollsBack, ListDue, Settle,
     RequeueOutbox, CancelPending, SwitchPeer,
     ListPending, Look, Insert, Notify, Finish, CrashReader, RequeueInbox, workVars
<1> QED
  BY <1>3, <1>4, <1>5, <1>6, <1>7, <1>8

\* Who holds no more than it did holds each row once.
LEMMA HoldsLess ==
  ASSUME NEW w \in Workers, HeldOnce(w),
         hand'[w] \subseteq hand[w], verdict'[w] \subseteq verdict[w],
         \A o \in calls' : o.from = w => \E q \in calls : q.from = w /\ q.rows = o.rows,
         \A q, o \in calls' : q.from = w /\ o.from = w => q = o
  PROVE  HeldOnce(w)'
BY DEF HeldOnce, Asks

\* The rows that are delivered leave the hand, for a request or a verdict.
LEMMA DeliverHolds ==
  ASSUME TypeInv, NEW w \in Workers, HeldOnce(w), NEW p \in Peers, Deliver(w, p)
  PROVE  /\ HeldOnce(w)'
         /\ \A r \in Rows, n \in Nat : Holds(w, r, n)' => Holds(w, r, n)
<1>1. /\ hand \in [Workers -> SUBSET (Rows \X Nat)]
      /\ verdict \in [Workers -> SUBSET (Rows \X Nat \X Verdicts)]
  BY DEF TypeInv, SenderTyped
<1>2. /\ hand' = [hand EXCEPT ![w] = @ \ Group(w, p)]
      /\ verdict[w] = {} /\ \A q \in calls : q.from # w
  BY DEF Deliver, Group
<1>3. /\ \A h, k \in hand[w] : h[1] = k[1] => h = k
      /\ Group(w, p) \subseteq hand[w] /\ Refused(Group(w, p)) \subseteq Group(w, p)
  BY DEF HeldOnce, Group, Refused
<1>4. \E S1, S2 \in SUBSET Group(w, p) : \E u, v \in Verdicts :
        /\ S1 \cap S2 = {} /\ verdict'[w] = Verdict(S1, u) \cup Verdict(S2, v)
        /\ calls' # calls => S1 = Refused(Group(w, p)) /\ S2 = {}
  <2> DEFINE group == Group(w, p)
             refused == Refused(group)
             early == IF Cardinality(group) = 1 THEN refused ELSE {}
  <2>1. {"refused", "failed", "retry"} \subseteq Verdicts /\ Verdict({}, "retry") = {}
    BY DEF Verdicts, Verdict
  <2>2. \/ verdict' = [verdict EXCEPT ![w] = Verdict(refused, "refused")]
        \/ /\ calls' = calls
           /\ verdict' = [verdict EXCEPT ![w] =
                            Verdict(early, "refused") \cup Verdict(group \ early, "failed")]
        \/ /\ calls' = calls
           /\ verdict' = [verdict EXCEPT ![w] =
                            Verdict(early, "refused") \cup Verdict(group \ early, "retry")]
    BY DEF Deliver, Group
  <2>3. early \in SUBSET group /\ refused \in SUBSET group
    BY <1>3
  <2> HIDE DEF refused, early
  <2>4. CASE verdict' = [verdict EXCEPT ![w] = Verdict(refused, "refused")]
    <3>1. verdict'[w] = Verdict(refused, "refused") \cup Verdict({}, "retry")
      BY <1>1, <2>1, <2>4
    <3>2. refused = Refused(Group(w, p)) /\ refused \cap {} = {}
      BY DEF refused
    <3>3. refused \in SUBSET Group(w, p) /\ {} \in SUBSET Group(w, p)
      BY <2>3
    <3> QED
      BY <2>1, <3>1, <3>2, <3>3
  <2>5. ASSUME NEW v \in Verdicts, calls' = calls,
               verdict' = [verdict EXCEPT ![w] =
                             Verdict(early, "refused") \cup Verdict(group \ early, v)]
        PROVE  \E S1, S2 \in SUBSET Group(w, p) : \E u, x \in Verdicts :
                 /\ S1 \cap S2 = {} /\ verdict'[w] = Verdict(S1, u) \cup Verdict(S2, x)
                 /\ calls' = calls
    <3>1. verdict'[w] = Verdict(early, "refused") \cup Verdict(group \ early, v)
      BY <1>1, <2>5
    <3>2. /\ early \cap (group \ early) = {} /\ group \ early \in SUBSET Group(w, p)
          /\ early \in SUBSET Group(w, p) /\ "refused" \in Verdicts
      BY <2>1, <2>3
    <3> HIDE DEF group
    <3> QED
      BY <2>5, <3>1, <3>2
  <2> QED
    BY <2>1, <2>2, <2>4, <2>5
<1>5. PICK S1, S2 \in SUBSET Group(w, p), u, v \in Verdicts :
        /\ S1 \cap S2 = {} /\ verdict'[w] = Verdict(S1, u) \cup Verdict(S2, v)
        /\ calls' # calls => S1 = Refused(Group(w, p)) /\ S2 = {}
  BY <1>4
<1>6. \A x \in verdict'[w] : \E h \in S1 \cup S2 :
        x = <<h[1], h[2], IF h \in S1 THEN u ELSE v>>
  BY <1>5 DEF Verdict
<1>7. \A x, y \in verdict'[w] : x[1] = y[1] => x = y
  <2> SUFFICES ASSUME NEW x \in verdict'[w], NEW y \in verdict'[w], x[1] = y[1]
               PROVE  x = y
    OBVIOUS
  <2>1. PICK h \in S1 \cup S2 : x = <<h[1], h[2], IF h \in S1 THEN u ELSE v>>
    BY <1>6
  <2>2. PICK k \in S1 \cup S2 : y = <<k[1], k[2], IF k \in S1 THEN u ELSE v>>
    BY <1>6
  <2>3. h = k
    BY <1>3, <2>1, <2>2
  <2> QED
    BY <2>1, <2>2, <2>3
<1>8. hand'[w] = hand[w] \ Group(w, p)
  BY <1>1, <1>2
<1>9. \A h \in hand'[w] : \A x \in verdict'[w] : h[1] # x[1]
  BY <1>3, <1>6, <1>8
<1>10. CASE calls' = calls
  <2>1. \A q \in calls' : q.from # w
    BY <1>2, <1>10
  <2>2. HeldOnce(w)'
    BY <1>3, <1>7, <1>8, <1>9, <2>1 DEF HeldOnce, Asks
  <2>3. ASSUME NEW r \in Rows, NEW n \in Nat, Holds(w, r, n)'
        PROVE  <<r, n>> \in hand[w]
    BY <1>1, <1>3, <1>6, <1>8, <2>1, <2>3 DEF Holds, Asks
  <2> QED
    BY <2>2, <2>3 DEF Holds
<1>11. CASE calls' # calls
  <2>1. PICK new : /\ calls' = calls \cup {new} /\ new.from = w
                   /\ \A i \in DOMAIN new.rows :
                        new.rows[i] \in Group(w, p) \ Refused(Group(w, p))
                   /\ \A i, j \in DOMAIN new.rows : new.rows[i] = new.rows[j] => i = j
    BY <1>11, DeliverPosts
  <2>2. \A q \in calls' : q.from = w => q = new
    BY <1>2, <2>1
  <2>3. \A i, j \in DOMAIN new.rows : new.rows[i][1] = new.rows[j][1] => i = j
    BY <1>3, <2>1
  <2>4. \A i \in DOMAIN new.rows :
          /\ \A h \in hand'[w] : h[1] # new.rows[i][1]
          /\ \A x \in verdict'[w] : x[1] # new.rows[i][1]
    BY <1>3, <1>5, <1>6, <1>8, <1>11, <2>1
  <2>5. HeldOnce(w)'
    BY <1>3, <1>7, <1>8, <1>9, <2>2, <2>3, <2>4 DEF HeldOnce, Asks
  <2>6. ASSUME NEW r \in Rows, NEW n \in Nat, Holds(w, r, n)'
        PROVE  <<r, n>> \in hand[w]
    BY <1>1, <1>3, <1>6, <1>8, <2>1, <2>2, <2>6 DEF Holds, Asks
  <2> QED
    BY <2>5, <2>6 DEF Holds
<1> QED
  BY <1>10, <1>11

\* The rows of a request that ends leave it for a verdict.
LEMMA SettledHolds ==
  ASSUME TypeInv, NEW w \in Workers, HeldOnce(w),
         NEW q \in calls, q.from = w, Answer(q) \/ GiveUp(q)
  PROVE  /\ HeldOnce(w)'
         /\ \A r \in Rows, n \in Nat : Holds(w, r, n)' => Holds(w, r, n)
<1>1. /\ hand' = hand /\ verdict \in [Workers -> SUBSET (Rows \X Nat \X Verdicts)]
      /\ CallSound(q) /\ q \in CallType /\ w # NULL
  BY OutboxAssumption DEF TypeInv, SenderTyped, CallSound, Answer, GiveUp
<1>2. PICK result : verdict'[w] = verdict[w] \cup Settled(q, result)
  <2>1. \E result : verdict' = [verdict EXCEPT ![w] = @ \cup Settled(q, result)]
    BY DEF Answer, GiveUp
  <2> QED
    BY <1>1, <2>1
<1>3. \A v \in Settled(q, result) : \E i \in DOMAIN q.rows :
        v = <<q.rows[i][1], q.rows[i][2], result[i]>>
  BY DEF Settled, Keyed
<1>4. \A o \in calls : o.from = w => o = q
  BY DEF HeldOnce, Asks
<1>5. \A o \in calls' : o.from # w
  <2>1. [q EXCEPT !.from = NULL].from = NULL
    BY <1>1 DEF CallType
  <2> QED
    BY <1>1, <1>4, <2>1 DEF Answer, GiveUp, Progress
<1>6. /\ \A i, j \in DOMAIN q.rows : q.rows[i][1] = q.rows[j][1] => i = j
      /\ \A i \in DOMAIN q.rows : /\ \A h \in hand[w] : h[1] # q.rows[i][1]
                                  /\ \A v \in verdict[w] : v[1] # q.rows[i][1]
      /\ \A h, k \in hand[w] : h[1] = k[1] => h = k
      /\ \A u, v \in verdict[w] : u[1] = v[1] => u = v
      /\ \A h \in hand[w] : \A v \in verdict[w] : h[1] # v[1]
  BY DEF HeldOnce, Asks
<1>7. \A u, v \in verdict'[w] : u[1] = v[1] => u = v
  <2> SUFFICES ASSUME NEW u \in verdict'[w], NEW v \in verdict'[w], u[1] = v[1]
               PROVE  u = v
    OBVIOUS
  <2>1. CASE u \in verdict[w] /\ v \in verdict[w]
    BY <1>6, <2>1
  <2>2. CASE u \in verdict[w] /\ v \notin verdict[w]
    BY <1>2, <1>3, <1>6, <2>2
  <2>3. CASE u \notin verdict[w] /\ v \in verdict[w]
    BY <1>2, <1>3, <1>6, <2>3
  <2>4. CASE u \notin verdict[w] /\ v \notin verdict[w]
    <3>1. PICK i \in DOMAIN q.rows : u = <<q.rows[i][1], q.rows[i][2], result[i]>>
      BY <1>2, <1>3, <2>4
    <3>2. PICK j \in DOMAIN q.rows : v = <<q.rows[j][1], q.rows[j][2], result[j]>>
      BY <1>2, <1>3, <2>4
    <3>3. i = j
      BY <1>6, <3>1, <3>2
    <3> QED
      BY <3>1, <3>2, <3>3
  <2> QED
    BY <2>1, <2>2, <2>3, <2>4
<1>8. \A h \in hand'[w] : \A v \in verdict'[w] : h[1] # v[1]
  BY <1>1, <1>2, <1>3, <1>6
<1>9. HeldOnce(w)'
  BY <1>1, <1>5, <1>6, <1>7, <1>8 DEF HeldOnce, Asks
<1>10. ASSUME NEW r \in Rows, NEW n \in Nat, Holds(w, r, n)'
       PROVE  Holds(w, r, n)
  <2>1. CASE <<r, n>> \in hand'[w]
    BY <1>1, <2>1 DEF Holds
  <2>2. ASSUME NEW v \in verdict'[w], v[1] = r, v[2] = n
        PROVE  Holds(w, r, n)
    <3>1. CASE v \in verdict[w]
      BY <2>2, <3>1 DEF Holds
    <3>2. CASE v \notin verdict[w]
      <4>1. PICK i \in DOMAIN q.rows : v = <<q.rows[i][1], q.rows[i][2], result[i]>>
        BY <1>2, <1>3, <3>2
      <4>2. q.rows[i] \in Rows \X Nat
        BY <1>1 DEF CallType
      <4>3. q.rows[i] = <<r, n>>
        BY <2>2, <4>1, <4>2
      <4> QED
        BY <4>3 DEF Holds, Asks
    <3> QED
      BY <3>1, <3>2
  <2> QED
    BY <1>5, <1>10, <2>1, <2>2 DEF Holds, Asks
<1> QED
  BY <1>9, <1>10

\* What a worker holds it held before, or lists now with the attempts it has.
LEMMA HoldsStep ==
  ASSUME TypeInv, Next, NEW w \in Workers, HeldOnce(w)
  PROVE  /\ HeldOnce(w)'
         /\ \A r \in Rows, n \in Nat : Holds(w, r, n)' =>
              Holds(w, r, n) \/ (n = attempts[r] /\ attempts' = attempts)
<1>1. /\ hand \in [Workers -> SUBSET (Rows \X Nat)]
      /\ verdict \in [Workers -> SUBSET (Rows \X Nat \X Verdicts)]
      /\ attempts \in [Rows -> Nat] /\ w # NULL
  BY OutboxAssumption DEF TypeInv, SenderTyped
<1>2. ASSUME hand'[w] \subseteq hand[w], verdict'[w] \subseteq verdict[w],
             \A p \in Peers : ~Deliver(w, p)
      PROVE  /\ HeldOnce(w)'
             /\ \A r \in Rows, n \in Nat : Holds(w, r, n)' => Holds(w, r, n)
  <2>1. \A q, o \in calls : q.from = w /\ o.from = w => q = o
    BY DEF HeldOnce, Asks
  <2>2. /\ \A o \in calls' : o.from = w => \E q \in calls : q.from = w /\ q.rows = o.rows
        /\ \A q, o \in calls' : q.from = w /\ o.from = w => q = o
    BY <1>2, <2>1, AskedBefore
  <2>3. HeldOnce(w)'
    BY <1>2, <2>2, HoldsLess
  <2> QED
    BY <1>2, <2>2, <2>3 DEF Holds, Asks
<1>3. ASSUME NEW p \in Peers, Deliver(w, p)
      PROVE  /\ HeldOnce(w)'
             /\ \A r \in Rows, n \in Nat : Holds(w, r, n)' => Holds(w, r, n)
  BY <1>3, DeliverHolds
<1>4. ASSUME NEW q \in calls, q.from = w, Answer(q) \/ GiveUp(q)
      PROVE  /\ HeldOnce(w)'
             /\ \A r \in Rows, n \in Nat : Holds(w, r, n)' => Holds(w, r, n)
  BY <1>4, SettledHolds
<1>5. CASE ListDue(w)
  <2>1. /\ hand'[w] = {<<r, attempts[r]>> : r \in Due} /\ attempts' = attempts
        /\ verdict'[w] = {} /\ \A q \in calls' : q.from # w
    BY <1>1, <1>5 DEF ListDue, Idle, queueVars
  <2>2. HeldOnce(w)'
    BY <2>1 DEF HeldOnce, Asks
  <2>3. ASSUME NEW r \in Rows, NEW n \in Nat, Holds(w, r, n)'
        PROVE  n = attempts[r]
    BY <2>1, <2>3 DEF Holds, Asks
  <2> QED
    BY <2>1, <2>2, <2>3
<1>6. ASSUME NEW x \in Workers, x # w,
             ListDue(x) \/ \E p \in Peers : Deliver(x, p)
      PROVE  hand'[w] = hand[w] /\ verdict'[w] = verdict[w]
  BY <1>1, <1>6 DEF ListDue, Deliver
<1>7. ASSUME NEW q \in calls, q.from # w, Answer(q) \/ GiveUp(q)
      PROVE  hand'[w] = hand[w] /\ verdict'[w] = verdict[w]
  BY <1>1, <1>7 DEF Answer, GiveUp
<1>8. ASSUME NEW x \in Workers, Settle(x) \/ CrashWorker(x)
      PROVE  hand'[w] \subseteq hand[w] /\ verdict'[w] \subseteq verdict[w]
  BY <1>1, <1>8 DEF Settle, CrashWorker
<1>9. \/ hand' = hand /\ verdict' = verdict
      \/ \E x \in Workers : ListDue(x) \/ Settle(x) \/ CrashWorker(x)
      \/ \E x \in Workers, p \in Peers : Deliver(x, p)
      \/ \E c \in calls : Answer(c) \/ GiveUp(c)
  BY DEF Next, Sender, Receiver, Tick, Record, Commit, ListUndispatched,
     ReadShares, GrantShare, EndShare, Dispatch, DispatchRollsBack, RequeueOutbox,
     CancelPending, SwitchPeer, workVars, outboxVars
<1> QED
  BY <1>2, <1>3, <1>4, <1>5, <1>6, <1>7, <1>8, <1>9

\* The count grows only by a worker that has the row to write and has not listed
\* it at the limit.
LEMMA AttemptsMove ==
  ASSUME TypeInv, Next, NEW r \in Rows, ~(attempts'[r] <= attempts[r])
  PROVE  \E w \in Workers : \E v \in verdict[w] :
           /\ v[1] = r /\ v[2] \in Nat /\ v[2] + 1 < MaxAttempts
           /\ attempts'[r] = attempts[r] + 1
           /\ hand' = hand /\ calls' = calls
           /\ verdict' = [verdict EXCEPT ![w] = @ \ {v}]
<1>1. SenderTyped /\ attempts \in [Rows -> Nat]
  BY DEF TypeInv, SenderTyped
<1>2. ASSUME NEW w \in Workers, NEW v \in verdict[w], Write(v[1], v[2], v[3])
      PROVE  /\ attempts'[r] = attempts[r] + 1
             /\ v[1] = r /\ v[2] \in Nat /\ v[2] + 1 < MaxAttempts
  <2>1. v[1] \in Rows /\ v[2] \in Nat /\ v[3] \in Verdicts
    BY <1>1 DEF SenderTyped
  <2>2. /\ attempts'[r] \in {attempts[r], attempts[r] + 1}
        /\ attempts'[r] # attempts[r] => r = v[1] /\ v[2] + 1 < MaxAttempts
    BY <1>1, <1>2, <2>1, WriteEffect
  <2> QED
    BY <1>1, <2>1, <2>2
<1>3. ASSUME NEW s \in Rows, RequeueOutbox(s)
      PROVE  FALSE
  BY <1>1, <1>3 DEF RequeueOutbox
<1>4. attempts' # attempts
  BY <1>1
<1>5. \/ attempts' = attempts
      \/ \E s \in Rows : RequeueOutbox(s)
      \/ \E w \in Workers : Settle(w)
  BY DEF Next, Sender, Receiver, Tick, Record, Commit, ListUndispatched,
     ReadShares, GrantShare, EndShare, Dispatch, ListDue,
     CrashWorker, Deliver, Answer, GiveUp, DispatchRollsBack, CancelPending, SwitchPeer,
     outboxVars, queueVars
<1>6. PICK w \in Workers : Settle(w)
  BY <1>3, <1>4, <1>5
<1>7. PICK v \in verdict[w] :
        /\ Write(v[1], v[2], v[3]) /\ hand' = hand /\ calls' = calls
        /\ verdict' = [verdict EXCEPT ![w] = @ \ {v}]
  BY <1>4, <1>6 DEF Settle, queueVars
<1> QED
  BY <1>2, <1>7

LEMMA AttemptsStep ==
  TypeInv /\ AttemptsInv /\ [Next]_vars => AttemptsInv'
<1>1. ASSUME TypeInv, AttemptsInv, Next
      PROVE  AttemptsInv'
  <2>1. \A w \in Workers : HeldOnce(w)'
    BY <1>1, HoldsStep DEF AttemptsInv
  <2>2. /\ attempts \in [Rows -> Nat] /\ attempts' \in [Rows -> Nat]
        /\ verdict \in [Workers -> SUBSET (Rows \X Nat \X Verdicts)]
        /\ MaxAttempts \in Nat
    BY <1>1, SenderStep, OutboxAssumption DEF TypeInv, SenderTyped
  <2>3. ASSUME \A v, w \in Workers : v = w,
               NEW w \in Workers, NEW r \in Rows, NEW n \in Nat, Holds(w, r, n)'
        PROVE  attempts'[r] <= n
    <3>1. HeldOnce(w) /\ SawLatest(w)
      BY <1>1, <2>3 DEF AttemptsInv
    <3>2. CASE attempts'[r] <= attempts[r]
      <4>1. attempts[r] <= n
        BY <1>1, <2>2, <2>3, <3>1, HoldsStep DEF SawLatest
      <4> QED
        BY <2>2, <3>2, <4>1
    <3>3. CASE ~(attempts'[r] <= attempts[r])
      <4>1. PICK x \in Workers : \E v \in verdict[x] :
              /\ v[1] = r /\ hand' = hand /\ calls' = calls
              /\ verdict' = [verdict EXCEPT ![x] = @ \ {v}]
        BY <1>1, <3>3, AttemptsMove
      <4>2. PICK v \in verdict[w] :
              /\ v[1] = r /\ hand' = hand /\ calls' = calls
              /\ verdict' = [verdict EXCEPT ![w] = @ \ {v}]
        BY <2>3, <4>1
      <4>3. <<r, n>> \notin hand'[w]
        BY <3>1, <4>2 DEF HeldOnce
      <4>4. \A u \in verdict'[w] : u[1] # r
        BY <2>2, <3>1, <4>2 DEF HeldOnce
      <4>5. \A q \in calls' : q.from = w => \A i \in DOMAIN q.rows : q.rows[i][1] # r
        BY <3>1, <4>2 DEF HeldOnce, Asks
      <4> QED
        BY <2>3, <4>3, <4>4, <4>5 DEF Holds, Asks
    <3> QED
      BY <3>2, <3>3
  <2>4. ASSUME \A v, w \in Workers : v = w, NEW r \in Rows
        PROVE  attempts'[r] < MaxAttempts
    <3>1. attempts[r] < MaxAttempts
      BY <1>1, <2>4 DEF AttemptsInv, AttemptsBounded
    <3>2. CASE attempts'[r] <= attempts[r]
      BY <2>2, <3>1, <3>2
    <3>3. CASE ~(attempts'[r] <= attempts[r])
      <4>1. PICK w \in Workers : \E v \in verdict[w] :
              /\ v[1] = r /\ v[2] \in Nat /\ v[2] + 1 < MaxAttempts
              /\ attempts'[r] = attempts[r] + 1
        BY <1>1, <3>3, AttemptsMove
      <4>2. PICK v \in verdict[w] :
              /\ v[1] = r /\ v[2] \in Nat /\ v[2] + 1 < MaxAttempts
              /\ attempts'[r] = attempts[r] + 1
        BY <4>1
      <4>3. attempts[r] <= v[2]
        BY <1>1, <2>4, <4>2 DEF AttemptsInv, SawLatest, Holds
      <4> QED
        BY <2>2, <4>2, <4>3
    <3> QED
      BY <3>2, <3>3
  <2> QED
    BY <2>1, <2>3, <2>4 DEF AttemptsInv, AttemptsBounded, SawLatest
<1>2. ASSUME AttemptsInv, UNCHANGED vars
      PROVE  AttemptsInv'
  BY <1>2 DEF vars, outboxVars, queueVars, AttemptsInv, AttemptsBounded, SawLatest, Holds,
     HeldOnce, Asks
<1> QED
  BY <1>1, <1>2

\* A process that is alone gives a row up after MaxAttempts attempts.
THEOREM AttemptsAreBounded == Spec => []AttemptsBounded
<1>1. Init => AttemptsInv
  BY OutboxAssumption DEF Init, OutboxInit, AttemptsInv, AttemptsBounded, SawLatest, Holds,
     HeldOnce, Asks
<1>2. AttemptsInv => AttemptsBounded
  BY DEF AttemptsInv
<1> QED
  BY <1>1, <1>2, TypeInit, TypeStep, AttemptsStep, PTL DEF Spec
=============================================================================
