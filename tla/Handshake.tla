----------------------------- MODULE Handshake ------------------------------
(***************************************************************************)
(* Pairing two instances (app/internal/federation/peer): each keeps one    *)
(* row of federation_peers for the other; an administrator sends an offer, *)
(* the other administrator accepts it, a confirm comes back.  Envelopes    *)
(* are posted once and may be lost; handlers read the row, then write it   *)
(* by its id, one statement at a time.                                     *)
(*                                                                         *)
(* A row is <<a, b>>: the row of instance a about instance b.              *)
(***************************************************************************)
EXTENDS Integers, FiniteSets

CONSTANTS
  Instances,       \* the instances that pair
  MaxId,           \* bound: rows an instance inserts about one peer
  MaxTasks,        \* bound: handlers that run at once
  MaxMishaps       \* bound: lost envelopes, crashes and deletions

ASSUME HandshakeAssumption ==
  IsFiniteSet(Instances) /\ {MaxId, MaxTasks, MaxMishaps} \subseteq Nat

VARIABLES
  status,      \* of each row: none, out, in, connected
  key,         \* instance_public_key: placeholder or real
  caps,        \* rows whose capabilities were negotiated
  id,          \* primary key: how many rows a inserted about b so far
  wire,        \* envelopes posted and not yet received
  tasks,       \* handlers between two statements
  intent,      \* history: rows an administrator initiated, created or accepted
  started,     \* history: pairs whose first instance ever offered or entered
  byHand,      \* history: rows entered by hand
  legacy,      \* instances whose release names no supported_capabilities (fixed)
  mishaps      \* lost envelopes, crashes and deletions so far

rowVars == <<status, key, caps, id>>
ghosts == <<intent, started, byHand, legacy>>
vars == <<rowVars, wire, tasks, ghosts, mishaps>>

Pairs == {r \in Instances \X Instances : r[1] # r[2]}
Back(r) == <<r[2], r[1]>>
Crossed(r) == {r, Back(r)} \subseteq started

\* An envelope lies with the row of the instance it is addressed to.
Envelope == [kind : {"offer", "confirm"}, row : Pairs]

\* What a handler has read, and the statement it is about to make.
Task == [row : Pairs, id : 0..MaxId,
         next : {"add", "caps", "connect", "complete", "accept"},
         saw : {"none", "out", "in", "connected"}]

Init ==
  /\ status = [r \in Pairs |-> "none"]
  /\ key = [r \in Pairs |-> "placeholder"]
  /\ caps = {} /\ wire = {} /\ tasks = {}
  /\ id = [r \in Pairs |-> 0]
  /\ intent = {} /\ started = {} /\ byHand = {}
  /\ legacy \in SUBSET Instances
  /\ mishaps = 0

Mishap == mishaps < MaxMishaps /\ mishaps' = mishaps + 1
Exists(t) == status[t.row] # "none" /\ id[t.row] = t.id

\* InsertPeer: unique on the peer's URL.
InsertRow(r, s, k) ==
  /\ status' = [status EXCEPT ![r] = s]
  /\ key' = [key EXCEPT ![r] = k]
  /\ id' = [id EXCEPT ![r] = @ + 1]
  /\ caps' = caps \ {r}

-----------------------------------------------------------------------------
(* The administrator.                                                      *)

\* InitiateOffer: the row, then one POST of the offer.  A row that exists is
\* returned as it is.
InitiateOffer(r) ==
  /\ status[r] = "none" /\ id[r] < MaxId
  /\ InsertRow(r, "out", "placeholder")
  /\ wire' = wire \cup {[kind |-> "offer", row |-> Back(r)]}
  /\ intent' = intent \cup {r}
  /\ started' = started \cup {r}
  /\ UNCHANGED <<tasks, byHand, legacy, mishaps>>

\* CreateFederationPeer: a row entered by hand is connected at once.
CreateFederationPeer(r) ==
  /\ status[r] = "none" /\ id[r] < MaxId
  /\ InsertRow(r, "connected", "real")
  /\ intent' = intent \cup {r}
  /\ byHand' = byHand \cup {r}
  /\ started' = started \cup {r}
  /\ UNCHANGED <<wire, tasks, legacy, mishaps>>

\* AcceptFederationPeer reads the row.
AcceptFederationPeer(r) ==
  /\ Cardinality(tasks) < MaxTasks
  /\ status[r] = "in"
  /\ tasks' = tasks \cup {[row |-> r, id |-> id[r], next |-> "accept", saw |-> "in"]}
  /\ intent' = intent \cup {r}
  /\ UNCHANGED <<rowVars, wire, started, byHand, legacy, mishaps>>

\* DeleteFederationPeer.
DeleteFederationPeer(r) ==
  /\ status[r] # "none"
  /\ Mishap
  /\ status' = [status EXCEPT ![r] = "none"]
  /\ key' = [key EXCEPT ![r] = "placeholder"]
  /\ caps' = caps \ {r}
  /\ intent' = intent \ {r}
  /\ byHand' = byHand \ {r}
  /\ UNCHANGED <<id, wire, tasks, started, legacy>>

-----------------------------------------------------------------------------
(* HandleInbound.                                                          *)

\* The peer of row r names supported_capabilities in its envelopes, an empty
\* list included; a release older than the field leaves it out (nil).
Advertises(r) == r[2] \notin legacy

\* handleOffer and handleConfirm read the row of the sender.
Receive(m) ==
  LET r == m.row
      todo == CASE m.kind = "offer" /\ status[r] = "none" -> {"add"}
                [] m.kind = "offer" /\ status[r] # "none" /\ Advertises(r) -> {"caps"}
                [] m.kind = "offer" /\ status[r] = "out" /\ ~Advertises(r) -> {"connect"}
                [] m.kind = "confirm" /\ status[r] = "out" -> {"complete"}
                [] OTHER -> {}
  IN /\ Cardinality(tasks) < MaxTasks
     /\ wire' = wire \ {m}
     /\ tasks' = tasks \cup {[row |-> r, id |-> id[r], next |-> n,
                              saw |-> status[r]] : n \in todo}
     /\ UNCHANGED <<rowVars, ghosts, mishaps>>

Ends(t) == tasks' = tasks \ {t}
Goes(t, n, i) == tasks' = (tasks \ {t}) \cup {[t EXCEPT !.next = n, !.id = i]}

\* handleOffer of an unknown peer: a row for the administrator to review; a
\* row inserted meanwhile is an error.
AddInbound(t) ==
  /\ t.next = "add"
  /\ \/ /\ status[t.row] = "none" /\ id[t.row] < MaxId
        /\ InsertRow(t.row, "in", "real")
        /\ IF Advertises(t.row) THEN Goes(t, "caps", id[t.row] + 1) ELSE Ends(t)
     \/ status[t.row] # "none" /\ Ends(t) /\ UNCHANGED rowVars
  /\ UNCHANGED <<wire, ghosts, mishaps>>

\* Mutant: a row that is gone gets capabilities too.
CapsOfGone(t) == caps' = caps \cup {t.row}

Negotiated(t) == caps' = IF Exists(t) THEN caps \cup {t.row} ELSE caps

\* SetCapabilities, before the offer is looked at or after the row is written.
SetCapabilities(t) ==
  /\ t.next = "caps"
  /\ Negotiated(t)
  /\ IF t.saw = "out" THEN Goes(t, "connect", t.id) ELSE Ends(t)
  /\ UNCHANGED <<status, key, id, wire, ghosts, mishaps>>

\* Mutant: the row is looked up by the peer's URL.
ConnectByURL(t) ==
  status' = [status EXCEPT ![t.row] = IF @ = "none" THEN @ ELSE "connected"]

\* setStatus: by id, whatever its status has become.
Connect(t) ==
  status' = [status EXCEPT ![t.row] = IF Exists(t) THEN "connected" ELSE @]

\* handleOffer of a peer we made an offer to: connected.
CrossOffer(t) ==
  /\ t.next = "connect"
  /\ Connect(t)
  /\ Ends(t)
  /\ UNCHANGED <<key, caps, id, wire, ghosts, mishaps>>

\* Mutant: the status flips and the placeholder stays.
FlipOnly(t) ==
  /\ status' = [status EXCEPT ![t.row] = "connected"]
  /\ UNCHANGED <<key, caps, id>>

\* CompleteOutboundHandshake: the real key and the status in one statement.
Complete(t) ==
  /\ status' = [status EXCEPT ![t.row] = "connected"]
  /\ key' = [key EXCEPT ![t.row] = "real"]
  /\ UNCHANGED <<caps, id>>

\* Mutant: the handler ends with the status.
EndsHere(t) == Ends(t)

ThenCaps(t) ==
  tasks' = (tasks \ {t}) \cup {[t EXCEPT !.next = "caps", !.saw = "connected"]}

\* handleConfirm of our offer; the capabilities follow, if the confirm has any.
CompleteOutbound(t) ==
  /\ t.next = "complete"
  /\ \/ /\ Exists(t) /\ status[t.row] = "out"
        /\ Complete(t)
        /\ IF Advertises(t.row) THEN ThenCaps(t) ELSE Ends(t)
     \/ /\ ~(Exists(t) /\ status[t.row] = "out")
        /\ Ends(t)
        /\ UNCHANGED rowVars
  /\ UNCHANGED <<wire, ghosts, mishaps>>

\* Mutant: the peer is not told.
AcceptSilently(t) == UNCHANGED wire

Confirm(t) ==
  wire' = IF Exists(t) THEN wire \cup {[kind |-> "confirm", row |-> Back(t.row)]}
          ELSE wire

\* AcceptInbound: connected, then one POST of the confirm.
AcceptInbound(t) ==
  /\ t.next = "accept"
  /\ Connect(t)
  /\ Confirm(t)
  /\ Ends(t)
  /\ UNCHANGED <<key, caps, id, ghosts, mishaps>>

\* The network loses an envelope, a process dies between two statements.
Lose(m) == Mishap /\ wire' = wire \ {m} /\ UNCHANGED <<rowVars, tasks, ghosts>>
Crash(t) == Mishap /\ Ends(t) /\ UNCHANGED <<rowVars, wire, ghosts>>

-----------------------------------------------------------------------------
Runs(t) == \/ AddInbound(t) \/ SetCapabilities(t) \/ CrossOffer(t)
           \/ CompleteOutbound(t) \/ AcceptInbound(t)

Next ==
  \/ \E r \in Pairs : \/ InitiateOffer(r) \/ CreateFederationPeer(r)
                      \/ AcceptFederationPeer(r) \/ DeleteFederationPeer(r)
  \/ \E m \in wire : Receive(m) \/ Lose(m)
  \/ \E t \in tasks : Runs(t) \/ Crash(t)

Spec == Init /\ [][Next]_vars

\* Handlers run, envelopes arrive, and an administrator accepts what waits.
FairSpec ==
  /\ Spec
  /\ WF_vars(\E m \in wire : Receive(m))
  /\ WF_vars(\E t \in tasks : Runs(t))
  /\ \A r \in Pairs :
       WF_vars(/\ \A t \in tasks : t.row # r \/ t.next # "accept"
               /\ AcceptFederationPeer(r))

-----------------------------------------------------------------------------
(* Properties.                                                             *)

TypeOK ==
  /\ status \in [Pairs -> {"none", "out", "in", "connected"}]
  /\ key \in [Pairs -> {"placeholder", "real"}]
  /\ caps \subseteq Pairs /\ \A r \in caps : status[r] # "none"
  /\ id \in [Pairs -> 0..MaxId]
  /\ wire \subseteq Envelope
  /\ legacy \subseteq Instances
  /\ tasks \subseteq Task /\ Cardinality(tasks) <= MaxTasks

\* A row is connected only when an administrator of its instance asked for
\* that row: whatever was deleted and offered again in between.
ConnectedByIntent == \A r \in Pairs : status[r] = "connected" => r \in intent

\* Only when both instances made an offer or an entry can a connected row be
\* left without the peer's key.
PlaceholderOnlyIfCrossed ==
  \A r \in Pairs : status[r] = "connected" /\ key[r] = "placeholder" => Crossed(r)

\* A connected row without negotiated capabilities was entered by hand, is
\* being completed, belongs to a peer whose release names none, or its handler
\* died; and a row counts as negotiated only if its peer did name some, so that
\* ListPeersMissingCapabilities still shows the older ones.
NegotiatedUnlessCut ==
  \A r \in Pairs :
    /\ status[r] = "connected" =>
         \/ r \in caps \/ r \in byHand \/ mishaps > 0 \/ ~Advertises(r)
         \/ \E t \in tasks : t.row = r /\ t.next = "caps"
    /\ r \in caps => Advertises(r)

Paired(r) == status[r] = "connected" /\ key[r] = "real"

\* An offer to an instance that makes no offer or entry of its own pairs both,
\* unless an envelope is lost, a handler dies or a row is deleted.
OneSidedOfferPairs ==
  \A r \in Pairs :
    status[r] = "out" ~> \/ Paired(r) /\ Paired(Back(r))
                         \/ mishaps > 0 \/ Crossed(r)

\* Add says of instance_public_key: pending_outbound rows carry a placeholder
\* until the peer's confirm overwrites it, a connected row has a real key.
ConnectedHasKey ==
  \A r \in Pairs : status[r] = "connected" => key[r] = "real"
=============================================================================
