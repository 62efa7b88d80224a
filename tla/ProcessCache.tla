---------------------------- MODULE ProcessCache ----------------------------
(***************************************************************************)
(* The read-through caches of the server processes (app/internal/cache):   *)
(* an LRU per process and domain, dropped locally after a commit and on    *)
(* the other processes by a NOTIFY that one listening connection receives. *)
(*                                                                         *)
(* A slot is one key of one domain.  What the database holds for it is the *)
(* business of the module that extends this one: it says what is loaded.   *)
(***************************************************************************)
EXTENDS Integers, FiniteSets

CONSTANTS
  Processes,       \* server processes over one database
  Slots,           \* <<domain, key>>, here their names
  NONE,            \* no entry
  MaxReads,        \* bound: values read and not yet added, per process and slot
  MaxMishaps       \* bound: faults so far

ASSUME CacheAssumption == MaxReads \in Nat /\ MaxMishaps \in Nat

VARIABLES
  entries,     \* entries[p][k]: the cached value, NONE if there is none
  loading,     \* loading[p][k]: values read from the database, not yet added
  notices,     \* <<p, k>>: notifications on their way to a process
  deaf,        \* processes whose listener has exited
  owed,        \* <<p, k>>: writes p committed and has not invalidated yet
  overtaken,   \* history: <<p, k>> loaded before a commit and not yet dropped
  unheard,     \* history: <<p, k>> whose invalidation will not reach p
  mishaps      \* faults so far

cacheVars == <<entries, loading, notices, deaf, owed, overtaken, unheard>>

CacheInit ==
  /\ entries = [p \in Processes |-> [k \in Slots |-> NONE]]
  /\ loading = [p \in Processes |-> [k \in Slots |-> {}]]
  /\ notices = {} /\ deaf = {} /\ owed = {} /\ overtaken = {} /\ unheard = {}
  /\ mishaps = 0

Mishap == mishaps < MaxMishaps /\ mishaps' = mishaps + 1

\* Get misses: the caller reads the database, several callers at once perhaps.
Load(p, k, value) ==
  /\ entries[p][k] = NONE
  /\ Cardinality(loading[p][k]) < MaxReads
  /\ loading' = [loading EXCEPT ![p][k] = @ \cup {value}]
  /\ UNCHANGED <<entries, notices, deaf, owed, overtaken, unheard, mishaps>>

\* Add: whatever happened to the key since the read.
Add(p, k) ==
  \E value \in loading[p][k] :
    /\ entries' = [entries EXCEPT ![p][k] = value]
    /\ loading' = [loading EXCEPT ![p][k] = @ \ {value}]
    /\ UNCHANGED <<notices, deaf, owed, overtaken, unheard, mishaps>>

\* What is known of a slot once its entry and the reads under way are gone.
Forget(S, p, k) == IF loading[p][k] = {} THEN S \ {<<p, k>>} ELSE S

Remove(p, k) ==
  /\ entries' = [entries EXCEPT ![p][k] = NONE]
  /\ overtaken' = Forget(overtaken, p, k)

\* A commit of process p that changes what is loaded for every slot; those of
\* K are to be invalidated.
Commits(p, K) ==
  /\ owed' = owed \cup {<<p, k>> : k \in K}
  /\ overtaken' = overtaken \cup
                    {s \in Processes \X Slots : loading[s[1]][s[2]] # {}}
  /\ UNCHANGED <<entries, loading, notices, deaf, unheard, mishaps>>

\* Mutant: only the other processes hear of the write.
TellOthers(p, k) == UNCHANGED <<entries, overtaken>>

Drop(p, k) == Remove(p, k)

\* Invalidate, after the commit: drop the entry, then notify every process,
\* this one included.  The NOTIFY may fail.
Invalidate(p, k) ==
  /\ <<p, k>> \in owed
  /\ owed' = owed \ {<<p, k>>}
  /\ Drop(p, k)
  /\ \/ /\ notices' = notices \cup {<<q, k>> : q \in Processes \ deaf}
        /\ unheard' = unheard \cup {<<q, k>> : q \in deaf \ {p}}
        /\ UNCHANGED mishaps
     \/ /\ Mishap
        /\ unheard' = unheard \cup {<<q, k>> : q \in Processes \ {p}}
        /\ UNCHANGED notices
  /\ UNCHANGED <<loading, deaf>>

\* listen and dispatch.
Receive(p, k) ==
  /\ <<p, k>> \in notices
  /\ notices' = notices \ {<<p, k>>}
  /\ Remove(p, k)
  /\ unheard' = Forget(unheard, p, k)
  /\ UNCHANGED <<loading, deaf, owed, mishaps>>

\* The LRU makes room.
Evict(p, k) ==
  /\ entries[p][k] # NONE
  /\ Remove(p, k)
  /\ unheard' = Forget(unheard, p, k)
  /\ UNCHANGED <<loading, notices, deaf, owed, mishaps>>

\* listen returns on the first error and nobody listens again.
ListenerExits(p) ==
  /\ p \notin deaf
  /\ Mishap
  /\ deaf' = deaf \cup {p}
  /\ notices' = {n \in notices : n[1] # p}
  /\ unheard' = unheard \cup {n \in notices : n[1] = p}
  /\ UNCHANGED <<entries, loading, owed, overtaken>>

\* The process dies with the invalidations it owes, and starts empty.
Restart(p) ==
  /\ Mishap
  /\ entries' = [entries EXCEPT ![p] = [k \in Slots |-> NONE]]
  /\ loading' = [loading EXCEPT ![p] = [k \in Slots |-> {}]]
  /\ deaf' = deaf \ {p}
  /\ notices' = {n \in notices : n[1] # p}
  /\ owed' = {s \in owed : s[1] # p}
  /\ overtaken' = {s \in overtaken : s[1] # p}
  /\ unheard' = {s \in unheard : s[1] # p} \cup
                  {<<q, s[2]>> : q \in Processes \ {p}, s \in {o \in owed : o[1] = p}}

CacheStep(p, k) == Add(p, k) \/ Invalidate(p, k) \/ Receive(p, k) \/ Evict(p, k)

\* Why an entry may differ from the database: a write is not invalidated yet,
\* the notification is on its way or will not come, or the entry was read
\* before a commit and added after its invalidation.
Excused(p, k) ==
  \/ \E q \in Processes : <<q, k>> \in owed
  \/ <<p, k>> \in notices \cup unheard \cup overtaken

CacheTypeOK ==
  /\ DOMAIN entries = Processes /\ DOMAIN loading = Processes
  /\ notices \cup owed \cup overtaken \cup unheard \subseteq Processes \X Slots
  /\ deaf \subseteq Processes /\ \A n \in notices : n[1] \notin deaf
=============================================================================
