------------------------------- MODULE Admission -------------------------------
(***************************************************************************)
(* Admission of collections in server mode, and the retention pass that    *)
(* deletes them again.                                                     *)
(*                                                                         *)
(* POST /v1/collections (api/app.py) is one transaction of                 *)
(* storage/postgres.py: under an advisory lock it looks for an earlier     *)
(* collection of the same idempotency key, counts the active collections   *)
(* and inserts the new one.  Workers close collections meanwhile, readers  *)
(* touch them, and a retention pass deletes old keys and old collections   *)
(* in a transaction under another advisory lock.                           *)
(*                                                                         *)
(* One action is one statement, which sees what was committed before it;   *)
(* NOW() is the time at which the transaction began.  What a transaction   *)
(* wrote becomes visible with its last action.                             *)
(***************************************************************************)
EXTENDS Naturals, FiniteSets

CONSTANTS
    Request,         \* requests that may be in flight at the same time
    Key, Body,       \* storage idempotency keys, fingerprints of requests
    Consumer,
    ConsumerOf,      \* the consumer is part of the key
    Asked,           \* the combinations of key and body that clients send
    MaxActive, MaxPerConsumer,
    Window,          \* idempotency_window_seconds, in units of Lag
    Retention,       \* retention_collection_days, in the same unit
    Grace,           \* retention_result_access_grace_seconds
    Read,            \* the collections whose results somebody reads
    Lag,             \* longest time from a request to the end of its transaction
    MaxCollections,  \* bound on the collections ever created
    Horizon,         \* bound on the time
    None

ASSUME AdmissionAssumption ==
    /\ ConsumerOf \in [Key -> Consumer]
    /\ Asked \subseteq Key \X Body
    /\ MaxActive \in Nat \ {0} /\ MaxPerConsumer \in Nat \ {0}
    /\ Window \in Nat \ {0} /\ Retention \in Nat \ {0} /\ Grace \in Nat
    /\ Read \subseteq 1..MaxCollections
    /\ Lag \in Nat /\ MaxCollections \in Nat /\ Horizon \in Nat
    /\ IsFiniteSet(Request)
    /\ None \notin Key \cup Body \cup Request \cup Nat

Collection == 1..MaxCollections

VARIABLES
    coll,     \* argus.collections with argus.collection_result_access, and
              \* what is remembered of the rows that were deleted
    mapping,  \* argus.collection_idempotency: the collection of a key
    lock,     \* the holder of the admission lock
    req,      \* the requests
    purge,    \* the retention pass
    clock

admissionVars == <<coll, mapping, lock, req, purge, clock>>

-------------------------------------------------------------------------------
Time == 0..Horizon

\* made: created_at; done: updated_at of a closed one; seen: last_accessed_at.
Row == [state : {"none", "active", "closed", "deleted"}, key : Key \cup {None},
        body : Body \cup {None}, made : Time, done : Time,
        seen : Time \cup {None}]
NoRow == [state |-> "none", key |-> None, body |-> None, made |-> 0, done |-> 0, seen |-> None]

Stored == {c \in Collection : coll[c].state \in {"active", "closed"}}
Active == {c \in Collection : coll[c].state = "active"}
ActiveOf(p) == {c \in Active : ConsumerOf[coll[c].key] = p}
Created == {c \in Collection : coll[c].state # "none"}

\* dropped: the transaction has deleted the mapping of its key; found: the
\* collection that the mapping named.
Statement == {"expire", "lookup", "body", "consumer", "total", "insert"}
Req == [pc : {"idle", "lock"} \cup Statement, key : Key \cup {None},
        body : Body \cup {None}, made : Time, now : Time, dropped : BOOLEAN,
        found : Collection \cup {None}]
Idle == [pc |-> "idle", key |-> None, body |-> None, made |-> 0, now |-> 0,
         dropped |-> FALSE, found |-> None]

Purge == [pc : {"idle", "keys", "rows", "deleted"}, now : Time, keys : SUBSET Collection,
          rows : SUBSET Collection]
NoPurge == [pc |-> "idle", now |-> 0, keys |-> {}, rows |-> {}]

AdmissionInit ==
    /\ coll = [c \in Collection |-> NoRow]
    /\ mapping = [k \in Key |-> None]
    /\ lock = None
    /\ req = [r \in Request |-> Idle]
    /\ purge = NoPurge
    /\ clock = 0

\* The time that an idempotency window or a retention period has passed.
Older(t, period, now) == t + period <= now

-------------------------------------------------------------------------------
(***************************************************************************)
(* Requests.                                                               *)
(***************************************************************************)
InFlight == {r \in Request : req[r].pc # "idle"}

\* The handler has built the record and waited for a connection: the
\* transaction begins.
Submit(r) ==
    /\ req[r].pc = "idle"
    /\ Cardinality(Created) + Cardinality(InFlight) < MaxCollections
    /\ \E ask \in Asked, made \in Time :
          /\ made <= clock /\ clock <= made + Lag
          /\ req' = [req EXCEPT ![r] = [Idle EXCEPT !.pc = "lock", !.key = ask[1],
                                     !.body = ask[2], !.made = made, !.now = clock]]
    /\ UNCHANGED <<coll, mapping, lock, purge, clock>>

\* Mutant: nobody waits for the admission lock.
LockIgnored(r) ==
    /\ req[r].pc = "lock"
    /\ req' = [req EXCEPT ![r].pc = "expire"]
    /\ UNCHANGED <<coll, mapping, lock, purge, clock>>

Lock(r) ==
    /\ req[r].pc = "lock"
    /\ lock = None
    /\ lock' = r
    /\ req' = [req EXCEPT ![r].pc = "expire"]
    /\ UNCHANGED <<coll, mapping, purge, clock>>

Expired(r) == /\ mapping[req[r].key] # None
              /\ Older(coll[mapping[req[r].key]].made, Window, req[r].now)

\* Mutant: the window of the key is not looked at.
ExpireAlways(r) ==
    /\ req[r].pc = "expire"
    /\ mapping[req[r].key] \notin purge.keys
    /\ req' = [req EXCEPT ![r].pc = "lookup", ![r].dropped = TRUE]
    /\ UNCHANGED <<coll, mapping, lock, purge, clock>>

\* DELETE of the expired mapping waits for a retention pass that deletes it, too.
Expire(r) ==
    /\ req[r].pc = "expire"
    /\ Expired(r) => mapping[req[r].key] \notin purge.keys
    /\ req' = [req EXCEPT ![r].pc = "lookup", ![r].dropped = Expired(r)]
    /\ UNCHANGED <<coll, mapping, lock, purge, clock>>

\* The transaction ends, by COMMIT or by the ROLLBACK of an exception, and the
\* client is answered. Whether the answer arrives or not, it may ask again.
Answer(r) ==
    /\ req' = [req EXCEPT ![r] = Idle]
    /\ lock' = None

Named(r) == IF req[r].dropped THEN None ELSE mapping[req[r].key]

Found(r, c) ==
    /\ req' = [req EXCEPT ![r].pc = IF c = None THEN "consumer" ELSE "body", ![r].found = c]
    /\ UNCHANGED lock

\* Mutant: the fingerprint of the request is not compared.
LookupAnyBody(r) ==
    /\ req[r].pc = "lookup"
    /\ Found(r, Named(r))
    /\ UNCHANGED <<coll, mapping, purge, clock>>

\* The key of a different request is a conflict.
Lookup(r) ==
    LET c == Named(r) IN
    /\ req[r].pc = "lookup"
    /\ IF c # None /\ coll[c].body # req[r].body THEN Answer(r) ELSE Found(r, c)
    /\ UNCHANGED <<coll, mapping, purge, clock>>

\* The collection of the mapping is a second statement: it is the answer.
ReadBody(r) ==
    /\ req[r].pc = "body"
    /\ Answer(r)
    /\ UNCHANGED <<coll, mapping, purge, clock>>

\* A full queue is an answer, too.
Count(r, step, full, next) ==
    /\ req[r].pc = step
    /\ \/ /\ full
          /\ Answer(r)
       \/ /\ ~full
          /\ req' = [req EXCEPT ![r].pc = next]
          /\ UNCHANGED lock
    /\ UNCHANGED <<coll, mapping, purge, clock>>

CountConsumer(r) ==
    Count(r, "consumer", Cardinality(ActiveOf(ConsumerOf[req[r].key])) >= MaxPerConsumer,
          "total")

CountTotal(r) == Count(r, "total", Cardinality(Active) >= MaxActive, "insert")

\* Both INSERTs and the COMMIT.
Insert(r) ==
    LET c == Cardinality(Created) + 1 IN
    /\ req[r].pc = "insert"
    /\ c \in Collection
    /\ coll' = [coll EXCEPT ![c] = [NoRow EXCEPT !.state = "active", !.key = req[r].key,
                                                 !.body = req[r].body, !.made = req[r].made]]
    /\ mapping' = [mapping EXCEPT ![req[r].key] = c]
    /\ Answer(r)
    /\ UNCHANGED <<purge, clock>>

\* The connection breaks or the API process dies: nothing was written.
Abort(r) ==
    /\ req[r].pc # "idle"
    /\ req' = [req EXCEPT ![r] = Idle]
    /\ lock' = IF lock = r THEN None ELSE lock
    /\ UNCHANGED <<coll, mapping, purge, clock>>

-------------------------------------------------------------------------------
(***************************************************************************)
(* Workers, readers and retention.                                         *)
(***************************************************************************)
\* A worker or a cancellation closes the collection.
Close(c) ==
    /\ coll[c].state = "active"
    /\ coll' = [coll EXCEPT ![c].state = "closed", ![c].done = clock]
    /\ UNCHANGED <<mapping, lock, req, purge, clock>>

\* A result is read: the access is committed before the read begins. It refers
\* to the row, so it waits for a DELETE of it, and then fails. The read itself
\* changes nothing.
Touch(c) ==
    /\ c \in Read \cap Stored
    /\ ~(purge.pc = "deleted" /\ c \in purge.rows)
    /\ coll' = [coll EXCEPT ![c].seen = clock]
    /\ UNCHANGED <<mapping, lock, req, purge, clock>>

\* One pass at a time: the others do not get the maintenance lock. A batch
\* takes the oldest first; any subset may be that batch.
PurgeKeys ==
    /\ purge.pc = "idle"
    /\ \E ks \in SUBSET {k \in Key : /\ mapping[k] # None
                                     /\ Older(coll[mapping[k]].made, Window, clock)
                                     /\ \A r \in Request : ~(req[r].dropped /\ req[r].key = k)} :
          purge' = [NoPurge EXCEPT !.pc = "keys", !.now = clock,
                                   !.keys = {mapping[k] : k \in ks}]
    /\ UNCHANGED <<coll, mapping, lock, req, clock>>

Unread(c, now) == coll[c].seen = None \/ coll[c].seen + Grace < now

\* Mutant: running collections age, too.
PurgeRowsActive ==
    /\ purge.pc = "keys"
    /\ \E cs \in SUBSET {c \in Stored : /\ Older(coll[c].done, Retention, purge.now)
                                        /\ Unread(c, purge.now)} :
          purge' = [purge EXCEPT !.pc = "rows", !.rows = cs]
    /\ UNCHANGED <<coll, mapping, lock, req, clock>>

\* The DELETE of the collections chooses its rows from its snapshot.
PurgeRows ==
    /\ purge.pc = "keys"
    /\ \E cs \in SUBSET {c \in Stored : /\ coll[c].state = "closed"
                                        /\ Older(coll[c].done, Retention, purge.now)
                                        /\ Unread(c, purge.now)} :
          purge' = [purge EXCEPT !.pc = "rows", !.rows = cs]
    /\ UNCHANGED <<coll, mapping, lock, req, clock>>

\* It does not look again at a row that was only touched since.
PurgeDelete ==
    /\ purge.pc = "rows"
    /\ purge' = [purge EXCEPT !.pc = "deleted"]
    /\ UNCHANGED <<coll, mapping, lock, req, clock>>

\* COMMIT. The mappings of the deleted collections go with them.
PurgeCommit ==
    /\ purge.pc = "deleted"
    /\ coll' = [c \in Collection |->
                  IF c \in purge.rows THEN [coll[c] EXCEPT !.state = "deleted", !.done = 0, !.seen = None]
                  ELSE coll[c]]
    /\ mapping' = [k \in Key |->
                     IF mapping[k] \in purge.keys \cup purge.rows THEN None ELSE mapping[k]]
    /\ purge' = NoPurge
    /\ UNCHANGED <<lock, req, clock>>

PurgeAbort ==
    /\ purge.pc # "idle"
    /\ purge' = NoPurge
    /\ UNCHANGED <<coll, mapping, lock, req, clock>>

\* No transaction takes longer than Lag.
Tick ==
    /\ clock < Horizon
    /\ \A r \in InFlight : clock < req[r].made + Lag
    /\ purge.pc # "idle" => clock < purge.now + Lag
    /\ clock' = clock + 1
    /\ UNCHANGED <<coll, mapping, lock, req, purge>>

-------------------------------------------------------------------------------
AdmissionNext ==
    \/ \E r \in Request :
          \/ Submit(r) \/ Lock(r) \/ Expire(r) \/ Lookup(r) \/ ReadBody(r)
          \/ CountConsumer(r) \/ CountTotal(r) \/ Insert(r) \/ Abort(r)
    \/ \E c \in Collection : Close(c) \/ Touch(c)
    \/ PurgeKeys \/ PurgeRows \/ PurgeDelete \/ PurgeCommit \/ PurgeAbort
    \/ Tick

AdmissionSpec == AdmissionInit /\ [][AdmissionNext]_admissionVars

-------------------------------------------------------------------------------
(***************************************************************************)
(* Properties.                                                             *)
(***************************************************************************)
\* Rows have their shape, a request under way has a key, and one between its
\* statements holds the lock.
AdmissionTypeOK ==
    /\ coll \in [Collection -> Row]
    /\ mapping \in [Key -> Collection \cup {None}]
    /\ lock \in Request \cup {None}
    /\ req \in [Request -> Req]
    /\ purge \in Purge
    /\ clock \in Time
    /\ \A r \in Request : /\ req[r].pc # "idle" => req[r].key \in Key
                          /\ lock = r <=> req[r].pc \in Statement

\* The queue never exceeds its limits, however many requests are admitted at
\* the same time and whatever is closed, retried or deleted meanwhile.
QueueBounded ==
    /\ Cardinality(Active) <= MaxActive
    /\ \A p \in Consumer : Cardinality(ActiveOf(p)) <= MaxPerConsumer

\* Within the idempotency window a key stands for one collection: a second one
\* is committed only when the first is a window old.
OneCollectionPerWindow ==
    [][\A c \in Created, d \in Collection \ Created :
          coll'[d].state # "none" /\ coll'[d].key = coll[c].key
              => Older(coll[c].made, Window, clock)]_admissionVars

\* A client is sent to a collection of its own request only, and never to one
\* that the retention pass deleted between the two statements of the lookup
\* (which the code reports as an internal error).
AnswersOwnRequest ==
    \A r \in Request :
        req[r].pc = "body"
            => LET c == req[r].found IN
               /\ c \in Stored
               /\ coll[c].key = req[r].key /\ coll[c].body = req[r].body

\* No work is lost: a collection is deleted only after it was closed.
WorkIsNotDeleted ==
    [][\A c \in Collection : coll[c].state = "active" => coll'[c].state # "deleted"]_admissionVars

\* "Recently read terminal collections are protected by the grace period."
RecentReadsSurvive ==
    [][\A c \in Collection :
          coll[c].state # "deleted" /\ coll'[c].state = "deleted" => Unread(c, clock)]_admissionVars
===============================================================================
