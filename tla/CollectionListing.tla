---------------------------- MODULE CollectionListing ----------------------------
(* GET /v1/operations/collections: the collections, newest first, page by page      *)
(* (api/app.py, storage/postgres_operations.py, pagination.py), while collections    *)
(* are admitted, change their status and are deleted.  The time of creation is       *)
(* stamped by the API process before the row is admitted, so a row may appear behind *)
(* a cursor.  A page is one statement, hence one action; there is one client.        *)
EXTENDS Integers, SequencesExt, Sorting

CONSTANTS
    Listed,         \* ids of collections, ordered
    MaxClock,       \* bound of the times
    PageSizes       \* the limits that clients ask for

ASSUME ListingAssumption ==
    /\ Listed \subseteq Nat /\ IsFiniteSet(Listed)
    /\ MaxClock \in Nat \ {0}
    /\ PageSizes \subseteq Nat \ {0}

VARIABLES
    listTime,
    created,        \* created_at of each collection; 0 before it is stamped
    state,          \* whether it is stored, and with which status
    reader,         \* the client: phase, filter by status and cursor
    received,       \* ids in the order they were received
    staying         \* those that were listable at the first page and ever since

listingVars == <<listTime, created, state, reader, received, staying>>

Statuses == {"open", "closed"}
Anything == "any status"
Start    == [at |-> 0, id |-> 0]

ListingTypeOK ==
    /\ listTime \in 1 .. MaxClock
    /\ created \in [Listed -> 0 .. MaxClock]
    /\ state \in [Listed -> {"new", "deleted"} \cup Statuses]
    /\ reader.phase \in {"idle", "reads", "has all"}
    /\ reader.filter \in Statuses \cup {Anything}
    /\ reader.cursor = Start \/ reader.cursor \in [at : 1 .. MaxClock, id : Listed]
    /\ received \in Seq(Listed)
    /\ staying \subseteq Listed

ListingInit ==
    /\ listTime = 1
    /\ created = [c \in Listed |-> 0]
    /\ state = [c \in Listed |-> "new"]
    /\ reader = [phase |-> "idle", filter |-> Anything, cursor |-> Start]
    /\ received = <<>>
    /\ staying = {}

--------------------------------------------------------------------------------
(* The rows. *)

ClockTicks ==
    /\ listTime < MaxClock
    /\ listTime' = listTime + 1
    /\ UNCHANGED <<created, state, reader, received, staying>>

StampCreation(c) ==
    /\ created[c] = 0
    /\ created' = [created EXCEPT ![c] = listTime]
    /\ UNCHANGED <<listTime, state, reader, received, staying>>

Matching(s, filter) == {c \in Listed : s[c] \in IF filter = Anything THEN Statuses ELSE {filter}}

(* Admission, the end of a collection, and its retention. *)
Becomes(c, from, to) ==
    /\ created[c] > 0
    /\ state[c] = from
    /\ state' = [state EXCEPT ![c] = to]
    /\ staying' = staying \cap Matching(state', reader.filter)
    /\ UNCHANGED <<listTime, created, reader, received>>

RowChanges(c) ==
    Becomes(c, "new", "open") \/ Becomes(c, "open", "closed") \/ Becomes(c, "closed", "deleted")

--------------------------------------------------------------------------------
(* The pages. *)

\* Mutant: the cursor is the time alone.
BeforeByTime(c, cursor) == cursor = Start \/ created[c] < cursor.at

(* The row comparison of the WHERE clause. *)
Before(c, cursor) ==
    \/ cursor = Start
    \/ created[c] < cursor.at
    \/ created[c] = cursor.at /\ c < cursor.id

Newer(c, d) == created[c] > created[d] \/ (created[c] = created[d] /\ c > d)

(* One row more than the page is read: it says whether there is a next page.        *)
ListPage(size, filter, cursor) ==
    LET rows == InOrder({c \in Matching(state, filter) : Before(c, cursor)},
                        {p \in Listed \X Listed : Newer(p[1], p[2])})
        page == SubSeq(rows, 1, IF size < Len(rows) THEN size ELSE Len(rows))
    IN /\ received' = received \o page
       /\ reader' = IF Len(rows) > size
                    THEN [phase |-> "reads", filter |-> filter,
                          cursor |-> [at |-> created[Last(page)], id |-> Last(page)]]
                    ELSE [phase |-> "has all", filter |-> filter, cursor |-> cursor]

FirstPage(size, filter) ==
    /\ reader.phase = "idle"
    /\ ListPage(size, filter, Start)
    /\ staying' = Matching(state, filter)
    /\ UNCHANGED <<listTime, created, state>>

NextPage(size) ==
    /\ reader.phase = "reads"
    /\ ListPage(size, reader.filter, reader.cursor)
    /\ UNCHANGED <<listTime, created, state, staying>>

ListingNext ==
    \/ ClockTicks
    \/ \E c \in Listed : StampCreation(c) \/ RowChanges(c)
    \/ \E size \in PageSizes : NextPage(size) \/ \E f \in Statuses \cup {Anything} : FirstPage(size, f)

--------------------------------------------------------------------------------
(* A collection that could be listed at the first page and ever since is received    *)
(* once, and no collection is received twice, whatever else                           *)
(* is admitted, closed and deleted between the pages.                                 *)
ListingIsComplete ==
    /\ IsInjective(received)
    /\ reader.phase = "has all" => staying \subseteq Range(received)
================================================================================
