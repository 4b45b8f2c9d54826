---------------------------- MODULE ResultDelivery ----------------------------
(***************************************************************************)
(* Delivery of the result of one collection, page by page.                 *)
(*                                                                         *)
(* api/app.py serves observations and evidence with keyset cursors: a page *)
(* is the next rows in the order of their ids, bounded by a number and by  *)
(* a number of bytes.  The page of PostgreSQL is one window query          *)
(* (storage/postgres_operations.py), the page of SQLite is a loop          *)
(* (result_delivery.py).  Meanwhile workers publish facts, the collection  *)
(* is closed and retention deletes it.                                     *)
(*                                                                         *)
(* A request reads the record and the rows in one snapshot: it is one      *)
(* action.  Requests do not disturb each other, so there is one client.    *)
(* A request that is refused (409 while the collection runs, 404 when it   *)
(* is gone, 400 for the cursor of another kind) changes nothing.           *)
(***************************************************************************)
EXTENDS Integers, FiniteSets, SequencesExt, Sorting

CONSTANTS
    Kind,         \* observations and evidence
    Size,         \* Size[i]: bytes of the body of the item with id i
    Limit,        \* the page sizes that clients ask for
    PageBytes,    \* api_result_page_max_bytes
    FullItems,    \* api_full_result_max_items
    FullBytes,    \* api_full_result_max_bytes
    MaxRestarts,  \* bound on how often the client starts again
    None

Row == DOMAIN Size

ASSUME ResultDeliveryAssumption ==
    /\ Size \in Seq(Nat \ {0})
    /\ Limit \subseteq Nat \ {0}
    /\ PageBytes \in Nat \ {0} /\ FullItems \in Nat \ {0} /\ FullBytes \in Nat \ {0}
    /\ MaxRestarts \in Nat
    /\ None \notin Row

VARIABLES
    status,    \* running, closed (any terminal status) or deleted
    rows,      \* argus.observations and argus.evidence of the collection; of
               \* a deleted one, what was there
    got,       \* what the client received, in this order
    next,      \* the cursor it holds
    end,       \* the kinds whose last page came without a cursor
    restarts

store  == <<status, rows>>
client == <<got, next, end>>
deliveryVars == <<status, rows, got, next, end, restarts>>

-------------------------------------------------------------------------------
(***************************************************************************)
(* Pages.                                                                  *)
(***************************************************************************)
Bytes(S) == Cardinality(UNION {{i} \X (1 .. Size[i]) : i \in S})

After(S, cursor) == {i \in S : cursor = None \/ cursor < i}

\* The rows of LIMIT.
Base(S, cursor, limit) ==
    LET rest == After(S, cursor)
    IN  {i \in rest : Cardinality({j \in rest : j <= i}) <= limit}

\* PostgreSQL: the rows whose running sum fits, and always the first one.
PgPage(S, cursor, limit) ==
    LET base == Base(S, cursor, limit)
        page == {i \in base : \/ \A j \in base : i <= j
                              \/ Bytes({j \in base : j <= i}) <= PageBytes}
    IN  [items |-> Ascending(page), bytes |-> Bytes(page),
         more  |-> page # {} /\ After(S, Max(page)) # {}]

\* One turn of the loop over the rows of SQLite.
TakeRow(page, i) ==
    IF page.stopped \/ (page.items # <<>> /\ page.bytes + Size[i] > PageBytes)
    THEN [page EXCEPT !.stopped = TRUE]
    ELSE [page EXCEPT !.items = Append(@, i), !.bytes = @ + Size[i]]

\* The loop over a list of rows.
Taken(list) ==
    LET upTo[n \in 0 .. Len(list)] ==
          IF n = 0 THEN [items |-> <<>>, bytes |-> 0, stopped |-> FALSE]
          ELSE TakeRow(upTo[n - 1], list[n])
    IN upTo[Len(list)]

\* Mutant: only the byte limit is taken for a reason to come back.
SqlitePageForgets(S, cursor, limit) ==
    LET page == Taken(Ascending(Base(S, cursor, limit)))
    IN  [items |-> page.items, bytes |-> page.bytes, more |-> page.stopped]

\* SQLite: rows are taken while they fit. Only a full page looks for more rows.
SqlitePage(S, cursor, limit) ==
    LET page == Taken(Ascending(Base(S, cursor, limit)))
    IN  [items |-> page.items, bytes |-> page.bytes,
         more  |-> \/ page.stopped
                   \/ /\ Len(page.items) = limit
                      /\ After(S, Last(page.items)) # {}]

\* The pages of a set of rows.
Pages == [S \in SUBSET Row |-> [cursor \in Row \cup {None} |->
            [limit \in Limit |-> PgPage(S, cursor, limit)]]]

-------------------------------------------------------------------------------
DeliveryInit ==
    /\ status = "running"
    /\ rows = [k \in Kind |-> {}]
    /\ got = [k \in Kind |-> <<>>]
    /\ next = [k \in Kind |-> None]
    /\ end = {}
    /\ restarts = 0

\* The facts of a task are committed, while the collection runs.
Publish ==
    /\ status = "running"
    /\ \E new \in [Kind -> SUBSET Row] :
          rows' = [k \in Kind |-> rows[k] \cup new[k]]
    /\ UNCHANGED <<status, client, restarts>>

\* The collection reaches a terminal status. (That no facts follow is a
\* property of LeaseQueue.)
Close ==
    /\ status = "running"
    /\ status' = "closed"
    /\ UNCHANGED <<rows, client, restarts>>

\* Retention deletes the collection with its rows.
Delete ==
    /\ status = "closed"
    /\ status' = "deleted"
    /\ UNCHANGED <<rows, client, restarts>>

\* Mutant: the client is told every time that this was the last page.
AnswerEnds(k, cursor, page) ==
    /\ got' = [got EXCEPT ![k] = (IF cursor = None THEN <<>> ELSE @) \o page.items]
    /\ next' = [next EXCEPT ![k] = IF page.more THEN Last(page.items) ELSE None]
    /\ end' = end \cup {k}

\* The items, and the cursor of the next page.
Answer(k, cursor, page) ==
    /\ got' = [got EXCEPT ![k] = (IF cursor = None THEN <<>> ELSE @) \o page.items]
    /\ next' = [next EXCEPT ![k] = IF page.more THEN Last(page.items) ELSE None]
    /\ end' = IF page.more THEN end \ {k} ELSE end \cup {k}

\* Mutant: pages of an unfinished result are served, too.
DeliverEarly(k, cursor, limit) ==
    /\ status # "deleted"
    /\ Answer(k, cursor, Pages[rows[k]][cursor][limit])

\* Mutant: an item that does not fit into a page is an error.
DeliverFitting(k, cursor, limit) ==
    LET page == Pages[rows[k]][cursor][limit] IN
    /\ status = "closed"
    /\ page.bytes <= PageBytes
    /\ Answer(k, cursor, page)

\* The page after the cursor, of a result that is final.
Deliver(k, cursor, limit) ==
    /\ status = "closed"
    /\ Answer(k, cursor, Pages[rows[k]][cursor][limit])

\* A first request has no cursor.
FirstPage(k, limit) ==
    /\ got[k] = <<>> /\ k \notin end
    /\ Deliver(k, None, limit)
    /\ UNCHANGED <<store, restarts>>

\* A client may lose its cursor and start again.
Restart(k, limit) ==
    /\ restarts < MaxRestarts
    /\ restarts' = restarts + 1
    /\ Deliver(k, None, limit)
    /\ UNCHANGED store

\* A cursor names its kind.
Held == {[kind |-> k, item |-> next[k]] : k \in {k \in Kind : next[k] # None}}

\* The client may present any of its cursors; one of another kind is refused.
\* The size of the pages may change from one to the next.
NextPage(k, limit) ==
    /\ \E cursor \in Held :
          /\ cursor.kind = k
          /\ Deliver(k, cursor.item, limit)
    /\ UNCHANGED <<store, restarts>>

\* A small result is delivered at once. (That of a running collection is
\* marked by its status as unfinished.)
FullResult ==
    /\ status = "closed"
    /\ MapThenSumSet(LAMBDA k : Cardinality(rows[k]), Kind) <= FullItems
    /\ MapThenSumSet(LAMBDA k : Bytes(rows[k]), Kind) <= FullBytes
    /\ got' = [k \in Kind |-> Ascending(rows[k])]
    /\ next' = [k \in Kind |-> None]
    /\ end' = Kind
    /\ UNCHANGED <<store, restarts>>

DeliveryNext ==
    \/ Publish \/ Close \/ Delete
    \/ \E k \in Kind, limit \in Limit :
          FirstPage(k, limit) \/ Restart(k, limit) \/ NextPage(k, limit)
    \/ FullResult

-------------------------------------------------------------------------------
(***************************************************************************)
(* Properties.                                                             *)
(***************************************************************************)
\* Rows, cursors and what was received are items; a cursor is held only before
\* the end.
DeliveryTypeOK ==
    /\ status \in {"running", "closed", "deleted"}
    /\ rows \in [Kind -> SUBSET Row]
    /\ \A k \in Kind : /\ got[k] \in Seq(Row)
                       /\ next[k] \in Row \cup {None}
                       /\ k \in end => next[k] = None
    /\ end \subseteq Kind
    /\ restarts \in 0..MaxRestarts

\* What a client received of a kind is the beginning of the result, every item
\* once and in order, whatever the page sizes, the sizes of the items and the
\* moment it began; without a cursor it is all of it. ("There is no silent
\* truncation.")
PagesAreTheResult ==
    \A k \in Kind :
        /\ IsPrefix(got[k], Ascending(rows[k]))
        /\ k \in end => got[k] = Ascending(rows[k])

\* Both stores serve the same pages: the window query and the loop agree on
\* items, bytes and on whether there is more.
StoresAgree ==
    \A k \in Kind, cursor \in Row \cup {None}, limit \in Limit :
        Pages[rows[k]][cursor][limit] = SqlitePage(rows[k], cursor, limit)

\* "The first item may be returned even when it alone exceeds the limit, or
\* the cursor could be blocked forever": who follows the cursors gets to the
\* end unless retention is faster.
DeliveryEnds == status = "closed" ~> (end = Kind \/ status = "deleted")
===============================================================================
