-------------------------------- MODULE Embedded --------------------------------
(* Embedded mode: API and orchestrator in one process on SQLite.                  *)
(* orchestrator/service.py keeps a task per collection and recovers open ones at   *)
(* start; storage/sqlite.py runs every statement in a thread behind one lock.      *)
(* A coroutine that is cancelled gives the lock back while its thread goes on: the *)
(* write is left over and lands later.  No lease and no fence protects a row.      *)
EXTENDS Integers, FiniteSets

CONSTANTS
    Item,           \* collections
    Page,           \* source tasks of a collection
    MaxJobs,        \* max_concurrency of the orchestrator
    MaxEnds,        \* bound: crashes and shutdowns of the process
    NoRecord        \* a null record

VARIABLES
    proc,           \* the process
    ends,           \* how often it ended
    row,            \* table collections
    stored,         \* tables observations and evidence, by the page they came from
    job,            \* _jobs: the coroutines of _run
    op,             \* the statement that holds the lock and runs in a thread
    left,           \* statements whose coroutine is gone
    noted,          \* _cancelled: cancellations the coroutines are to notice
    request         \* what a cancel request has read

embeddedVars == <<proc, ends, row, stored, job, op, left, noted, request>>

Final == {"done", "cancelled"}

\* again: the stage "recovered".
Rows == [status : {"queued", "running"} \cup Final, again : BOOLEAN,
         ok : SUBSET Page, bad : SUBSET Page]
NewRow == [status |-> "queued", again |-> FALSE, ok |-> {}, bad |-> {}]

Kinds == {"begin", "commit", "fail", "finish", "broken"}
Ops   == [item : Item, kind : Kinds, body : Rows, page : Page \cup {NoRecord},
          phase : {"running", "applied", "refused"}]
ASSUME EmbeddedAssumption ==
    MaxJobs \in Nat \ {0} /\ MaxEnds \in Nat /\ NoRecord \notin Rows \cup Ops

NoJob == [at |-> "none", mem |-> NoRecord]
Jobs  == [at : {"none", "spawned"}, mem : {NoRecord}] \cup
         [at : {"head", "fetching", "issued", "raised"}, mem : Rows]

EmbeddedTypeOK ==
    /\ proc \in {"down", "up", "closing"}
    /\ ends \in 0 .. MaxEnds
    /\ row \in [Item -> Rows \cup {NoRecord}]
    /\ stored \in [Item -> SUBSET Page]
    /\ job \in [Item -> Jobs]
    /\ op \in Ops \cup {NoRecord}
    /\ left \subseteq Ops
    /\ noted \subseteq Item
    /\ request \in [Item -> Rows \cup {NoRecord}]

EmbeddedInit ==
    /\ proc = "up"
    /\ ends = 0
    /\ row = [i \in Item |-> NoRecord]
    /\ stored = [i \in Item |-> {}]
    /\ job = [i \in Item |-> NoJob]
    /\ op = NoRecord
    /\ left = {}
    /\ noted = {}
    /\ request = [i \in Item |-> NoRecord]

Open(i)  == row[i] # NoRecord /\ row[i].status \notin Final
LockFree == op = NoRecord
Holding  == {i \in Item : job[i].at \notin {"none", "spawned"}}

--------------------------------------------------------------------------------
(* Coroutines of the orchestrator. *)

SubmitItem(i) ==
    /\ proc = "up" /\ row[i] = NoRecord /\ LockFree
    /\ row' = [row EXCEPT ![i] = NewRow]
    /\ job' = [job EXCEPT ![i].at = "spawned"]
    /\ UNCHANGED <<proc, ends, stored, op, left, noted, request>>

Issue(i, kind, body, page) ==
    /\ LockFree
    /\ op' = [item |-> i, kind |-> kind, body |-> body, page |-> page, phase |-> "running"]
    /\ job' = [job EXCEPT ![i] = [at |-> "issued", mem |-> body]]
    /\ UNCHANGED <<proc, ends, row, stored, left, noted, request>>

(* _run loads the row behind the semaphore and writes it back as running; a       *)
(* cancelled one is left alone.                                                   *)
LoadItem(i) ==
    /\ job[i].at = "spawned"
    /\ Cardinality(Holding) < MaxJobs
    /\ row[i].status # "cancelled"
    /\ Issue(i, "begin", [row[i] EXCEPT !.status = "running", !.again = FALSE], NoRecord)

Todo(m) == Page \ (m.ok \cup m.bad)

(* _run, the head of the task loop and the outer handler look for a cancellation.   *)
(* They find none here, since cancel() ends the coroutine before it writes one: the *)
(* branches that leave _run at a cancelled row are taken in server mode only.       *)
IsCancelled(i) == i \in noted \/ row[i].status = "cancelled"

PickPage(i) ==
    /\ job[i].at = "head" /\ LockFree
    /\ ~IsCancelled(i)
    /\ Todo(job[i].mem) # {}
    /\ job' = [job EXCEPT ![i].at = "fetching"]
    /\ UNCHANGED <<proc, ends, row, stored, op, left, noted, request>>

(* A page was fetched: its facts are committed, or its failure is recorded. *)
CommitPage(i, p) ==
    /\ job[i].at = "fetching" /\ p \in Todo(job[i].mem)
    /\ Issue(i, "commit", [job[i].mem EXCEPT !.ok = @ \cup {p}], p)

FailPage(i, p) ==
    /\ job[i].at = "fetching" /\ p \in Todo(job[i].mem)
    /\ Issue(i, "fail", [job[i].mem EXCEPT !.bad = @ \cup {p}], NoRecord)

FinishItem(i) ==
    /\ job[i].at = "head" /\ ~IsCancelled(i)
    /\ Todo(job[i].mem) = {}
    /\ Issue(i, "finish", [job[i].mem EXCEPT !.status = "done"], NoRecord)

(* The outer handler closes the latest row, not its own copy. *)
CloseBroken(i) ==
    /\ job[i].at = "raised"
    /\ row[i].status # "cancelled"
    /\ Issue(i, "broken", [row[i] EXCEPT !.status = "done"], NoRecord)

RunRaises(i) ==
    /\ job[i].at = "fetching"
    /\ job' = [job EXCEPT ![i].at = "raised"]
    /\ UNCHANGED <<proc, ends, row, stored, op, left, noted, request>>

--------------------------------------------------------------------------------
(* Threads.  A plain update has no condition at all; a commit looks at the stored *)
(* status and writes facts and checkpoint in one transaction.                     *)

Refused(o) == o.kind = "commit" /\ row[o.item].status = "cancelled"

Effect(o) ==
    /\ row' = IF Refused(o) THEN row ELSE [row EXCEPT ![o.item] = o.body]
    /\ stored' = IF o.kind = "commit" /\ ~Refused(o)
                 THEN [stored EXCEPT ![o.item] = @ \cup {o.page}] ELSE stored

ThreadRuns ==
    /\ op # NoRecord /\ op.phase = "running"
    /\ Effect(op)
    /\ op' = [op EXCEPT !.phase = IF Refused(op) THEN "refused" ELSE "applied"]
    /\ UNCHANGED <<proc, ends, job, left, noted, request>>

(* The coroutine goes on with the lock given back. *)
ThreadReturns ==
    /\ op # NoRecord /\ op.phase # "running"
    /\ op' = NoRecord
    /\ job' = [job EXCEPT ![op.item] =
                 IF op.phase = "refused" THEN [@ EXCEPT !.at = "raised"]
                 ELSE IF op.kind \in {"finish", "broken"} THEN NoJob
                 ELSE [@ EXCEPT !.at = "head"]]
    /\ noted' = IF op.kind \in {"finish", "broken"} THEN noted \ {op.item} ELSE noted
    /\ UNCHANGED <<proc, ends, row, stored, left, request>>

LeftoverRuns(o) ==
    /\ o \in left
    /\ Effect(o)
    /\ left' = left \ {o}
    /\ UNCHANGED <<proc, ends, job, op, noted, request>>

--------------------------------------------------------------------------------
(* cancel(): read behind the lock, then without a pause note the cancellation and  *)
(* cancel the coroutine; the write comes after it, with the row that was read.      *)

InThread(items) == IF op # NoRecord /\ op.item \in items /\ op.phase = "running"
                   THEN {op} ELSE {}

CancelTasks(items) ==
    /\ job' = [i \in Item |-> IF i \in items THEN NoJob ELSE job[i]]
    /\ left' = left \cup InThread(items)
    /\ op' = IF op # NoRecord /\ op.item \in items THEN NoRecord ELSE op

(* A coroutine forgets its note when it ends, unless it never got past the          *)
(* semaphore; then the note stays as long as the process.                          *)
Note(i) == noted' = IF i \in Holding THEN noted \ {i} ELSE noted \cup {i}

\* Mutant: the row is read without the lock of the store.
ReadForCancelUnlocked(i) ==
    /\ proc = "up" /\ Open(i)
    /\ request[i] = NoRecord
    /\ request' = [request EXCEPT ![i] = row[i]]
    /\ CancelTasks({i})
    /\ Note(i)
    /\ UNCHANGED <<proc, ends, row, stored>>

ReadForCancel(i) ==
    /\ proc = "up" /\ LockFree
    /\ Open(i)
    /\ request[i] = NoRecord
    /\ request' = [request EXCEPT ![i] = row[i]]
    /\ CancelTasks({i})
    /\ Note(i)
    /\ UNCHANGED <<proc, ends, row, stored>>

WriteCancelled(i) ==
    /\ request[i] # NoRecord /\ LockFree
    /\ row' = [row EXCEPT ![i] = [request[i] EXCEPT !.status = "cancelled", !.again = FALSE]]
    /\ request' = [request EXCEPT ![i] = NoRecord]
    /\ UNCHANGED <<proc, ends, stored, job, op, left, noted>>

--------------------------------------------------------------------------------
(* The process. *)

(* shutdown() cancels the coroutines; the event loop waits for the threads.       *)
Shutdown ==
    /\ proc = "up" /\ ends < MaxEnds
    /\ proc' = "closing"
    /\ ends' = ends + 1
    /\ CancelTasks(Item)
    /\ noted' = noted \ Holding
    /\ request' = [i \in Item |-> NoRecord]
    /\ UNCHANGED <<row, stored>>

ShutdownEnds ==
    /\ proc = "closing" /\ left = {}
    /\ proc' = "down"
    /\ noted' = {}
    /\ UNCHANGED <<ends, row, stored, job, op, left, request>>

Kill ==
    /\ proc # "down" /\ ends < MaxEnds
    /\ proc' = "down"
    /\ ends' = ends + 1
    /\ job' = [i \in Item |-> NoJob]
    /\ op' = NoRecord
    /\ left' = {}
    /\ noted' = {}
    /\ request' = [i \in Item |-> NoRecord]
    /\ UNCHANGED <<row, stored>>

(* start(): a row found running is written back as queued; both kinds are spawned. *)
(* Requests are served once this is over.                                         *)
Recover ==
    /\ proc = "down"
    /\ proc' = "up"
    /\ row' = [i \in Item |->
                 IF Open(i) /\ row[i].status = "running"
                 THEN [row[i] EXCEPT !.status = "queued", !.again = TRUE] ELSE row[i]]
    /\ job' = [i \in Item |-> IF Open(i) THEN [NoJob EXCEPT !.at = "spawned"] ELSE NoJob]
    /\ UNCHANGED <<ends, stored, op, left, noted, request>>

JobStep(i) ==
    \/ LoadItem(i) \/ PickPage(i) \/ FinishItem(i) \/ CloseBroken(i)
    \/ \E p \in Page : CommitPage(i, p) \/ FailPage(i, p)

ThreadStep == ThreadRuns \/ ThreadReturns \/ \E o \in left : LeftoverRuns(o)

EmbeddedNext ==
    \/ \E i \in Item : SubmitItem(i) \/ JobStep(i) \/ RunRaises(i)
                       \/ ReadForCancel(i) \/ WriteCancelled(i)
    \/ ThreadStep
    \/ Shutdown \/ ShutdownEnds \/ Kill \/ Recover

--------------------------------------------------------------------------------
(* A row that is queued again after it ran has not gone back in its lifecycle.     *)
EmbeddedStatus(i) ==
    IF row[i] = NoRecord THEN "queued"
    ELSE IF row[i].again THEN "running" ELSE row[i].status

(* The promise: a stored cancellation is never undone, and what the checkpoint counts *)
(* as visited is what is stored, whatever is cancelled, stopped or killed meanwhile.   *)
Promise == INSTANCE CollectionLifecycle WITH
    Collection <- Item,
    Task       <- Page,
    status     <- [i \in Item |-> EmbeddedStatus(i)],
    published  <- [i \in Item |-> IF row[i] = NoRecord THEN {} ELSE row[i].ok],
    failed     <- [i \in Item |-> IF row[i] = NoRecord THEN {} ELSE row[i].bad],
    facts      <- stored
EmbeddedKeepsPromise == Promise!Spec

(* A collection that is open is closed in the end, however often the process ends: the *)
(* next one takes up what it finds open.                                              *)
EmbeddedCloses == \A i \in Item : Open(i) ~> ~Open(i)
================================================================================
