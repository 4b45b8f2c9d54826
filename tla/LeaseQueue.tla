------------------------------ MODULE LeaseQueue ------------------------------
(***************************************************************************)
(* Server-mode execution of collections.                                   *)
(*                                                                         *)
(* The API leaves queued rows in argus.collections; workers claim them     *)
(* with a lease (storage/postgres.py), run the orchestrator on them behind *)
(* a lease fence (worker.py, storage/fenced_postgres.py) and publish the   *)
(* facts of each source task together with the checkpoint.  A client may   *)
(* cancel at any time, a worker may stall, be stopped or die.              *)
(*                                                                         *)
(* One action is one statement or one transaction of the database, plus    *)
(* the local computation that precedes it.  Rows are the variables rec,    *)
(* facts and lease; the memory of an execution is a slot.                  *)
(*                                                                         *)
(* The database clock is abstracted: lease[c].live says lease_until >      *)
(* NOW().  NOW() is frozen when a transaction begins; a commit that waits  *)
(* for its row locks past the expiry but still finds itself the owner is   *)
(* the same behaviour as one that committed just before the expiry.        *)
(***************************************************************************)
EXTENDS Naturals, FiniteSets

CONSTANTS
    Collection,     \* collection ids
    Worker,         \* worker ids: host, pid and a random suffix
    Concurrency,    \* settings.worker_concurrency of each worker process
    Task,           \* dedupe keys of the source tasks of one collection
    Cancellable,    \* the collections a client may ask to cancel
    MaxFaults,      \* bound on stalls, stops, storage errors, crashes and
                    \* cancel requests
    None

ASSUME LeaseQueueAssumption ==
    /\ Concurrency \in [Worker -> Nat \ {0}]
    /\ Cancellable \subseteq Collection
    /\ MaxFaults \in Nat
    /\ None \notin Collection /\ None \notin Worker /\ None \notin Task

VARIABLES
    rec,      \* argus.collections: status and checkpoint of every collection
    facts,    \* argus.observations and argus.evidence, by the task they prove
    lease,    \* argus.collection_leases
    pc,       \* the executions of the worker processes: where each one is,
    col,      \* the collection it was started for,
    mem,      \* its copy of the record,
    task,     \* and the source task it is fetching
    api,      \* a cancel request between its read and its write
    faults,
    overlapped  \* history: the collections that two executions have worked on
                \* with the same worker's lease, or that were written by one
                \* whose lease was gone

rows  == <<rec, facts, lease>>
local == <<pc, col, mem, task>>
vars  == <<rec, facts, lease, pc, col, mem, task, api, faults, overlapped>>

-------------------------------------------------------------------------------
Status   == {"queued", "running", "done", "cancelled"}
Terminal == {"done", "cancelled"}   \* done: completed, partial, blocked, failed

\* ok: visited tasks whose result was committed; bad: visited tasks that failed.
Record == [status : Status, ok : SUBSET Task, bad : SUBSET Task]
NewRecord == [status |-> "queued", ok |-> {}, bad |-> {}]
Visited(r) == r.ok \cup r.bad

Lease   == [owner : Worker \cup {None}, live : BOOLEAN]
NoLease == [owner |-> None, live |-> FALSE]

Slot == UNION {{w} \X (1..Concurrency[w]) : w \in Worker}
WorkerOf(s) == s[1]

Loaded == {"start", "pick", "fetch", "final", "write"}
PC == {"idle", "load", "release"} \cup Loaded
Busy(s) == pc[s] \in {"load"} \cup Loaded

\* Mutant: any live lease will do, whoever holds it.
OwnsAnyLease(s) == lease[col[s]].live

\* The lease row every fenced statement looks for.
Owns(s) == /\ lease[col[s]].owner = WorkerOf(s)
           /\ lease[col[s]].live

Init ==
    /\ rec = [c \in Collection |-> NewRecord]
    /\ facts = [c \in Collection |-> {}]
    /\ lease = [c \in Collection |-> NoLease]
    /\ pc = [s \in Slot |-> "idle"]
    /\ col = [s \in Slot |-> None]
    /\ mem = [s \in Slot |-> NewRecord]
    /\ task = [s \in Slot |-> None]
    /\ api = [c \in Collection |-> None]
    /\ faults = 0
    /\ overlapped = {}

-------------------------------------------------------------------------------
\* The execution unwinds by cancellation: only the release of the lease is left.
Unwind(s) ==
    /\ pc' = [pc EXCEPT ![s] = "release"]
    /\ mem' = [mem EXCEPT ![s] = NewRecord]
    /\ task' = [task EXCEPT ![s] = None]
    /\ UNCHANGED col

\* What the execution does after it stored record r.
Continue(s, r) ==
    \/ r.status = "done" /\ Unwind(s)
    \/ /\ r.status # "done"
       /\ pc' = [pc EXCEPT ![s] = "pick"]
       /\ mem' = [mem EXCEPT ![s] = r]
       /\ task' = [task EXCEPT ![s] = None]
       /\ UNCHANGED col

\* Mutant: the status guard is not evaluated again on the latest row.
WriteRowUnguarded(s, r) ==
    /\ rec' = [rec EXCEPT ![col[s]] = r]
    /\ Continue(s, r)

\* The row of an UPDATE whose lease check has passed. The status guard is
\* evaluated again on the latest version of the row, the lease check is not.
WriteRow(s, r) ==
    \/ /\ rec[col[s]].status = "cancelled"
       /\ Unwind(s)
       /\ UNCHANGED rec
    \/ /\ rec[col[s]].status # "cancelled"
       /\ rec' = [rec EXCEPT ![col[s]] = r]
       /\ Continue(s, r)

\* One UPDATE, in two steps: its EXISTS looks at the lease in the snapshot with
\* which the statement began, and is not evaluated again when the row has to be
\* waited for. Anything may happen to the lease before the row is written.
FencedUpdate(s, r) ==
    /\ \/ ~Owns(s) /\ Unwind(s)
       \/ /\ Owns(s)
          /\ pc' = [pc EXCEPT ![s] = "write"]
          /\ mem' = [mem EXCEPT ![s] = r]
          /\ UNCHANGED <<col, task>>
    /\ UNCHANGED <<rec, overlapped>>

\* The row is written behind the lease of another worker, or behind none.
OvertakenAt(s) == /\ rec[col[s]].status # "cancelled"
                  /\ lease[col[s]].owner # WorkerOf(s)

Write(s) ==
    /\ pc[s] = "write"
    /\ WriteRow(s, mem[s])
    /\ overlapped' = IF OvertakenAt(s) THEN overlapped \cup {col[s]} ELSE overlapped
    /\ UNCHANGED <<facts, lease, api, faults>>

-------------------------------------------------------------------------------
(***************************************************************************)
(* The queue.                                                              *)
(***************************************************************************)
\* Mutant: interrupted collections are not offered again.
ClaimableQueuedOnly(c) == rec[c].status = "queued" /\ ~lease[c].live

\* Mutant: closed collections are offered again.
ClaimableAnyStatus(c) == ~lease[c].live

Claimable(c) == rec[c].status \in {"queued", "running"} /\ ~lease[c].live

WorksOn(w, c) == \E s \in Slot : Busy(s) /\ col[s] = c /\ WorkerOf(s) = w

\* FOR UPDATE SKIP LOCKED may pass over the oldest row, so any claimable row
\* can be the one taken. The expired lease may be one of this same worker.
Claim(s, c) ==
    /\ pc[s] = "idle"
    /\ Claimable(c)
    /\ lease' = [lease EXCEPT ![c] = [owner |-> WorkerOf(s), live |-> TRUE]]
    /\ pc' = [pc EXCEPT ![s] = "load"]
    /\ col' = [col EXCEPT ![s] = c]
    /\ overlapped' = IF WorksOn(WorkerOf(s), c) THEN overlapped \cup {c} ELSE overlapped
    /\ UNCHANGED <<rec, facts, mem, task, api, faults>>

\* The slot is free for the next claim.
Free(s) ==
    /\ pc' = [pc EXCEPT ![s] = "idle"]
    /\ col' = [col EXCEPT ![s] = None]
    /\ UNCHANGED <<mem, task>>

Release(s) ==
    /\ pc[s] = "release"
    /\ lease' = [lease EXCEPT ![col[s]] = IF @.owner = WorkerOf(s) THEN NoLease ELSE @]
    /\ Free(s)
    /\ UNCHANGED <<rec, facts, api, faults, overlapped>>

\* A failed DELETE is suppressed: the lease stays until it expires.
ReleaseFails(s) ==
    /\ pc[s] = "release"
    /\ faults < MaxFaults
    /\ faults' = faults + 1
    /\ Free(s)
    /\ UNCHANGED <<rows, api, overlapped>>

Attended(c) == WorksOn(lease[c].owner, c)

\* lease_until passes: nobody renews the lease any more.
Expire(c) ==
    /\ lease[c].live
    /\ ~Attended(c)
    /\ lease' = [lease EXCEPT ![c].live = FALSE]
    /\ UNCHANGED <<rec, facts, local, api, faults, overlapped>>

\* It passes although an execution should have renewed it: the event loop
\* stalled, or the renewals did not reach the database in time.
Stall(c) ==
    /\ lease[c].live
    /\ Attended(c)
    /\ faults < MaxFaults
    /\ faults' = faults + 1
    /\ lease' = [lease EXCEPT ![c].live = FALSE]
    /\ UNCHANGED <<rec, facts, local, api, overlapped>>

\* The renewal matches no row; the execution is cancelled. (A renewal that
\* matches leaves the lease live.)
HeartbeatLost(s) ==
    /\ Busy(s)
    /\ ~Owns(s)
    /\ Unwind(s)
    /\ UNCHANGED <<rows, api, faults, overlapped>>

\* A stop request or a database error ends the attempt while it owns the lease.
Interrupt(s) ==
    /\ Busy(s)
    /\ faults < MaxFaults
    /\ faults' = faults + 1
    /\ Unwind(s)
    /\ UNCHANGED <<rows, api, overlapped>>

\* The process dies: nothing is released. Its slots serve the next process.
Crash(w) ==
    /\ \E s \in Slot : WorkerOf(s) = w /\ pc[s] # "idle"
    /\ faults < MaxFaults
    /\ faults' = faults + 1
    /\ pc' = [s \in Slot |-> IF WorkerOf(s) = w THEN "idle" ELSE pc[s]]
    /\ col' = [s \in Slot |-> IF WorkerOf(s) = w THEN None ELSE col[s]]
    /\ mem' = [s \in Slot |-> IF WorkerOf(s) = w THEN NewRecord ELSE mem[s]]
    /\ task' = [s \in Slot |-> IF WorkerOf(s) = w THEN None ELSE task[s]]
    /\ UNCHANGED <<rows, api, overlapped>>

-------------------------------------------------------------------------------
(***************************************************************************)
(* The orchestrator, at the grain of its storage calls.                    *)
(***************************************************************************)
\* The execution reads the row; unless cancelled, it goes on with that copy.
ReadRecord(s, next) ==
    \/ /\ rec[col[s]].status = "cancelled"
       /\ Unwind(s)
    \/ /\ rec[col[s]].status # "cancelled"
       /\ pc' = [pc EXCEPT ![s] = next]
       /\ mem' = [mem EXCEPT ![s] = rec[col[s]]]
       /\ task' = [task EXCEPT ![s] = None]
       /\ UNCHANGED col

Load(s) ==
    /\ pc[s] = "load"
    /\ ReadRecord(s, "start")
    /\ UNCHANGED <<rows, api, faults, overlapped>>

Start(s) ==
    /\ pc[s] = "start"
    /\ FencedUpdate(s, [mem[s] EXCEPT !.status = "running"])
    /\ UNCHANGED <<facts, lease, api, faults>>

\* The head of the task loop: leave if cancelled, stop on an exhausted budget
\* or an empty queue, otherwise take a task that was not visited.
Pick(s) ==
    /\ pc[s] = "pick"
    /\ \/ /\ rec[col[s]].status = "cancelled"
          /\ Unwind(s)
       \/ /\ rec[col[s]].status # "cancelled"
          /\ pc' = [pc EXCEPT ![s] = "final"]
          /\ UNCHANGED <<col, mem, task>>
       \/ /\ rec[col[s]].status # "cancelled"
          /\ pc' = [pc EXCEPT ![s] = "fetch"]
          /\ \E t \in Task \ Visited(mem[s]) : task' = [task EXCEPT ![s] = t]
          /\ UNCHANGED <<col, mem>>
    /\ UNCHANGED <<rows, api, faults, overlapped>>

\* Mutant: a lost lease stops the facts but not the checkpoint.
CommitFencesFactsOnly(s) ==
    LET c == col[s]
        r == [mem[s] EXCEPT !.ok = @ \cup {task[s]}]
    IN  /\ pc[s] = "fetch"
        /\ rec[c].status # "cancelled"
        /\ facts' = IF Owns(s) THEN [facts EXCEPT ![c] = @ \cup {task[s]}] ELSE facts
        /\ rec' = [rec EXCEPT ![c] = r]
        /\ Continue(s, r)
        /\ UNCHANGED <<lease, api, faults, overlapped>>

\* Mutant: the facts are stored, the checkpoint waits for the next update.
CommitDefersCheckpoint(s) ==
    LET c == col[s] IN
        /\ pc[s] = "fetch"
        /\ rec[c].status # "cancelled"
        /\ Owns(s)
        /\ facts' = [facts EXCEPT ![c] = @ \cup {task[s]}]
        /\ Continue(s, [mem[s] EXCEPT !.ok = @ \cup {task[s]}])
        /\ UNCHANGED <<rec, lease, api, faults, overlapped>>

\* Mutant: the transaction locks the collection row and not the lease row.
CommitUnfenced(s) ==
    LET c == col[s]
        r == [mem[s] EXCEPT !.ok = @ \cup {task[s]}]
    IN  /\ pc[s] = "fetch"
        /\ rec[c].status # "cancelled"
        /\ facts' = [facts EXCEPT ![c] = @ \cup {task[s]}]
        /\ rec' = [rec EXCEPT ![c] = r]
        /\ Continue(s, r)
        /\ UNCHANGED <<lease, api, faults, overlapped>>

\* The fetch returned a result. commit_task_success: the collection row and the
\* lease row are locked, then facts and checkpoint are written in one transaction.
Commit(s) ==
    LET c == col[s]
        r == [mem[s] EXCEPT !.ok = @ \cup {task[s]}]
    IN  /\ pc[s] = "fetch"
        /\ \/ /\ rec[c].status = "cancelled" \/ ~Owns(s)
              /\ Unwind(s)
              /\ UNCHANGED <<rec, facts>>
           \/ /\ rec[c].status # "cancelled"
              /\ Owns(s)
              /\ facts' = [facts EXCEPT ![c] = @ \cup {task[s]}]
              /\ rec' = [rec EXCEPT ![c] = r]
              /\ Continue(s, r)
        /\ UNCHANGED <<lease, api, faults, overlapped>>

\* The fetch failed, was refused or timed out.
RecordFailure(s) ==
    /\ pc[s] = "fetch"
    /\ FencedUpdate(s, [mem[s] EXCEPT !.bad = @ \cup {task[s]}])
    /\ UNCHANGED <<facts, lease, api, faults>>

\* An exception outside the source-error handlers: the latest row is read
\* again and becomes the record that is closed.
RunFails(s) ==
    /\ pc[s] \in {"pick", "fetch"}
    /\ ReadRecord(s, "final")
    /\ UNCHANGED <<rows, api, faults, overlapped>>

\* After the loop. A cancellation seen by the last check ends like one seen by
\* the UPDATE.
Finalize(s) ==
    /\ pc[s] = "final"
    /\ FencedUpdate(s, [mem[s] EXCEPT !.status = "done"])
    /\ UNCHANGED <<facts, lease, api, faults>>

-------------------------------------------------------------------------------
(***************************************************************************)
(* The API process has no lease: it reads the row, then writes it back     *)
(* with status cancelled.                                                  *)
(***************************************************************************)
CancelRead(c) ==
    /\ c \in Cancellable
    /\ api[c] = None
    /\ rec[c].status \notin Terminal
    /\ faults < MaxFaults
    /\ faults' = faults + 1
    /\ api' = [api EXCEPT ![c] = rec[c]]
    /\ UNCHANGED <<rows, local, overlapped>>

CancelWrite(c) ==
    /\ api[c] # None
    /\ rec' = [rec EXCEPT ![c] = [api[c] EXCEPT !.status = "cancelled"]]
    /\ api' = [api EXCEPT ![c] = None]
    /\ UNCHANGED <<facts, lease, local, faults, overlapped>>

-------------------------------------------------------------------------------
Execute(s) ==
    \/ Load(s) \/ Start(s) \/ Pick(s) \/ Commit(s) \/ RecordFailure(s)
    \/ RunFails(s) \/ Finalize(s) \/ Write(s)

Next ==
    \/ \E s \in Slot, c \in Collection : Claim(s, c)
    \/ \E s \in Slot : \/ Execute(s) \/ Release(s) \/ ReleaseFails(s)
                       \/ HeartbeatLost(s) \/ Interrupt(s)
    \/ \E c \in Collection : Expire(c) \/ Stall(c) \/ CancelRead(c) \/ CancelWrite(c)
    \/ \E w \in Worker : Crash(w)

Spec == Init /\ [][Next]_vars

\* Workers poll, executions go on or end, the clock advances. Clients, faults
\* and the order of heartbeats and executions owe nothing.
Fairness ==
    /\ \A s \in Slot : WF_vars(Execute(s) \/ Release(s) \/ HeartbeatLost(s))
    /\ \A c \in Collection : /\ WF_vars(\E s \in Slot : Claim(s, c))
                             /\ WF_vars(Expire(c))

FairSpec == Spec /\ Fairness

-------------------------------------------------------------------------------
(***************************************************************************)
(* Properties.                                                             *)
(***************************************************************************)
\* Rows and slots have their shape, and a live lease names its worker.
TypeOK ==
    /\ rec \in [Collection -> Record]
    /\ facts \in [Collection -> SUBSET Task]
    /\ lease \in [Collection -> Lease]
    /\ pc \in [Slot -> PC]
    /\ col \in [Slot -> Collection \cup {None}]
    /\ mem \in [Slot -> Record]
    /\ task \in [Slot -> Task \cup {None}]
    /\ api \in [Collection -> Record \cup {None}]
    /\ faults \in 0..MaxFaults
    /\ overlapped \subseteq Collection
    /\ \A c \in Collection : lease[c].live => lease[c].owner # None
    /\ \A s \in Slot : /\ pc[s] = "idle" <=> col[s] = None
                       /\ pc[s] = "fetch" => task[s] # None

\* A checkpoint never counts a task as successfully visited unless its facts
\* are stored: whatever crash, stall, stale writer or late cancellation comes
\* between, a replacement worker skips no task whose result was lost.
FactsBehindCheckpoint == \A c \in Collection : rec[c].ok \subseteq facts[c]

\* Once a cancellation is stored no worker resurrects the collection and no
\* facts are added to it, not even by an UPDATE that was waiting for the row.
CancelledStays ==
    [][\A c \in Collection : rec[c].status = "cancelled" =>
          rec'[c].status = "cancelled" /\ facts'[c] = facts[c]]_vars

\* The copy of the record in an execution still is the stored record.
SameRecord(s) ==
    /\ rec[col[s]].ok = mem[s].ok
    /\ rec[col[s]].bad = mem[s].bad
    /\ rec[col[s]].status \in IF pc[s] = "start" THEN {"queued", "running"} ELSE {"running"}

\* Record new is record old after a start, a failed task t or the end.
OneStep(old, t, new) ==
    /\ new.ok = old.ok
    /\ \/ /\ old.status \in {"queued", "running"} /\ new.status = "running"
          /\ new.bad = old.bad
       \/ /\ old.status = "running" /\ new.status = "running"
          /\ t \notin Visited(old) /\ new.bad = old.bad \cup {t}
       \/ /\ old.status = "running" /\ new.status = "done"
          /\ new.bad = old.bad

Coherent(s) == IF pc[s] = "write" THEN OneStep(rec[col[s]], task[s], mem[s])
                                  ELSE SameRecord(s)

\* The execution that owns the lease works from the stored checkpoint, and what
\* it is about to store follows from it in one step: no other execution moved
\* the row since, however often the lease changed hands. Two things only break
\* this: a claim of the worker's own expired lease while its earlier execution
\* goes on, and an UPDATE that lands after its lease was lost.
OwnerSeesCheckpoint ==
    \A s \in Slot :
        pc[s] \in Loaded /\ lease[col[s]].owner = WorkerOf(s) /\ col[s] \notin overlapped
            => rec[col[s]].status = "cancelled" \/ Coherent(s)

\* As long as neither has happened, the owner of the lease never fetches a task
\* whose facts are published, through crashes, stalls and takeovers.
RefetchNeedsOverlap ==
    \A s \in Slot :
        /\ pc[s] = "fetch" /\ Owns(s)
        /\ rec[col[s]].status # "cancelled" /\ col[s] \notin overlapped
        => task[s] \notin facts[col[s]]

\* "If the first attempt reached COMMIT, visited is stored with the facts and
\* there is no second fetch": the owner of a lease never fetches a published
\* task, without exception.
OwnerNeverRefetches ==
    \A s \in Slot :
        pc[s] = "fetch" /\ Owns(s) /\ rec[col[s]].status # "cancelled"
            => task[s] \notin facts[col[s]]

\* A worker whose lease went to another worker writes no collection state.
StaleWorkerWritesNothing ==
    [][\A s \in Slot :
          LET c == col[s] IN
          /\ pc[s] \in Loaded
          /\ pc'[s] # pc[s]
          /\ rec'[c] # rec[c]
          => lease[c].owner = WorkerOf(s)]_vars

\* Two executions of one worker hold the collection, at work or about to give the
\* lease back. The lease row names the worker, so each can take or release the
\* lease of the other, and the two may go on doing so.
WorkedTwice(c) ==
    \E s, t \in Slot : s # t /\ WorkerOf(s) = WorkerOf(t) /\ col[s] = c /\ col[t] = c

\* Every collection reaches a terminal status, and stays there, through any
\* bounded number of stalls, stops, storage errors and crashes, unless a worker
\* that runs several executions keeps meeting itself on it.
EventuallyClosed ==
    \A c \in Collection : <>[](rec[c].status \in Terminal) \/ []<>WorkedTwice(c)

\* No lease outlives the work: rows of dead or failed workers expire and the
\* claim that follows finds nothing to do.
LeasesDrain == \A c \in Collection : <>[](~lease[c].live) \/ []<>WorkedTwice(c)

\* What remains visible of all this is the life of a collection in
\* QueueLifecycle: the plain one until two executions overlap.
Lifecycle == INSTANCE QueueLifecycle WITH
    status    <- [c \in Collection |-> rec[c].status],
    published <- [c \in Collection |-> rec[c].ok],
    failed    <- [c \in Collection |-> rec[c].bad]
ImplementsLifecycle == Lifecycle!QueueSpec
===============================================================================
