----------------------------- MODULE CollectionRun -----------------------------
(***************************************************************************)
(* One collection, from its first attempt to its terminal status.          *)
(*                                                                         *)
(* orchestrator/service.py plans the source tasks, orchestrator/atomic.py  *)
(* works them off under a page and a time budget and closes the            *)
(* collection, orchestrator/evidence_status.py aligns the terminal status  *)
(* with the evidence.  An attempt may end between any two storage calls    *)
(* (lost lease, storage error, stop, crash); the next one starts from the  *)
(* stored record.  That attempts do not overlap is the business of         *)
(* LeaseQueue.                                                             *)
(*                                                                         *)
(* The queue of pending tasks is a set: its order is the research          *)
(* priority, which is recomputed after every task and decides nothing of   *)
(* what is stated here.                                                    *)
(***************************************************************************)
EXTENDS Naturals, FiniteSets

CONSTANTS
    Task,          \* dedupe keys of source tasks
    Host,          \* (source, host) pairs; a host refuses with one error code
    HostOf,        \* the host a task fetches from
    Initial,       \* tasks that the adapters may find for the request itself
    Searchable,    \* tasks that discovery and the planner may add
    Children,      \* the tasks that the result of a task may disclose
    MaxPages,      \* constraints.max_pages
    TimeBudget,    \* constraints.max_duration_seconds, in units of the
                   \* timeout of one source task
    Threshold,     \* source_block_threshold
    AllowPartial,  \* request.allow_partial
    MaxCrashes,    \* bound on the attempts that end early
    None

ASSUME CollectionRunAssumption ==
    /\ HostOf \in [Task -> Host]
    /\ Initial \subseteq Task
    /\ Searchable \subseteq Task
    /\ Children \in [Task -> SUBSET Task]
    /\ MaxPages \in Nat \ {0}
    /\ TimeBudget \in Nat \ {0}
    /\ Threshold \in Nat \ {0}
    /\ AllowPartial \in BOOLEAN
    /\ MaxCrashes \in Nat
    /\ None \notin Task /\ None \notin Nat

VARIABLES
    row,      \* the stored record
    facts,    \* the stored observations: 0 none, 1 some, 2 for every intent
    pc,       \* where the current attempt is
    mem,      \* its copy of the record
    task,     \* the task it is fetching
    late,     \* it stopped on the time budget
    clock,    \* time since the budget started
    crashes

attempt == <<pc, mem, task, late>>
vars    == <<row, facts, pc, mem, task, late, clock, crashes>>

-------------------------------------------------------------------------------
Closed == {"completed", "partial", "blocked", "failed"}
Status == {"queued", "running", "cancelled"} \cup Closed

\* marks: what coverage and errors say of the tasks so far.
Mark == {"blocked", "partial", "error"}

Record == [status : Status, initial : BOOLEAN, planned : BOOLEAN, dblocked : BOOLEAN,
           started : (0..TimeBudget) \cup {None}, pending : SUBSET Task,
           visited : SUBSET Task, marks : SUBSET Mark, breaker : [Host -> 0..MaxPages]]

NewRecord == [status |-> "queued", initial |-> FALSE, planned |-> FALSE,
              dblocked |-> FALSE, started |-> None, pending |-> {}, visited |-> {},
              marks |-> {}, breaker |-> [h \in Host |-> 0]]

Init ==
    /\ row = NewRecord
    /\ facts = 0
    /\ pc = "idle"
    /\ mem = NewRecord
    /\ task = None
    /\ late = FALSE
    /\ clock = 0
    /\ crashes = 0

\* The attempt is over; what it held in memory is gone.
End ==
    /\ pc' = "idle"
    /\ mem' = NewRecord
    /\ task' = None
    /\ late' = FALSE

\* The attempt goes on at the given place.
GoOn(r, next) ==
    /\ pc' = next
    /\ mem' = r
    /\ task' = None
    /\ UNCHANGED late

\* update_collection: a cancelled row ends the attempt.
Store(r, next) ==
    \/ /\ row.status = "cancelled"
       /\ End
       /\ UNCHANGED row
    \/ /\ row.status # "cancelled"
       /\ row' = r
       /\ IF next = "idle" THEN End ELSE GoOn(r, next)

Remaining(r) == IF clock - r.started >= TimeBudget THEN 0
                ELSE TimeBudget - (clock - r.started)

-------------------------------------------------------------------------------
(***************************************************************************)
(* Planning.                                                               *)
(***************************************************************************)
Begin ==
    /\ pc = "idle"
    /\ row.status \in {"queued", "running"}
    /\ Store([row EXCEPT !.status = "running"], "initial")
    /\ UNCHANGED <<facts, clock, crashes>>

\* The tasks of the adapters, unless an earlier attempt stored them.
PlanInitial ==
    /\ pc = "initial"
    /\ \/ /\ mem.planned \/ mem.initial
          /\ GoOn(mem, "discover")
          /\ UNCHANGED row
       \/ /\ ~mem.planned /\ ~mem.initial
          /\ \E found \in SUBSET Initial :
                Store([mem EXCEPT !.initial = TRUE, !.pending = @ \cup found], "discover")
    /\ UNCHANGED <<facts, clock, crashes>>

\* Discovery stores what it found after every intent: an early end repeats none.
Discover ==
    /\ pc = "discover"
    /\ ~mem.planned
    /\ \E found \in SUBSET Searchable, errors \in SUBSET {"error"}, blocked \in BOOLEAN :
          Store([mem EXCEPT !.pending = @ \cup found, !.marks = @ \cup errors,
                            !.dblocked = @ \/ blocked], "discover")
    /\ UNCHANGED <<facts, clock, crashes>>

\* The planner adds its own tasks, and the plan is stored; a stored plan is
\* stored again.
PlanStore ==
    /\ pc = "discover"
    /\ \E found \in IF mem.planned THEN {{}} ELSE SUBSET Searchable :
          Store([mem EXCEPT !.planned = TRUE, !.pending = @ \cup found], "plan")
    /\ UNCHANGED <<facts, clock, crashes>>

\* A plan without any task is closed at once.
NoTasks ==
    /\ pc = "plan"
    /\ mem.pending = {} /\ mem.visited = {}
    /\ Store([mem EXCEPT !.status = IF mem.dblocked THEN "blocked" ELSE "failed"], "idle")
    /\ UNCHANGED <<facts, clock, crashes>>

\* Mutant: every attempt gets a budget of its own.
StartBudgetAgain ==
    /\ pc = "plan"
    /\ mem.pending # {} \/ mem.visited # {}
    /\ Store([mem EXCEPT !.started = clock], "loop")
    /\ UNCHANGED <<facts, clock, crashes>>

\* The time budget starts once and survives the attempt.
StartBudget ==
    /\ pc = "plan"
    /\ mem.pending # {} \/ mem.visited # {}
    /\ \/ /\ mem.started # None
          /\ GoOn(mem, "loop")
          /\ UNCHANGED row
       \/ /\ mem.started = None
          /\ Store([mem EXCEPT !.started = clock], "loop")
    /\ UNCHANGED <<facts, clock, crashes>>

-------------------------------------------------------------------------------
(***************************************************************************)
(* The task loop.                                                          *)
(***************************************************************************)
\* Mutant: the tasks of earlier attempts do not count.
PagesLeftThisAttempt(r) == Cardinality(r.visited) < MaxPages + crashes

PagesLeft(r) == Cardinality(r.visited) < MaxPages

\* Leave when cancelled, out of pages, out of tasks or out of time; otherwise
\* take a task out of the queue, and skip it when it was visited.
Pick ==
    /\ pc = "loop"
    /\ \/ /\ row.status = "cancelled"
          /\ End
       \/ /\ mem.pending = {} \/ ~PagesLeft(mem)
          /\ GoOn(mem, "finish")
       \/ /\ row.status # "cancelled"
          /\ mem.pending # {} /\ PagesLeft(mem)
          /\ Remaining(mem) = 0
          /\ pc' = "finish"
          /\ late' = TRUE
          /\ UNCHANGED <<mem, task>>
       \/ /\ row.status # "cancelled"
          /\ mem.pending # {} /\ PagesLeft(mem)
          /\ Remaining(mem) > 0
          /\ \E t \in mem.pending :
                /\ pc' = IF t \in mem.visited THEN "loop" ELSE "fetch"
                /\ task' = IF t \in mem.visited THEN None ELSE t
                /\ mem' = [mem EXCEPT !.pending = @ \ {t}]
          /\ UNCHANGED late
    /\ UNCHANGED <<row, facts, clock, crashes>>

\* Mutant: an open circuit empties the queue.
PrunedEverything(r, h) == {}

\* The queue without the tasks of a host whose circuit is open.
Pruned(r, h) ==
    IF r.breaker[h] >= Threshold THEN {t \in r.pending : HostOf[t] # h} ELSE r.pending

\* The record after a task delivered: the circuit breaker counts a blocked
\* result, then the disclosed tasks are queued, then the task is visited.
Delivered(r, t, marks, kids) ==
    LET h == HostOf[t]
        c == IF "blocked" \in marks THEN [r EXCEPT !.breaker[h] = @ + 1] ELSE r
        q == IF "blocked" \in marks THEN Pruned(c, h) ELSE r.pending
    IN  [c EXCEPT !.pending = q \cup (kids \ r.visited),
                  !.visited = @ \cup {t},
                  !.marks = @ \cup (IF "blocked" \in marks THEN marks \ {"partial"} ELSE marks)]

\* The task returned a result, which is committed with the checkpoint.
Succeed ==
    /\ pc = "fetch"
    /\ \/ /\ row.status = "cancelled"
          /\ End
          /\ UNCHANGED <<row, facts>>
       \/ /\ row.status # "cancelled"
          /\ \E marks \in SUBSET Mark, kids \in SUBSET Children[task] :
                LET r == Delivered(mem, task, marks, kids) IN
                /\ row' = r
                /\ GoOn(r, "loop")
          /\ facts' \in facts..2
    /\ UNCHANGED <<clock, crashes>>

\* Mutant: the task that failed goes back to the queue.
FailRequeues ==
    /\ pc = "fetch"
    /\ \E m \in {"error", "blocked"} :
          Store([mem EXCEPT !.pending = @ \cup {task}, !.marks = @ \cup {m}], "loop")
    /\ UNCHANGED <<facts, clock, crashes>>

\* The source raised an error, ran into its own timeout, or robots.txt refuses.
Fail ==
    /\ pc = "fetch"
    /\ \E m \in {"error", "blocked"} :
          Store([mem EXCEPT !.visited = @ \cup {task}, !.marks = @ \cup {m}], "loop")
    /\ UNCHANGED <<facts, clock, crashes>>

\* The deadline of the collection interrupts the task: it goes back to the queue.
\* (A TimeoutError of the source itself is taken for the deadline, too.)
Deadline ==
    /\ pc = "fetch"
    /\ Remaining(mem) <= 1
    /\ pc' = "finish"
    /\ late' = TRUE
    /\ mem' = [mem EXCEPT !.pending = @ \cup {task}]
    /\ task' = None
    /\ clock' \in clock..TimeBudget
    /\ UNCHANGED <<row, facts, crashes>>

-------------------------------------------------------------------------------
(***************************************************************************)
(* Closing.                                                                *)
(***************************************************************************)
OutOfPages(r) == ~late /\ r.pending # {} /\ ~PagesLeft(r)

Marks(r) == r.marks \cup (IF late \/ OutOfPages(r) THEN {"error"} ELSE {})

\* Mutant: the budgets are no degradation.
VerdictIgnoresBudget(r) ==
    IF facts > 0
    THEN IF r.marks = {} THEN "completed" ELSE IF AllowPartial THEN "partial" ELSE "failed"
    ELSE IF r.marks = {} THEN "completed"
         ELSE IF "blocked" \in r.marks /\ "error" \notin r.marks THEN "blocked" ELSE "failed"

Verdict(r) ==
    IF Marks(r) = {} THEN "completed"
    ELSE IF facts > 0 THEN IF AllowPartial THEN "partial" ELSE "failed"
    ELSE IF "blocked" \in Marks(r) /\ "error" \notin Marks(r) THEN "blocked" ELSE "failed"

Finish ==
    /\ pc = "finish"
    /\ Store([mem EXCEPT !.status = Verdict(mem), !.marks = Marks(mem)], "align")
    /\ UNCHANGED <<facts, clock, crashes>>

\* The closed record is read again; a requested intent without a fact takes the
\* "completed" back.
Align ==
    /\ pc = "align"
    /\ \/ /\ row.status \in {"cancelled", "blocked", "failed"}
          /\ End
          /\ UNCHANGED row
       \/ /\ row.status \in {"completed", "partial"}
          /\ Store(IF facts = 2 THEN row
                   ELSE [row EXCEPT !.status = IF AllowPartial /\ facts > 0 THEN "partial"
                                               ELSE "failed",
                                    !.marks = @ \cup {"error"}],
                   "idle")
    /\ UNCHANGED <<facts, clock, crashes>>

\* An exception outside the source-error handlers: the latest record is closed.
RunFails ==
    /\ pc \in {"initial", "discover", "loop", "fetch", "align"}
    /\ crashes < MaxCrashes
    /\ crashes' = crashes + 1
    /\ Store([row EXCEPT !.status = IF AllowPartial /\ facts > 0 THEN "partial" ELSE "failed",
                         !.marks = @ \cup {"error"}],
             "idle")
    /\ UNCHANGED <<facts, clock>>

\* The attempt ends early: lease lost, storage error, stop, crash.
Crash ==
    /\ pc # "idle"
    /\ crashes < MaxCrashes
    /\ crashes' = crashes + 1
    /\ End
    /\ UNCHANGED <<row, facts, clock>>

\* A client cancels. (The gap between its read and its write is in LeaseQueue.)
Cancel ==
    /\ row.status \in {"queued", "running"}
    /\ row' = [row EXCEPT !.status = "cancelled"]
    /\ UNCHANGED <<facts, attempt, clock, crashes>>

\* A fetch never outlasts the time that was left for it.
Tick ==
    /\ pc # "fetch"
    /\ row.started # None
    /\ clock < TimeBudget
    /\ clock' = clock + 1
    /\ UNCHANGED <<row, facts, attempt, crashes>>

-------------------------------------------------------------------------------
Step == \/ Begin \/ PlanInitial \/ Discover \/ PlanStore \/ NoTasks
        \/ StartBudget \/ Pick \/ Succeed \/ Fail \/ Deadline \/ Finish \/ Align

Next == Step \/ RunFails \/ Crash \/ Cancel \/ Tick

Spec == Init /\ [][Next]_vars

\* Some worker attempts an open collection, and an attempt goes on.
FairSpec == Spec /\ WF_vars(Step)

-------------------------------------------------------------------------------
(***************************************************************************)
(* Properties.                                                             *)
(***************************************************************************)
\* The record keeps its shape; only a running fetch has a task.
TypeOK ==
    /\ row \in Record
    /\ facts \in 0..2
    /\ pc \in {"idle", "initial", "discover", "plan", "loop", "fetch", "finish", "align"}
    /\ mem \in Record
    /\ task \in Task \cup {None}
    /\ pc = "fetch" <=> task # None
    /\ late \in BOOLEAN
    /\ clock \in 0..TimeBudget
    /\ crashes \in 0..MaxCrashes

\* A task that was stored once is never lost: whichever attempt writes the
\* record, the task leaves the queue by being visited or because the circuit of
\* its own host is open.
Kept(t) ==
    \/ t \in row'.pending \cup row'.visited
    \/ row'.breaker[HostOf[t]] >= Threshold

StoredTasksKept ==
    [][\A t \in row.pending \cup row.visited : Kept(t)]_vars

\* All attempts together visit no more than max_pages tasks.
WithinPageBudget == Cardinality(row.visited) <= MaxPages

\* No task is fetched after the time budget, counted from the first attempt.
FetchesBeforeDeadline == pc = "fetch" => clock < TimeBudget

\* What the closed record claims: nothing was left undone or went wrong behind
\* "completed", and there are facts behind "partial" and none behind "blocked".
ClosedHonestly ==
    /\ row.status = "completed" => row.pending = {} /\ row.marks = {}
    /\ row.status = "partial" => AllowPartial /\ facts > 0
    /\ row.status = "blocked" => facts = 0

\* "Completed requires all requested intents to have factual coverage", once no
\* attempt is under way.
CompletedIsCovered == row.status = "completed" /\ pc = "idle" => facts = 2

\* Every collection is closed, however its tasks behave and its attempts end.
Closes == <>[](row.status \in Closed \cup {"cancelled"})
===============================================================================
