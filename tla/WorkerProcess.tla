----------------------------- MODULE WorkerProcess -----------------------------
(* One worker process (worker.py): start, claim loop, executions with their      *)
(* lease heartbeat, registration with its heartbeat, and the stop that SIGTERM    *)
(* asks for.  LeaseQueue says what the queue does with several workers; here the  *)
(* queue is what one worker sees of it: leases of its own, which may expire, and   *)
(* collections it is offered.  LlmGate decides whether it claims at all.          *)
EXTENDS Integers, FiniteSets

CONSTANTS
    Job,            \* collections
    Run,            \* identities of executions (tasks of the event loop)
    Concurrency,    \* worker_concurrency
    LlmRequired     \* llm_required: claims wait for the model

NoRun == "no run"
NoOne == "no collection"

ASSUME WorkerAssumption ==
    /\ IsFiniteSet(Run) /\ NoRun \notin Run
    /\ Concurrency \in Nat \ {0}
    /\ LlmRequired \in BOOLEAN

VARIABLES
    life,           \* of the process
    stop,           \* the event _stop
    loop,           \* where run() is
    room,           \* claims left in the inner loop
    claimed,        \* did the inner loop claim anything
    active,         \* _active: the execution of a collection, or NoRun
    run,            \* the executions
    leased,         \* collections of which this worker holds a lease that is not over
    registered,     \* the row of this worker in worker_instances
    heart           \* _worker_heartbeat_loop

workerVars == <<life, stop, loop, room, claimed, active, run, leased, registered, heart>>

(* job: its collection; replaced: _active names a later run of the collection.   *)
NotRun == [job |-> NoOne, at |-> "over", replaced |-> FALSE]
Runs == [job : Job \cup {NoOne}, at : {"working", "releasing", "over"},
         replaced : BOOLEAN]

WorkerTypeOK ==
    /\ life \in {"new", "up", "stopped", "exited"}
    /\ stop \in BOOLEAN
    /\ loop \in {"top", "gate", "claim", "idle", "gather", "end"}
    /\ room \in 0 .. Concurrency
    /\ claimed \in BOOLEAN
    /\ active \in [Job -> Run \cup {NoRun}]
    /\ run \in [Run -> Runs]
    /\ leased \subseteq Job
    /\ registered \in BOOLEAN
    /\ heart \in {"off", "sleep", "register"}

WorkerInit ==
    /\ life = "new"
    /\ stop = FALSE
    /\ loop = "top"
    /\ room = 0
    /\ claimed = FALSE
    /\ active = [j \in Job |-> NoRun]
    /\ run = [r \in Run |-> NotRun]
    /\ leased = {}
    /\ registered = FALSE
    /\ heart = "off"

Busy    == {j \in Job : active[j] # NoRun}
Live(r) == run[r].at \in {"working", "releasing"}

--------------------------------------------------------------------------------
(* Start. *)

StartWorker ==
    /\ life = "new"
    /\ life' = "up"
    /\ registered' = TRUE
    /\ heart' = "sleep"
    /\ UNCHANGED <<stop, loop, room, claimed, active, run, leased>>

(* A failed start takes the registration back; that may fail as well. *)
StartFails ==
    /\ life = "new"
    /\ life' = "exited"
    /\ registered' \in BOOLEAN
    /\ UNCHANGED <<stop, loop, room, claimed, active, run, leased, heart>>

RequestStop ==
    /\ life = "up"
    /\ stop' = TRUE
    /\ UNCHANGED <<life, loop, room, claimed, active, run, leased, registered, heart>>

--------------------------------------------------------------------------------
(* The claim loop. *)

(* stop() cancels every execution that _active names: it goes on to its release.   *)
CancelAll(runs, named) ==
    [r \in Run |->
        IF r \in {named[j] : j \in Job} /\ runs[r].at = "working"
        THEN [runs[r] EXCEPT !.at = "releasing"]
        ELSE runs[r]]

EnterStop ==
    /\ loop' = "gather"
    /\ stop' = TRUE

(* Slots that no execution named by _active takes. *)
Room(named) == Concurrency - Cardinality({j \in Job : named[j] # NoRun})

(* _reap_finished forgets executions that ended; then the gate, or the claims. *)
Turn ==
    /\ life = "up" /\ loop = "top"
    /\ IF stop
       THEN /\ EnterStop
            /\ run' = CancelAll(run, active)
            /\ UNCHANGED <<active, room, claimed>>
       ELSE LET left == [j \in Job |-> IF active[j] # NoRun /\ Live(active[j])
                                       THEN active[j] ELSE NoRun]
            IN /\ active' = left
               /\ IF LlmRequired THEN loop' = "gate" /\ UNCHANGED room
                                 ELSE loop' = "claim" /\ room' = Room(left)
               /\ UNCHANGED <<stop, run, claimed>>
    /\ UNCHANGED <<life, leased, registered, heart>>

(* LlmGate says what the answer is. *)
PassGate(ready) ==
    /\ loop = "gate"
    /\ IF ready THEN loop' = "claim" /\ room' = Room(active)
                ELSE loop' = "idle" /\ UNCHANGED room
    /\ UNCHANGED <<life, stop, claimed, active, run, leased, registered, heart>>

(* A claim takes a free collection, or one whose lease expired, its own included: *)
(* the execution it had is then named by nothing.  The task takes its first step  *)
(* while the loop waits for the next statement; the last claim of a round after   *)
(* which the loop stops is cancelled before it, so its finally, which releases    *)
(* the leased, is never entered.                                                   *)
ClaimOne(j, r) ==
    LET last == room = 1
        new  == IF last /\ stop THEN NotRun
                ELSE [job |-> j, at |-> "working", replaced |-> FALSE]
        old  == active[j]
        runs == [q \in Run |-> IF q = r THEN new
                               ELSE IF q = old /\ Live(q) THEN [run[q] EXCEPT !.replaced = TRUE]
                               ELSE run[q]]
        named == [active EXCEPT ![j] = r]
    IN /\ loop = "claim" /\ room > 0
       /\ j \notin leased
       /\ ~Live(r) /\ \A q \in Job : active[q] # r
       /\ leased' = leased \cup {j}
       /\ active' = named
       /\ claimed' = ~last
       /\ room' = room - 1
       /\ IF last /\ stop
          THEN EnterStop /\ run' = CancelAll(runs, named)
          ELSE /\ run' = runs
               /\ loop' = IF last THEN "top" ELSE "claim"
               /\ UNCHANGED stop
       /\ UNCHANGED <<life, registered, heart>>

(* Nothing is offered, or no slot was free. *)
ClaimNone ==
    /\ loop = "claim"
    /\ loop' = IF claimed THEN "top" ELSE "idle"
    /\ room' = 0 /\ claimed' = FALSE
    /\ UNCHANGED <<life, stop, active, run, leased, registered, heart>>

(* A storage error leaves run(), whose finally stops the worker. *)
ClaimFails ==
    /\ loop = "claim" /\ room > 0
    /\ EnterStop
    /\ run' = CancelAll(run, active)
    /\ room' = 0 /\ claimed' = FALSE
    /\ UNCHANGED <<life, active, leased, registered, heart>>

IdleEnds ==
    /\ loop = "idle"
    /\ loop' = "top"
    /\ UNCHANGED <<life, stop, room, claimed, active, run, leased, registered, heart>>

ClaimLoop ==
    \/ Turn \/ ClaimNone \/ ClaimFails \/ IdleEnds
    \/ \E ready \in BOOLEAN : PassGate(ready)
    \/ \E j \in Job, r \in Run : ClaimOne(j, r)

--------------------------------------------------------------------------------
(* Executions: _execute_claim waits for the work or for the lease heartbeat. *)

(* The work ends, or is cancelled because the lease was lost, a renewal failed    *)
(* or the heartbeat saw the stop event.                                           *)
WorkEnds(r) ==
    /\ run[r].at = "working"
    /\ run' = [run EXCEPT ![r].at = "releasing"]
    /\ UNCHANGED <<life, stop, loop, room, claimed, active, leased, registered, heart>>

(* The DELETE names worker and collection; it may fail, which is suppressed.      *)
Release(r, deleted) ==
    /\ run[r].at = "releasing"
    /\ life # "exited"
    /\ deleted => life = "up"
    /\ run' = [run EXCEPT ![r] = NotRun]
    /\ leased' = IF deleted THEN leased \ {run[r].job} ELSE leased
    /\ UNCHANGED <<life, stop, loop, room, claimed, active, registered, heart>>

(* The lease expires under the worker; it, or another worker, may take it again.   *)
LeaseExpires(j) ==
    /\ j \in leased
    /\ leased' = leased \ {j}
    /\ UNCHANGED <<life, stop, loop, room, claimed, active, run, registered, heart>>

--------------------------------------------------------------------------------
(* Registration. *)

(* Retention of any worker deletes the row of one that was silent for too long.   *)
RetentionDeletes ==
    /\ registered /\ life = "up"
    /\ registered' = FALSE
    /\ UNCHANGED <<life, stop, loop, room, claimed, active, run, leased, heart>>

\* Mutant: the answer of the heartbeat is not looked at.
BeatBlindly ==
    /\ heart = "sleep" /\ life = "up"
    /\ heart' = IF stop THEN "off" ELSE "sleep"
    /\ UNCHANGED <<life, stop, loop, room, claimed, active, run, leased, registered>>

Beat ==
    /\ heart = "sleep" /\ life = "up"
    /\ heart' = IF stop THEN "off" ELSE IF registered THEN "sleep" ELSE "register"
    /\ UNCHANGED <<life, stop, loop, room, claimed, active, run, leased, registered>>

RegisterAgain ==
    /\ heart = "register"
    /\ registered' = TRUE
    /\ heart' = "sleep"
    /\ UNCHANGED <<life, stop, loop, room, claimed, active, run, leased>>

(* An error is logged and the heart goes on beating. *)
RegisterFails ==
    /\ heart = "register"
    /\ heart' = "sleep"
    /\ UNCHANGED <<life, stop, loop, room, claimed, active, run, leased, registered>>

--------------------------------------------------------------------------------
(* Stop: wait for the executions, end the heartbeats, unregister, shut down.      *)

\* Mutant: nobody is waited for.
GatheredAtOnce == TRUE

Gathered == \A j \in Busy : ~Live(active[j])

StopEnds ==
    /\ life = "up" /\ loop = "gather" /\ Gathered
    /\ active' = [j \in Job |-> NoRun]
    /\ heart' = "off"
    /\ registered' \in {FALSE, registered \/ heart = "register"}
    /\ life' = "stopped"
    /\ loop' = "end"
    /\ UNCHANGED <<stop, room, claimed, run, leased>>

(* asyncio.run cancels what is left; the pool is closed, so nothing is released.  *)
Exit ==
    /\ life = "stopped"
    /\ life' = "exited"
    /\ run' = [r \in Run |-> NotRun]
    /\ UNCHANGED <<stop, loop, room, claimed, active, leased, registered, heart>>

WorkerNext ==
    \/ StartWorker \/ StartFails \/ RequestStop \/ ClaimLoop
    \/ \E r \in Run : WorkEnds(r) \/ \E deleted \in BOOLEAN : Release(r, deleted)
    \/ \E j \in Job : LeaseExpires(j)
    \/ RetentionDeletes \/ Beat \/ RegisterAgain \/ RegisterFails
    \/ StopEnds \/ Exit

--------------------------------------------------------------------------------
(* Every execution that goes on is named by _active, unless a later claim of its    *)
(* own collection took its place, and runs in a worker that is up: stop() waits for *)
(* all of them and leaves none behind, whatever the claim loop did when the signal  *)
(* came.  Executions that are not replaced never exceed the concurrency.            *)
Unreplaced(r) == Live(r) /\ ~run[r].replaced
ActiveCoversRuns ==
    /\ \A r \in Run : Unreplaced(r) => life = "up" /\ active[run[r].job] = r
    /\ Cardinality({r \in Run : Unreplaced(r)}) <= Concurrency

(* A worker that is asked to stop exits, whatever its executions do; one that was   *)
(* forgotten by the database registers again as long as it is not to stop.          *)
WorkerRecovers ==
    /\ stop ~> life = "exited"
    /\ (life = "up" /\ ~registered) ~> (registered \/ stop)
================================================================================
