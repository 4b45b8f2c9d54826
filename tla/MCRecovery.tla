------------------------------- MODULE MCRecovery -------------------------------
(* What must survive workers that die: the leases of the queue (LeaseQueue), and the   *)
(* serial lanes of a collection whose attempts end anywhere (SerialLanes).  They share  *)
(* no state: a behaviour runs one of them, so the state spaces add up.                 *)
EXTENDS MCLeaseQueue, MCSerialLanes

VARIABLE side

recoveryVars == <<side, vars, lanesVars>>

RecoveryInit ==
    /\ side \in {"leases", "lanes"}
    /\ Init
    /\ LanesInit /\ (side = "leases" => row = NewLaneRecord({}))

Leases(A)    == side = "leases" /\ A /\ UNCHANGED <<side, lanesVars>>
LaneSteps(A) == side = "lanes" /\ A /\ UNCHANGED <<side, vars>>

RecoveryNext == Leases(Next) \/ LaneSteps(LanesNext)

\* The fairness of each module, as far as its machine runs.
RecoveryFairness ==
    /\ \A x \in Slot : WF_recoveryVars(Leases(Execute(x) \/ Release(x) \/ HeartbeatLost(x)))
    /\ \A c \in Collection : /\ WF_recoveryVars(Leases(\E x \in Slot : Claim(x, c)))
                             /\ WF_recoveryVars(Leases(Expire(c)))
    /\ WF_recoveryVars(LaneSteps(Step))

RecoverySpec == RecoveryInit /\ [][RecoveryNext]_recoveryVars /\ RecoveryFairness

(* Every collection is closed in the end, however many of its workers die                  *)
(* (worker.py, storage/postgres.py): EventuallyClosed says in which case it is not.         *)
QueueCloses == side = "leases" => EventuallyClosed

(* No lease outlives the work, however many workers die (worker.py, storage/postgres.py).    *)
QueueDrains == side = "leases" => LeasesDrain

(* The mandatory lanes of a collection come to an end, however many of its attempts end     *)
(* early (orchestrator/mandatory_coverage.py).                                            *)
LanesEnd == side = "lanes" => MandatoryEnds
=================================================================================
