-------------------------- MODULE CollectionLifecycle --------------------------
(***************************************************************************)
(* What the server promises about one collection, without workers, leases, *)
(* retries or restarts: it is started once, every source task is published *)
(* or given up at most once, publication and progress are one step, and a  *)
(* closed collection stays closed unless a cancellation that was already   *)
(* under way lands on it.                                                  *)
(***************************************************************************)
CONSTANTS Collection, Task

VARIABLES
    status,     \* what GET /v1/collections/{id} reports
    published,  \* tasks the checkpoint counts as successfully visited
    failed,     \* tasks the checkpoint counts as failed
    facts       \* tasks whose observations and evidence are stored

vars == <<status, published, failed, facts>>

Init ==
    /\ status = [c \in Collection |-> "queued"]
    /\ published = [c \in Collection |-> {}]
    /\ failed = [c \in Collection |-> {}]
    /\ facts = [c \in Collection |-> {}]

Start(c) ==
    /\ status[c] = "queued"
    /\ status' = [status EXCEPT ![c] = "running"]
    /\ UNCHANGED <<published, failed, facts>>

Publish(c, t) ==
    /\ status[c] = "running"
    /\ t \notin published[c] \cup failed[c] \cup facts[c]
    /\ published' = [published EXCEPT ![c] = @ \cup {t}]
    /\ facts' = [facts EXCEPT ![c] = @ \cup {t}]
    /\ UNCHANGED <<status, failed>>

GiveUp(c, t) ==
    /\ status[c] = "running"
    /\ t \notin published[c] \cup failed[c]
    /\ failed' = [failed EXCEPT ![c] = @ \cup {t}]
    /\ UNCHANGED <<status, published, facts>>

Close(c) ==
    /\ status[c] = "running"
    /\ status' = [status EXCEPT ![c] = "done"]
    /\ UNCHANGED <<published, failed, facts>>

\* The body that comes with a cancellation was read earlier: the progress made
\* since may be lost from the checkpoint, facts are not.
Cancel(c) ==
    /\ status' = [status EXCEPT ![c] = "cancelled"]
    /\ \E P \in SUBSET published[c], F \in SUBSET failed[c] :
          /\ published' = [published EXCEPT ![c] = P]
          /\ failed' = [failed EXCEPT ![c] = F]
    /\ UNCHANGED facts

Next == \E c \in Collection :
            \/ Start(c) \/ Close(c) \/ Cancel(c)
            \/ \E t \in Task : Publish(c, t) \/ GiveUp(c, t)

Spec == Init /\ [][Next]_vars
===============================================================================
