---------------------------- MODULE QueueLifecycle ----------------------------
(***************************************************************************)
(* What the server mode promises about a collection.                       *)
(*                                                                         *)
(* While at most one execution writes a collection, its life is the one of *)
(* CollectionLifecycle.  The lease does not always keep a second one away; *)
(* the collections on which it failed are in overlapped, and from then on  *)
(* a checkpoint may go back, a task may be done again and a closed         *)
(* collection may run again.  What is left is what Disturb keeps: stored   *)
(* facts stay, a checkpoint counts nothing without facts, and a            *)
(* cancellation is final.                                                  *)
(***************************************************************************)
EXTENDS CollectionLifecycle

VARIABLE overlapped     \* collections two executions worked on at a time

queueVars == <<status, published, failed, facts, overlapped>>

Elsewhere(c) == \A d \in Collection \ {c} :
                    /\ status'[d] = status[d] /\ facts'[d] = facts[d]
                    /\ published'[d] = published[d] /\ failed'[d] = failed[d]

Disturb(c) ==
    /\ overlapped' = overlapped \cup {c}
    /\ facts[c] \subseteq facts'[c]
    /\ published'[c] \subseteq facts'[c]
    /\ status[c] = "cancelled" => status'[c] = "cancelled" /\ facts'[c] = facts[c]
    /\ Elsewhere(c)

QueueInit == Init /\ overlapped = {}

QueueNext == \/ Next /\ UNCHANGED overlapped
             \/ \E c \in Collection : Disturb(c)

QueueSpec == QueueInit /\ [][QueueNext]_queueVars
===============================================================================
