----------------------------- MODULE MCLeaseQueue -----------------------------
(* Instances of LeaseQueue for TLC. *)
EXTENDS LeaseQueue

CONSTANT Wide   \* the workers that run two collections at a time

MCConcurrency == [w \in Worker |-> IF w \in Wide THEN 2 ELSE 1]
===============================================================================
