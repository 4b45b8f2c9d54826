----------------------------- MODULE MCSerialLanes -----------------------------
(* Two source families and one map; the first family may find three tasks, one  *)
(* of which is queued already, and its first result discloses a fourth.         *)
EXTENDS SerialLanes

CONSTANTS s, d, a1, a2, a3, b, m

FoundMC    == <<{a1, a2}, {b}, {m, a1}>>
BaseMC     == <<2, 2, 3>>
ChildrenMC == [t \in LaneTask |-> IF t = a1 THEN {a2, a3} ELSE IF t = b THEN {d} ELSE {}]
=============================================================================
