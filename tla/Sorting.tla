-------------------------------- MODULE Sorting --------------------------------
(* What sorted() of Python and ORDER BY of the stores make of a set: the list of its  *)
(* members in the order of a relation.                                              *)
EXTENDS Integers, FiniteSets, Sequences

Earlier(S, before, x) == {y \in S : <<y, x>> \in before}

(* The i-th of the list is the member with i - 1 members before it.                 *)
InOrder(S, before) ==
    [i \in 1 .. Cardinality(S) |-> CHOOSE x \in S : Cardinality(Earlier(S, before, x)) = i - 1]

Ascending(S) == InOrder(S, {p \in S \X S : p[1] < p[2]})

(* What a list says at some of its places, in its order.                            *)
Those(s, places) == LET at == Ascending(places) IN [k \in DOMAIN at |-> s[at[k]]]
================================================================================
