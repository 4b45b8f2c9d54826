---------------------------- MODULE MCCollectionRun ----------------------------
(***************************************************************************)
(* Instances of CollectionRun for TLC: three pages on one host and one on  *)
(* another, reached from each other and from discovery.                    *)
(***************************************************************************)
EXTENDS CollectionRun, TLC

CONSTANTS a1, a2, a3, b1, hostA, hostB

MCHostOf == a1 :> hostA @@ a2 :> hostA @@ a3 :> hostA @@ b1 :> hostB

\* The first page discloses the others, the last one links back to the first.
MCChildren == a1 :> {a2, b1} @@ a2 :> {a3} @@ a3 :> {} @@ b1 :> {a1}
================================================================================
