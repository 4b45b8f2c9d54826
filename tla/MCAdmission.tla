----------------------------- MODULE MCAdmission -----------------------------
(***************************************************************************)
(* An instance of Admission for TLC: two consumers with a key each, one of  *)
(* which is also used for a different request.                             *)
(***************************************************************************)
EXTENDS Admission, TLC

CONSTANTS k1, k2, b1, b2, p, q

MCConsumerOf == k1 :> p @@ k2 :> q

MCAsked == {<<k1, b1>>, <<k1, b2>>, <<k2, b1>>}

Symmetry == Permutations(Request)
==============================================================================
