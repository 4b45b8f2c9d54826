-------------------------------- MODULE MCService --------------------------------
(* The safety of the service as a whole: what is admitted and how long it is kept     *)
(* (Admission), and what becomes of it (MCSources).  They share no state: a behaviour  *)
(* runs one of them, so the state spaces add up.                                      *)
EXTENDS MCSources, Admission, TLC

CONSTANTS k1, k2, b1, b2, p, q

VARIABLE side

\* Two consumers with a key each, one of which is also used for a different request.
MCConsumerOf == k1 :> p @@ k2 :> q
MCAsked      == {<<k1, b1>>, <<k1, b2>>, <<k2, b1>>}

\* Sound: requests are told apart by nothing, and no property here is about liveness.
Symmetry == Permutations(Request)

sourceVars  == <<part, fetchVars, humanVars, discoveryVars, listingVars, recipeVars, crawlVars,
                 extractionVars, researchVars, timelineVars>>
serviceVars == <<side, admissionVars, sourceVars>>

\* "human" is a part with one initial state.
ServiceInit ==
    /\ AdmissionInit /\ Init
    /\ side \in IF part = "human" THEN {"admission", "sources"} ELSE {"sources"}

ServiceNext ==
    \/ side = "admission" /\ AdmissionNext /\ UNCHANGED <<side, sourceVars>>
    \/ side = "sources" /\ Next /\ UNCHANGED <<side, admissionVars>>

ServiceSpec == ServiceInit /\ [][ServiceNext]_serviceVars
==================================================================================
