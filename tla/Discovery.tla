-------------------------------- MODULE Discovery --------------------------------
(* The discovery phase of a plan (orchestrator/service.py,                          *)
(* _discover_uncovered_intents) over all attempts at a collection, and the call of   *)
(* DiscoveryService.discover (research/discovery.py) inside of it: batches of        *)
(* queries, each given to one provider after the other until one has destinations.   *)
EXTENDS Integers, FiniteSets

CONSTANTS
    Intents,        \* number of uncovered intents, worked off in order
    Direct,         \* those the planner answers with tasks and no queries
    Planned,        \* queries the planner has for an intent
    MaxBudget,      \* bound of max_queries
    LaneQueries,    \* queries of a mandatory lane, which has no such budget
    Providers,      \* number of providers, in order of preference
    MaxPages,       \* constraints.max_pages: tasks one call may return
    MaxHits,        \* bound: destinations one answer has
    MaxLosses       \* bound: attempts that end early

Intent   == 1 .. Intents
Provider == 1 .. Providers

ASSUME DiscoveryAssumption ==
    /\ Intents \in Nat /\ Providers \in Nat
    /\ Direct \subseteq Intent
    /\ Planned \in [Intent -> Nat]
    /\ MaxBudget \in Nat \ {0} /\ LaneQueries \in Nat /\ MaxPages \in Nat \ {0}
    /\ MaxHits \in Nat /\ MaxLosses \in Nat

VARIABLES
    maxQueries,     \* of the whole phase and of one batch; it never changes
    plan,           \* the stored checkpoint: queries asked, intents done, blocked, tasks, closed
    draft,          \* the copy of the attempt
    at,             \* where the attempt is: what follows, and for which intent
    budget,         \* remaining_queries of the attempt
    ask,            \* the call of discover under way
    spent,          \* queries given to providers for intents, ever
    losses

discoveryVars == <<maxQueries, plan, draft, at, budget, ask, spent, losses>>

Verdict == {"open", "planned", "blocked", "no sources"}
Plans   == [queries : Nat, done : SUBSET Intent, blocked : BOOLEAN, tasks : Nat,
            exhausted : BOOLEAN, verdict : Verdict]
NoPlan  == [queries |-> 0, done |-> {}, blocked |-> FALSE, tasks |-> 0,
            exhausted |-> FALSE, verdict |-> "open"]
NoAsk   == [asked |-> 0, left |-> 0, provider |-> 1, batch |-> 0, refused |-> {}, tasks |-> 0,
            several |-> FALSE]
Asks    == [asked : Nat, left : Nat, provider : 1 .. Providers + 1, batch : 0 .. maxQueries,
            refused : SUBSET Provider, tasks : 0 .. MaxPages, several : BOOLEAN]

DiscoveryTypeOK ==
    /\ maxQueries \in 1 .. MaxBudget
    /\ plan \in Plans /\ draft \in Plans
    /\ at \in [step : {"idle", "intents", "discover", "merge", "close", "ended"}, intent : Intent \cup {0}]
    /\ budget \in 0 .. maxQueries
    /\ ask \in Asks /\ ask.left <= ask.asked
    /\ spent \in Nat
    /\ losses \in 0 .. MaxLosses

DiscoveryInit ==
    /\ maxQueries \in 1 .. MaxBudget
    /\ plan = NoPlan /\ draft = NoPlan
    /\ at = [step |-> "idle", intent |-> 0]
    /\ budget = 0
    /\ ask = NoAsk
    /\ spent = 0
    /\ losses = 0

Smaller(m, n) == IF m < n THEN m ELSE n
Larger(m, n)  == IF m > n THEN m ELSE n
Step(s)       == at' = [at EXCEPT !.step = s]

--------------------------------------------------------------------------------
(* The loop over the intents. *)

\* Mutant: every attempt has the whole query budget.
BeginDiscoveryAfresh ==
    /\ at.step = "idle" /\ plan.verdict = "open"
    /\ draft' = plan
    /\ budget' = maxQueries
    /\ Step("intents")
    /\ UNCHANGED <<plan, ask, spent, losses>>

BeginDiscovery ==
    /\ at.step = "idle" /\ plan.verdict = "open"
    /\ draft' = plan
    /\ budget' = Larger(0, maxQueries - plan.queries)
    /\ Step("intents")
    /\ UNCHANGED <<plan, ask, spent, losses>>

Remaining == Intent \ draft.done
Current   == CHOOSE i \in Remaining : \A j \in Remaining : i <= j

(* _checkpoint_discovery_progress *)
StoreProgress(p) == plan' = p /\ draft' = p

BudgetExhausted ==
    /\ at.step = "intents" /\ Remaining # {} /\ budget = 0
    /\ StoreProgress([draft EXCEPT !.exhausted = TRUE])
    /\ Step("close")
    /\ UNCHANGED <<budget, ask, spent, losses>>

(* Tasks of the planner itself, or no query for the intent: nothing is asked.      *)
NothingToAsk ==
    /\ at.step = "intents" /\ Remaining # {} /\ budget > 0
    /\ Current \in Direct \/ Planned[Current] = 0
    /\ StoreProgress([draft EXCEPT !.done = @ \cup {Current},
                                   !.tasks = IF Current \in Direct THEN @ + 1 ELSE @])
    /\ UNCHANGED <<at, budget, ask, spent, losses>>

\* Mutant: an intent may ask as much as the whole phase.
AllocationOfAll == maxQueries

(* The budget left is shared by the intents left, one query each at least.         *)
Allocation == Larger(1, budget \div Cardinality(Remaining))

AskIntent ==
    LET n == Smaller(Planned[Current], Allocation)
    IN /\ at.step = "intents" /\ Remaining # {} /\ budget > 0
       /\ Current \notin Direct /\ Planned[Current] > 0
       /\ budget' = budget - n
       /\ at' = [step |-> "discover", intent |-> Current]
       /\ ask' = [NoAsk EXCEPT !.asked = n, !.left = n, !.several = n > maxQueries]
       /\ UNCHANGED <<plan, draft, spent, losses>>

AllAsked ==
    /\ at.step = "intents" /\ Remaining = {}
    /\ Step("close")
    /\ UNCHANGED <<plan, draft, budget, ask, spent, losses>>

--------------------------------------------------------------------------------
(* discover(): one batch after the other, and for each of them the providers in    *)
(* their order, but none that refused an earlier batch of this call.               *)

NextBatch ==
    /\ at.step = "discover" /\ ask.batch = 0 /\ ask.left > 0
    /\ ask' = [ask EXCEPT !.batch = Smaller(ask.left, maxQueries), !.provider = 1,
                          !.left = @ - Smaller(@, maxQueries)]
    /\ spent' = IF at.intent # 0 THEN spent + ask'.batch ELSE spent
    /\ UNCHANGED <<plan, draft, at, budget, losses>>

PassProvider ==
    /\ at.step = "discover" /\ ask.batch > 0
    /\ ask.provider \in ask.refused
    /\ ask' = [ask EXCEPT !.provider = @ + 1]
    /\ UNCHANGED <<plan, draft, at, budget, spent, losses>>

Asking == at.step = "discover" /\ ask.batch > 0 /\ ask.provider \in Provider \ ask.refused

ProviderBlocked ==
    /\ Asking
    /\ ask' = [ask EXCEPT !.refused = @ \cup {ask.provider}, !.provider = @ + 1]
    /\ draft' = [draft EXCEPT !.blocked = TRUE]
    /\ UNCHANGED <<plan, at, budget, spent, losses>>

(* An error, or no destination that is allowed and new. *)
ProviderEmpty ==
    /\ Asking
    /\ ask' = [ask EXCEPT !.provider = @ + 1]
    /\ UNCHANGED <<plan, draft, at, budget, spent, losses>>

(* The first provider with destinations owns the batch.  With several batches one   *)
(* batch gives no more of them than it has queries; a destination may bring its      *)
(* archive along (historical_archive_source_id), which takes a place of its own.     *)
ProviderAnswers(hits, archives) ==
    LET room  == MaxPages - ask.tasks
        limit == IF ask.several THEN Smaller(ask.batch, room) ELSE room
        pages == Smaller(hits, limit)
    IN /\ Asking /\ hits > 0
       /\ ask' = [ask EXCEPT !.batch = 0,
                    !.tasks = IF archives THEN Smaller(@ + 2 * pages, MaxPages) ELSE @ + pages]
       /\ UNCHANGED <<plan, draft, at, budget, spent, losses>>

BatchEnds ==
    /\ at.step = "discover" /\ ask.batch > 0 /\ ask.provider > Providers
    /\ ask' = [ask EXCEPT !.batch = 0]
    /\ UNCHANGED <<plan, draft, at, budget, spent, losses>>

DiscoverEnds ==
    /\ at.step = "discover" /\ ask.batch = 0 /\ ask.left = 0
    /\ Step(IF at.intent = 0 THEN "ended" ELSE "merge")
    /\ UNCHANGED <<plan, draft, budget, ask, spent, losses>>

(* The queries count for every intent asked, whatever its providers said. *)
MergeOutcome ==
    /\ at.step = "merge"
    /\ StoreProgress([draft EXCEPT !.queries = @ + ask.asked, !.done = @ \cup {at.intent},
                                   !.tasks = @ + ask.tasks])
    /\ ask' = NoAsk
    /\ Step("intents")
    /\ UNCHANGED <<budget, spent, losses>>

--------------------------------------------------------------------------------
(* The plan is stored, or the collection is closed for want of tasks. *)
ClosePlan ==
    /\ at.step = "close"
    /\ plan' = [draft EXCEPT !.verdict = IF draft.tasks > 0 THEN "planned"
                                         ELSE IF draft.blocked THEN "blocked" ELSE "no sources"]
    /\ draft' = plan'
    /\ at' = [step |-> "idle", intent |-> 0]
    /\ UNCHANGED <<budget, ask, spent, losses>>

(* A mandatory lane calls discover with queries of its own (toolpack_aware.py).     *)
AskForLane ==
    /\ at.step = "idle" /\ plan.verdict = "planned"
    /\ at' = [step |-> "discover", intent |-> 0]
    /\ ask' = [NoAsk EXCEPT !.asked = LaneQueries, !.left = LaneQueries,
                            !.several = LaneQueries > maxQueries]
    /\ UNCHANGED <<plan, draft, budget, spent, losses>>

(* The attempt ends; the next one starts from the checkpoint. *)
LoseAttempt ==
    /\ at.step \notin {"idle", "ended"} /\ losses < MaxLosses
    /\ losses' = losses + 1
    /\ draft' = plan
    /\ at' = [step |-> "idle", intent |-> 0]
    /\ budget' = 0
    /\ ask' = NoAsk
    /\ UNCHANGED <<plan, spent>>

DiscoveryNext ==
    /\ \/ BeginDiscovery \/ BudgetExhausted \/ NothingToAsk \/ AskIntent \/ AllAsked
       \/ NextBatch \/ PassProvider \/ ProviderBlocked \/ ProviderEmpty
       \/ \E hits \in 1 .. MaxHits, archives \in BOOLEAN : ProviderAnswers(hits, archives)
       \/ BatchEnds \/ DiscoverEnds \/ MergeOutcome \/ ClosePlan \/ AskForLane \/ LoseAttempt
    /\ UNCHANGED maxQueries

--------------------------------------------------------------------------------
(* The query budget spans the attempts: the stored queries never exceed it, what an *)
(* attempt lost is all that providers were asked beyond it, and no intent is given  *)
(* up for want of budget when there was a query for each of them (service.py, the   *)
(* allocation of _discover_uncovered_intents).  A call never returns more tasks     *)
(* than the page limit, whatever its batches brought (research/discovery.py).       *)
QueryBudgetSpansAttempts ==
    /\ plan.queries <= maxQueries
    /\ spent <= plan.queries + ask.asked + maxQueries * losses
    /\ plan.exhausted => maxQueries < Intents
    /\ ask.tasks <= MaxPages
================================================================================
