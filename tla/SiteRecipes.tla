------------------------------ MODULE SiteRecipes ------------------------------
(* Browser recipes of one site and goal (recipes/service.py) as the page tasks of   *)
(* several collections use them (sources/recipe_web.py): replay the stored one, let  *)
(* an agent propose another, and judge both by the evidence of the page.  Every      *)
(* statement of the store is an action; between a read and the write that follows    *)
(* from it a browser works, or another task does.                                    *)
EXTENDS Integers, FiniteSets

CONSTANTS
    PageTask,       \* page tasks of this site and goal
    FillValue,      \* what a recipe may type into a form
    AllowedOf,      \* research_input_candidates of a task
    Threshold,      \* failure_threshold
    KeepVersions,   \* keep_versions
    MaxSteps,       \* max_agent_recipe_steps, in units of what an agent adds at once
    MaxRounds,      \* rounds of the agent for one task: one at the fetch, one on its page
    NoRecipe        \* a null recipe

(* fills: the values of its fill steps; failures: in a row. *)
AnyRecipe == [id : Nat, version : Nat, fills : SUBSET FillValue, steps : Nat, failures : Nat,
              status : {"active", "invalidated"}]

ASSUME RecipeAssumption ==
    /\ NoRecipe \notin AnyRecipe
    /\ IsFiniteSet(PageTask)
    /\ AllowedOf \in [PageTask -> SUBSET FillValue]
    /\ Threshold \in Nat \ {0} /\ KeepVersions \in Nat \ {0} /\ MaxSteps \in Nat \ {0}
    /\ MaxRounds \in 1 .. 2

VARIABLES
    recipes,        \* table site_recipes: a row for every version that is stored
    minted,         \* recipe ids given out
    proved,         \* ids of recipes whose page gave evidence of the goal
    visit           \* the page tasks

recipeVars == <<recipes, minted, proved, visit>>

Ids      == 0 .. 2 * Cardinality(PageTask)
Versions == 1 .. Cardinality(PageTask) + 1

Recipes == {r \in AnyRecipe : /\ r.id \in Ids /\ r.version \in Versions
                             /\ r.steps \in 1 .. MaxSteps /\ r.failures \in 0 .. Threshold}

(* held: the copy of a stored recipe a task works with; then: what follows once it is *)
(* stored; draft: what the agent proposes; page: what was fetched, by its recipe (a     *)
(* blocked page is one that gives no support); replayed: active_recipe_replay_id;      *)
(* pending: the candidate that waits for its judgement, the last one; asked: rounds of  *)
(* the agent; backed: the recipes whose pages gave evidence of the goal.               *)
NoPage == -1
Plain  == -2
Phases == {"start", "replay", "plain", "agent", "number", "verify", "page", "judge active",
           "judge drafts", "over"}
Visits == [at : Phases \cup {"save", "prune"}, then : Phases, held : Recipes \cup {NoRecipe},
           page : Ids \cup {NoPage, Plain}, replayed : Ids \cup {NoPage},
           draft : Recipes \cup {NoRecipe}, pending : Recipes \cup {NoRecipe}, asked : 0 .. MaxRounds,
           backed : SUBSET Ids]
Visit(phase) == [at |-> phase, then |-> "over", held |-> NoRecipe, page |-> NoPage, replayed |-> NoPage,
                 draft |-> NoRecipe, pending |-> NoRecipe, asked |-> 0, backed |-> {}]

RecipesTypeOK ==
    /\ recipes \in [Versions -> Recipes \cup {NoRecipe}]
    /\ minted \in Ids
    /\ proved \subseteq Ids
    /\ visit \in [PageTask -> Visits]

(* Nothing is stored, or what an earlier collection has proved. *)
RecipesInit ==
    /\ \E first \in {NoRecipe} \cup [id : {0}, version : {1}, fills : {{}} \cup {{f} : f \in FillValue}, steps : {1},
                                     failures : {0}, status : {"active"}] :
         recipes = [v \in Versions |-> IF v = 1 THEN first ELSE NoRecipe]
    /\ minted = 0
    /\ proved = {0}
    /\ visit = [t \in PageTask |-> Visit("start")]

StoredVersions == {v \in Versions : recipes[v] # NoRecipe}
Newest == CHOOSE v \in StoredVersions : \A w \in StoredVersions : w <= v
Latest == IF StoredVersions = {} THEN NoRecipe ELSE recipes[Newest]

Go(t, new)     == visit' = [visit EXCEPT ![t] = new]
At(t, phase)   == visit[t].at = phase
Moved(t, to)   == IF to = "over" THEN Visit("over") ELSE [visit[t] EXCEPT !.at = to]

--------------------------------------------------------------------------------
(* recipes/service.py: what is done to a copy, and its way into the store. *)

Storing(t, copy, next) == [visit[t] EXCEPT !.at = "save", !.held = copy, !.then = next]

Invalidated(r) == [r EXCEPT !.status = "invalidated"]
Succeeded(r)   == [r EXCEPT !.failures = 0]
Failed(r)      ==
    IF r.status = "invalidated" THEN r
    ELSE [r EXCEPT !.failures = @ + 1,
                   !.status = IF r.failures + 1 >= Threshold THEN "invalidated" ELSE @]

(* get(): the newest version, if it is active; one that has expired is invalidated    *)
(* first.  What follows depends on the recipe that is left.                          *)
Got(expired) == IF Latest # NoRecipe /\ Latest.status = "active" /\ ~expired THEN Latest ELSE NoRecipe
MayExpire(expired) == expired => Latest # NoRecipe /\ Latest.status = "active"

\* save_recipe: a row of the same version is replaced, whatever its recipe is.
SaveRecipe(t) ==
    /\ At(t, "save")
    /\ recipes' = [recipes EXCEPT ![visit[t].held.version] = visit[t].held]
    /\ Go(t, Moved(t, "prune"))
    /\ UNCHANGED <<minted, proved>>

(* A save that the lease does not allow ends the task. *)
SaveFails(t) ==
    /\ At(t, "save")
    /\ Go(t, Moved(t, "over"))
    /\ UNCHANGED <<recipes, minted, proved>>

Kept == {v \in StoredVersions : Cardinality({w \in StoredVersions : w > v}) < KeepVersions}

Prune(t) ==
    /\ At(t, "prune")
    /\ recipes' = [v \in Versions |-> IF v \in Kept THEN recipes[v] ELSE NoRecipe]
    /\ Go(t, [Moved(t, visit[t].then) EXCEPT !.held = NoRecipe])
    /\ UNCHANGED <<minted, proved>>

--------------------------------------------------------------------------------
(* fetch() *)

Compatible(t, r) == r.fills \subseteq AllowedOf[t]

LookUp(t, expired) ==
    LET r == Got(expired)
    IN /\ At(t, "start") /\ MayExpire(expired)
       /\ Go(t, IF expired THEN Storing(t, Invalidated(Latest), "plain")
                ELSE IF r # NoRecipe /\ Compatible(t, r) THEN [Moved(t, "replay") EXCEPT !.held = r]
                ELSE Moved(t, "plain"))
       /\ UNCHANGED <<recipes, minted, proved>>

ReplayWorks(t) ==
    /\ At(t, "replay")
    /\ Go(t, [Moved(t, "page") EXCEPT !.page = visit[t].held.id, !.replayed = visit[t].held.id,
                                      !.held = NoRecipe])
    /\ UNCHANGED <<recipes, minted, proved>>

(* The failure is counted on the copy that was read before the browser worked. *)
ReplayFails(t) ==
    /\ At(t, "replay")
    /\ Go(t, Storing(t, Failed(visit[t].held), "plain"))
    /\ UNCHANGED <<recipes, minted, proved>>

(* The fast crawler or the browser has the page; or the page needs an agent.          *)
PlainPage(t) ==
    /\ At(t, "plain")
    /\ Go(t, [Moved(t, "page") EXCEPT !.page = Plain])
    /\ UNCHANGED <<recipes, minted, proved>>

PlainFails(t) ==
    /\ At(t, "plain")
    /\ Go(t, Moved(t, "over"))
    /\ UNCHANGED <<recipes, minted, proved>>

(* The agent proposes steps that fill in values of this task (it is given no others,   *)
(* crawler/agent/ollama_recipe.py): once when the fetch     *)
(* has failed or its page needs more than a browser, and once more when the source     *)
(* asks for it on the page it has (navigate_with_agent).                               *)
AskAgent(t, fills) ==
    /\ At(t, "plain") \/ At(t, "page")
    /\ visit[t].asked < MaxRounds
    /\ fills \subseteq AllowedOf[t] /\ Cardinality(fills) <= 1
    /\ Go(t, [Moved(t, "agent") EXCEPT
                !.asked = IF visit[t].page >= 0 THEN MaxRounds ELSE @ + 1,
                !.draft = [id |-> 0, version |-> 1, fills |-> fills, steps |-> 1,
                           failures |-> 0, status |-> "active"]])
    /\ UNCHANGED <<recipes, minted, proved>>

(* Without a candidate the task has the page it had, or none. *)
NoCandidate(t) == [Moved(t, IF visit[t].page = NoPage THEN "over" ELSE "page") EXCEPT !.draft = NoRecipe]

(* The agent is blocked, gives up, or names no actions but perhaps a page it has seen. *)
NoPath(t, found) ==
    /\ At(t, "agent")
    /\ Go(t, IF found THEN [Moved(t, "page") EXCEPT !.page = Plain, !.draft = NoRecipe]
             ELSE NoCandidate(t))
    /\ UNCHANGED <<recipes, minted, proved>>

\* Mutant: the steps extend whatever recipe is active.
ExtendsAny(t, base) == visit[t].page >= 0 /\ base # NoRecipe

(* Only the recipe that produced the page is extended by the new steps. *)
Extends(t, base) == visit[t].page >= 0 /\ base # NoRecipe /\ base.id = visit[t].page

Extend(t, expired) ==
    LET base  == Got(expired)
        draft == visit[t].draft
        steps == base.steps + draft.steps
    IN /\ At(t, "agent") /\ MayExpire(expired)
       /\ visit[t].page < 0 => ~expired
       /\ Go(t, IF expired THEN Storing(t, Invalidated(Latest), "number")
                ELSE IF ~Extends(t, base) THEN Moved(t, "number")
                ELSE IF steps > MaxSteps THEN NoCandidate(t)
                ELSE [Moved(t, "number") EXCEPT
                        !.draft = [draft EXCEPT !.fills = @ \cup base.fills, !.steps = steps]])
       /\ UNCHANGED <<recipes, minted, proved>>

(* candidate(): one version more than the newest, whatever its status. *)
NumberCandidate(t) ==
    /\ At(t, "number")
    /\ minted' = minted + 1
    /\ Go(t, [Moved(t, "verify") EXCEPT
                !.draft.id = minted', !.draft.version = IF StoredVersions = {} THEN 1 ELSE Newest + 1])
    /\ UNCHANGED <<recipes, proved>>

CandidateWorks(t) ==
    /\ At(t, "verify")
    /\ Go(t, [Moved(t, "page") EXCEPT !.page = visit[t].draft.id, !.draft = NoRecipe,
                                      !.pending = visit[t].draft])
    /\ UNCHANGED <<recipes, minted, proved>>

(* The replay fails, which leaves the task where it was, or meets a blocked page. *)
CandidateFails(t, blocked) ==
    /\ At(t, "verify")
    /\ Go(t, IF blocked THEN [Moved(t, "page") EXCEPT !.page = Plain, !.draft = NoRecipe]
             ELSE NoCandidate(t))
    /\ UNCHANGED <<recipes, minted, proved>>

(* The store of candidates that all tasks share is full and this one is the oldest. *)
ForgetCandidate(t) ==
    /\ At(t, "page") /\ visit[t].pending # NoRecipe
    /\ Go(t, [visit[t] EXCEPT !.pending = NoRecipe])
    /\ UNCHANGED <<recipes, minted, proved>>

--------------------------------------------------------------------------------
(* extract() and _finalize_recipe_goal_verification *)

Extracted(t, backed) ==
    /\ At(t, "page")
    /\ backed \subseteq {visit[t].replayed} \cup (IF visit[t].pending = NoRecipe THEN {} ELSE {visit[t].pending.id})
    /\ NoPage \notin backed
    /\ proved' = proved \cup backed
    /\ Go(t, [Moved(t, IF visit[t].replayed = NoPage THEN "judge drafts" ELSE "judge active")
              EXCEPT !.backed = backed])
    /\ UNCHANGED <<recipes, minted>>

JudgeActive(t, expired) ==
    LET r == Got(expired)
    IN /\ At(t, "judge active") /\ MayExpire(expired)
       /\ Go(t, IF expired THEN Storing(t, Invalidated(Latest), "judge drafts")
                ELSE IF r = NoRecipe THEN Moved(t, "judge drafts")
                ELSE IF r.id # visit[t].replayed THEN Moved(t, "judge drafts")
                ELSE Storing(t, IF r.id \in visit[t].backed THEN Succeeded(r) ELSE Failed(r), "judge drafts"))
       /\ UNCHANGED <<recipes, minted, proved>>

(* Only the last candidate can be stored, and only if its own page gave the evidence. *)
JudgeDrafts(t) ==
    LET draft == visit[t].pending
    IN /\ At(t, "judge drafts")
       /\ Go(t, IF draft # NoRecipe /\ draft.id \in visit[t].backed THEN Storing(t, draft, "over")
                ELSE Moved(t, "over"))
       /\ UNCHANGED <<recipes, minted, proved>>

RecipesNext ==
    \E t \in PageTask :
      \/ SaveRecipe(t) \/ SaveFails(t) \/ Prune(t)
      \/ \E e \in BOOLEAN : LookUp(t, e) \/ Extend(t, e) \/ JudgeActive(t, e)
      \/ \E b \in BOOLEAN : NoPath(t, b) \/ CandidateFails(t, b)
      \/ \E b \in SUBSET Ids : Extracted(t, b)
      \/ ReplayWorks(t) \/ ReplayFails(t) \/ PlainPage(t) \/ PlainFails(t)
      \/ NumberCandidate(t) \/ CandidateWorks(t) \/ JudgeDrafts(t) \/ ForgetCandidate(t)
      \/ \E f \in SUBSET FillValue : AskAgent(t, f)

--------------------------------------------------------------------------------
(* A value that one collection typed into a form is never typed for another one,    *)
(* although recipes are stored by site and goal and extended step by step; nothing is *)
(* stored but recipes whose own page gave evidence (recipe_web.py, replay scope and    *)
(* goal verification).                                                                *)
RecipesAreSound ==
    /\ \A t \in PageTask :
         /\ At(t, "replay") => visit[t].held.fills \subseteq AllowedOf[t]
         /\ At(t, "verify") => visit[t].draft.fills \subseteq AllowedOf[t]
    /\ \A v \in StoredVersions : recipes[v].id \in proved

(* The newest version is never taken back, whoever prunes or stores an older copy.    *)
NewestStays == [][StoredVersions # {} => StoredVersions' # {} /\ Newest' >= Newest]_recipeVars
=================================================================================
