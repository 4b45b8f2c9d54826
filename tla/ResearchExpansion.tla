--------------------------- MODULE ResearchExpansion ---------------------------
(* How a collection widens its own research.  After the page of a task is read, up to *)
(* five branches search for more pages (orchestrator/area_atomic.py, service.py,      *)
(* adaptive_atomic.py), the supervisor says which goals still lack sources and the     *)
(* queue is put in order again (evidence_status.py).  All of it happens on a working   *)
(* copy of the collection, that a timeout, an error or a crash may cut short            *)
(* (orchestrator/atomic.py).                                                           *)
EXTENDS Integers, Sequences, FiniteSets, SequencesExt, Sorting

CONSTANTS
    Goals,          \* number of requested intents
    ResearchUrl,    \* pages that searches and links may lead to
    GoalOf,         \* requested intent of a page, 0 for none
    OnMaps,         \* pages of public maps
    LeadsTo,        \* pages a page links to
    HostOf,         \* host of a page
    Refusal,        \* error codes of a source that is blocked
    BlockThreshold, \* source_block_threshold
    SeedTasks,      \* tasks of the plan
    AreaGoals, HistoryGoals, MapGoals,   \* intents a branch searches for
    Target,         \* target_sources_per_intent
    PageLimit,      \* max_pages
    BranchDepth,    \* max_depth
    RoundLimit,     \* rounds of a branch that counts rounds
    QueryLimit,     \* max_total_queries of the other branches
    PerSearch,      \* queries of one search
    Archives, Maps, \* sources that a curated branch knows
    Hint,           \* queries that a model may propose
    HitLimit,       \* pages one search finds
    Backpressure,   \* max_factual_pending_for_followup
    MaxEnds         \* bound: expansions, tasks and attempts that are cut short

ASSUME ResearchAssumption ==
    /\ Goals \in Nat \ {0} /\ IsFiniteSet(ResearchUrl) /\ ResearchUrl \subseteq Nat \ {0}
    /\ GoalOf \in [ResearchUrl -> 0 .. Goals] /\ OnMaps \subseteq ResearchUrl
    /\ LeadsTo \in [ResearchUrl -> SUBSET ResearchUrl]
    /\ DOMAIN HostOf = ResearchUrl
    /\ AreaGoals \cup HistoryGoals \cup MapGoals \subseteq 1 .. Goals
    /\ {Target, PageLimit, BranchDepth, RoundLimit, QueryLimit, PerSearch, HitLimit, Backpressure, BlockThreshold} \subseteq Nat
    /\ MaxEnds \in Nat

VARIABLES
    row,            \* the stored collection: queue, visited, facts, gaps, rounds, queries, cursor, blocks
    mem,            \* record, pending and visited of the loop
    work,           \* the working copy of the task at hand
    task,           \* the task at hand, with what its page gave
    step,           \* the step of the loop
    searches,       \* queries (or rounds of them) that were sent, ever
    ends,           \* expansions, tasks and attempts that were cut short
    ordered,        \* the queue is as _prioritize_pending left it
    waited          \* pages of the same tier that were read while a goal waited

researchVars == <<row, mem, work, task, step, searches, ends, ordered, waited>>

Goal     == 1 .. Goals
Branches == <<"area", "history", "archives", "maps", "followup">>
Branch   == {Branches[i] : i \in DOMAIN Branches}
Rounds   == {"archives", "maps", "followup"}
\* Inventory of the area, contour of a source, robots.txt and sitemaps with and without owner.
Entrances == {"inventory", "contour", "own", "support"}
ResearchTask == [url : ResearchUrl, branch : Branch \cup {"entry", "link"} \cup Entrances, level : Nat]
UrlsOf(queue) == {queue[i].url : i \in DOMAIN queue}

(* The source that reads a task; a breaker counts per source, host and error code.        *)
SourceOf(t) ==
    CASE t.branch \in {"own", "support"} -> "site_discovery"
      [] t.branch \in {"inventory", "contour"} -> t.branch
      [] OTHER -> "generic_web"
Circuits == {"site_discovery", "inventory", "contour", "generic_web"}
              \X {HostOf[u] : u \in ResearchUrl} \X Refusal
Circuit(t, refusal) == <<SourceOf(t), HostOf[t.url], refusal>>

(* A plan names every page once, and no task of a branch.                              *)
ASSUME PlansAreEntries ==
    \A seeds \in SeedTasks :
      /\ seeds \in Seq(ResearchTask)
      /\ \A i, j \in DOMAIN seeds : seeds[i].url = seeds[j].url => i = j
      /\ \A i \in DOMAIN seeds : seeds[i].branch \in {"entry"} \cup Entrances

ResearchCopy(r) ==
    /\ r.queue \in Seq(ResearchTask) /\ Len(r.queue) = Cardinality(UrlsOf(r.queue))
    /\ r.visited \subseteq ResearchUrl \ UrlsOf(r.queue)
    /\ r.facts \subseteq ResearchUrl /\ r.gaps \subseteq Goal /\ r.cursor \in Goal
    /\ \A b \in Rounds : r.rounds[b] \in 0 .. RoundLimit
    /\ \A b \in Branch \ Rounds : Cardinality(r.queries[b]) <= QueryLimit
    /\ r.blocks \in [Circuits -> Nat]

ResearchTypeOK ==
    /\ ResearchCopy(row) /\ ResearchCopy(mem)
    /\ step \in Branch \cup {"begin", "idle", "commit", "ended"}
    /\ ends \in 0 .. MaxEnds /\ ordered \in BOOLEAN

--------------------------------------------------------------------------------
(* _prioritize_pending *)

(* _pending_priority of toolpack_aware.py, evidence_status.py and adaptive_atomic.py:      *)
(* what comes before the branches, the branches, and the pages by depth.                  *)
RankAmongPages(t) ==
    CASE t.branch \in {"archives", "maps"} -> 0 [] t.branch = "followup" -> 1 [] t.branch = "area" -> 2
      [] t.branch = "own" -> -1 [] t.branch = "support" -> 10
      [] OTHER -> IF t.branch = "link" THEN 4 ELSE 3
RankOf(t) ==
    CASE t.branch = "inventory" -> -3 [] t.branch = "contour" -> -2
      [] OTHER -> IF t.url \in OnMaps THEN 0 ELSE RankAmongPages(t)
Tier(t) == <<RankOf(t), IF GoalOf[t.url] = 0 THEN 1 ELSE 0, IF t.branch = "link" THEN t.level ELSE 0>>

(* _interleave_priority_tiers: in a tier, the goals take turns from the cursor on; tasks *)
(* of no goal come last.  The last step prefers the goals that lack sources.             *)
PlaceOf(t, r) ==
    LET goal == GoalOf[t.url]
        lane == {u \in ToSet(r.queue) : Tier(u) = Tier(t) /\ GoalOf[u.url] = goal /\ u.url < t.url}
    IN <<IF r.gaps # {} /\ goal \notin r.gaps THEN 1 ELSE 0, Tier(t)[1], Tier(t)[2], Tier(t)[3],
         IF goal = 0 THEN Cardinality(ResearchUrl) ELSE Cardinality(lane),
         IF goal = 0 THEN 0 ELSE (goal + Goals - r.cursor) % Goals, t.url>>

Precedes(p, q) ==
    \E i \in DOMAIN p : p[i] < q[i] /\ \A j \in 1 .. i - 1 : p[j] = q[j]

InLine(r) ==
    InOrder(ToSet(r.queue), {p \in ToSet(r.queue) \X ToSet(r.queue) :
                               Precedes(PlaceOf(p[1], r), PlaceOf(p[2], r))})

\* Mutant: the goal of the next task keeps its turn.
KeepTurn(r) ==
    LET queue == InLine(r)
        goal  == GoalOf[Head(queue).url]
    IN IF queue = <<>> THEN r
       ELSE [r EXCEPT !.queue = queue, !.cursor = IF goal = 0 THEN @ ELSE goal]

Prioritised(r) ==
    LET queue == InLine(r)
        goal  == GoalOf[Head(queue).url]
    IN IF queue = <<>> THEN r
       ELSE [r EXCEPT !.queue = queue, !.cursor = IF goal = 0 THEN @ ELSE (goal % Goals) + 1]

--------------------------------------------------------------------------------
(* The branches. *)

(* intent_coverage.py: sources are counted by page, for the maps those on maps. *)
SourcesFor(g, pages) == {u \in pages : GoalOf[u] = g}
LackingGoals(goals, pages) == {g \in goals : Cardinality(SourcesFor(g, pages)) < Target}
MapGoalsLeft(r) == LackingGoals(MapGoals, r.facts \cap OnMaps)

Least(S) == CHOOSE n \in S : \A m \in S : n <= m
BudgetLeft(r) == LET left == PageLimit - Cardinality(r.visited) - 1 IN IF left > 0 THEN left ELSE 0
DepthIn(b, t) == IF t.branch = b THEN t.level ELSE 0

(* site_discovery tasks do not count unless a source owns them. *)
FactualPending(r) == Cardinality({i \in DOMAIN r.queue : r.queue[i].branch # "support"})

(* The planners.  A query is an anchor (0 for the territory, or a page whose facts belong   *)
(* to it) with what to look for; a planner goes through its queries in a fixed order.       *)
Anchors(r) == <<0>> \o Ascending(r.facts)
EachOf(anchors, terms) ==
    [k \in 1 .. Len(anchors) * Len(terms) |->
       <<anchors[((k - 1) \div Len(terms)) + 1], terms[((k - 1) % Len(terms)) + 1]>>]
AreaPlan(t)     == IF t.useful THEN EachOf(<<t.url>>, Ascending(AreaGoals)) ELSE <<>>
HistoryPlan(t)  == IF t.useful THEN EachOf(<<t.url>>, <<"history", "former name", "construction">>) ELSE <<>>
ArchivesPlan(r) == EachOf(Anchors(r), Archives)
MapsPlan(r)     == IF MapGoalsLeft(r) = {} THEN <<>> ELSE EachOf(Anchors(r), Maps)
FollowupPlan(r) == EachOf(<<0>>, Ascending(r.gaps))

PlanOf(b, t, r) ==
    CASE b = "area" -> AreaPlan(t) [] b = "history" -> HistoryPlan(t) [] b = "archives" -> ArchivesPlan(r)
      [] b = "maps" -> MapsPlan(r) [] b = "followup" -> FollowupPlan(r)
ShareOf(b, r) ==
    Least({PerSearch} \cup (IF b = "history" THEN {} ELSE {BudgetLeft(r)})
                     \cup (IF b \in Rounds THEN {} ELSE {QueryLimit - Cardinality(r.queries[b])}))
NewQueries(b, t, r) ==
    LET plan == PlanOf(b, t, r)
        new  == {i \in DOMAIN plan : plan[i] \notin r.queries[b]}
    IN {plan[i] : i \in {j \in new : Cardinality({k \in new : k <= j}) <= ShareOf(b, r)}}

(* What each branch asks before its planner is asked. *)
AreaOpen(t, r)    == t.useful /\ DepthIn("area", t) < BranchDepth /\ BudgetLeft(r) > 0
HistoryOpen(t, r) == t.useful /\ DepthIn("history", t) < BranchDepth /\ ~t.duplicate
ArchivesOpen(r)   == r.rounds["archives"] < RoundLimit /\ BudgetLeft(r) > 0
MapsOpen(r)       == r.rounds["maps"] < RoundLimit /\ BudgetLeft(r) > 0
FollowupOpen(r)   == /\ r.rounds["followup"] < RoundLimit /\ BudgetLeft(r) > 0
                     /\ r.gaps # {} /\ FactualPending(r) <= Backpressure

MayExpand(b, t, r) ==
    /\ CASE b = "area" -> AreaOpen(t, r) [] b = "history" -> HistoryOpen(t, r) [] b = "archives" -> ArchivesOpen(r)
         [] b = "maps" -> MapsOpen(r) [] b = "followup" -> FollowupOpen(r)
    /\ NewQueries(b, t, r) # {} \/ (b = "followup" /\ Hint \ r.queries[b] # {})

GoalsOf(b, r) ==
    CASE b = "area" -> AreaGoals [] b \in {"history", "archives"} -> HistoryGoals
      [] b = "maps" -> MapGoalsLeft(r) [] b = "followup" -> r.gaps

(* The next step of _expand_historical after the first n branches. *)
StepAfter(n, t, r) ==
    LET open == {i \in n + 1 .. Len(Branches) : MayExpand(Branches[i], t, r)}
    IN IF open = {} THEN "commit" ELSE Branches[CHOOSE i \in open : \A j \in open : i <= j]
Place(b) == CHOOSE i \in DOMAIN Branches : Branches[i] = b

(* _merge_tasks; discovered links are added the same way. *)
Merged(r, urls, branch, level) ==
    LET new == Ascending(urls \ (r.visited \cup UrlsOf(r.queue)))
    IN [r EXCEPT !.queue = @ \o [i \in DOMAIN new |-> [url |-> new[i], branch |-> branch, level |-> level]]]

LevelOf(b) == IF b \in Rounds THEN work.rounds[b] + 1 ELSE DepthIn(b, task) + 1
Counted(r, b, queries) == [r EXCEPT !.queries[b] = @ \cup queries,
                                    !.rounds[b] = IF b \in Rounds THEN @ + 1 ELSE @]

(* The tasks of a search carry the round, or the depth of the branch. *)
Expanded(b, queries, urls) == Counted(Merged(work, urls \ {task.url}, b, LevelOf(b)), b, queries)

--------------------------------------------------------------------------------
(* One task of the loop. *)

NoTask == [url |-> CHOOSE u \in ResearchUrl : TRUE, branch |-> "entry", level |-> 0,
           useful |-> FALSE, duplicate |-> FALSE, closed |-> FALSE]

ResearchInit ==
    /\ \E seeds \in SeedTasks :
         row = [queue |-> seeds, visited |-> {}, facts |-> {}, gaps |-> {}, cursor |-> 1,
                rounds |-> [b \in Branch |-> 0], queries |-> [b \in Branch |-> {}],
                blocks |-> [c \in Circuits |-> 0]]
    /\ mem = row /\ work = row /\ task = NoTask /\ step = "begin"
    /\ searches = [b \in Branch |-> 0] /\ ends = 0
    /\ ordered = FALSE /\ waited = [g \in Goal |-> 0]

(* An attempt starts from the row and puts its queue in order. *)
BeginResearch ==
    /\ step = "begin"
    /\ mem' = Prioritised(row) /\ work' = mem'
    /\ step' = "idle" /\ ordered' = TRUE
    /\ UNCHANGED <<row, task, searches, ends, waited>>

MoreResearch == step = "idle" /\ mem.queue # <<>> /\ Cardinality(mem.visited) < PageLimit

(* A goal waits for its turn if its tasks are in the tier of the next one, and lack      *)
(* sources if any goal does.                                                             *)
WaitsFor(g, t) ==
    /\ g # GoalOf[t.url]
    /\ mem.gaps # {} => g \in mem.gaps
    /\ \E u \in ToSet(mem.queue) : Tier(u) = Tier(t) /\ GoalOf[u.url] = g
TurnsWaited(t) == waited' = [g \in Goal |-> IF ordered /\ WaitsFor(g, t) THEN waited[g] + 1 ELSE 0]

PageOf(t, useful, duplicate, closed) ==
    [url |-> t.url, branch |-> t.branch, level |-> t.level,
     useful |-> useful, duplicate |-> duplicate, closed |-> closed]

(* The page is read: facts, links, and the supervisor's account of the goals.            *)
ReadPage(useful, duplicate) ==
    LET t     == Head(mem.queue)
        links == IF t.branch = "support" \/ (t.branch = "link" /\ t.level >= BranchDepth) THEN {}
                 ELSE LeadsTo[t.url]
        read  == Merged([mem EXCEPT !.queue = Tail(@)], links \ {t.url}, "link",
                        IF t.branch = "link" THEN t.level + 1 ELSE 1)
        facts == IF useful THEN read.facts \cup {t.url} ELSE read.facts
        seen  == [read EXCEPT !.facts = facts, !.gaps = LackingGoals(Goal, facts)]
        page  == PageOf(t, useful, duplicate, FALSE)
    IN /\ MoreResearch
       /\ duplicate => useful
       /\ work' = seen /\ task' = page
       /\ step' = StepAfter(0, page, seen)
       /\ TurnsWaited(t)
       /\ UNCHANGED <<row, mem, searches, ends, ordered>>

\* Mutant: the other hosts of the source lose their tasks too.
SameSource(t, u) == SourceOf(t) = SourceOf(u)

(* _apply_source_block_circuit_breaker: a blocked result has no facts and no links; it is   *)
(* counted, and at the threshold the queue loses the tasks of the same source and host.     *)
SameGate(t, u) == SourceOf(t) = SourceOf(u) /\ HostOf[t.url] = HostOf[u.url]

OthersLeft(queue, t) == Those(queue, {i \in DOMAIN queue : ~SameGate(t, queue[i])})

(* An open circuit skips the supervisor, the branches and the order of the queue.          *)
ReadBlocked(refusal) ==
    LET t      == Head(mem.queue)
        count  == mem.blocks[Circuit(t, refusal)] + 1
        opened == count >= BlockThreshold
        rest   == Tail(mem.queue)
        read   == [mem EXCEPT !.queue = IF opened THEN OthersLeft(rest, t) ELSE rest,
                              !.blocks[Circuit(t, refusal)] = count]
        seen   == IF opened THEN read ELSE [read EXCEPT !.gaps = LackingGoals(Goal, mem.facts)]
        page   == PageOf(t, FALSE, FALSE, opened)
    IN /\ MoreResearch
       /\ work' = seen /\ task' = page
       /\ step' = IF opened THEN "commit" ELSE StepAfter(0, page, seen)
       /\ TurnsWaited(t)
       /\ UNCHANGED <<row, mem, searches, ends, ordered>>

(* For the follow-up, a model may add queries or propose none (supervisor.py,             *)
(* entity_hypotheses.py, followup.py); its hints come first.                             *)
Queries(b) ==
    IF b # "followup" THEN {NewQueries(b, task, work)}
    ELSE ({NewQueries(b, task, work)} \cup {{h} : h \in Hint \ work.queries[b]}) \ {{}}
Hits(b) == {urls \in SUBSET {u \in ResearchUrl : GoalOf[u] \in GoalsOf(b, work)} :
              /\ Cardinality(urls) <= HitLimit
              /\ b # "history" => Cardinality(urls) <= BudgetLeft(work)}
Sent(b, queries) == searches' = [searches EXCEPT ![b] = @ + IF b \in Rounds THEN 1 ELSE Cardinality(queries)]

SearchBranch(b) ==
    /\ step = b
    /\ \E queries \in Queries(b), urls \in Hits(b) :
         LET found == Expanded(b, queries, urls)
         IN /\ work' = found
            /\ Sent(b, queries)
            /\ step' = StepAfter(Place(b), task, found)
    /\ UNCHANGED <<row, mem, task, ends, ordered, waited>>

(* The model and the planner have nothing to add. *)
NoFollowup ==
    /\ step = "followup"
    /\ step' = "commit"
    /\ UNCHANGED <<row, mem, work, task, searches, ends, ordered, waited>>

Committed(r) == [r EXCEPT !.visited = @ \cup {task.url}]

(* The end of a task: the row, and the loop that goes on from it. *)
Stores(r, inOrder) ==
    /\ row' = r /\ mem' = r /\ work' = r /\ task' = NoTask
    /\ step' = "idle" /\ ordered' = inOrder

CommitPage ==
    /\ step = "commit"
    /\ Stores(Committed(IF task.closed THEN work ELSE Prioritised(work)), ~task.closed)
    /\ UNCHANGED <<searches, ends, waited>>

CutShort == ends < MaxEnds /\ ends' = ends + 1

(* Twenty seconds are over, or the search failed: what the branches did so far is        *)
(* committed in the order it was found.  Only the historical branch counts its queries    *)
(* before it asks them.                                                                  *)
ExpansionStops(b) ==
    /\ step = b /\ CutShort
    /\ \E queries \in Queries(b) :
         /\ Sent(b, queries)
         /\ Stores(Committed(IF b = "history" THEN Counted(work, b, queries) ELSE work), FALSE)
    /\ UNCHANGED waited

(* _record_task_failure: the working copy is dropped, the task is not tried again.       *)
TaskTimesOut(b) ==
    /\ step = b /\ CutShort
    /\ \E queries \in Queries(b) : Sent(b, queries)
    /\ Stores([Committed(mem) EXCEPT !.queue = Tail(@)], FALSE)
    /\ UNCHANGED waited

FetchFails ==
    /\ MoreResearch /\ CutShort
    /\ Stores([mem EXCEPT !.queue = Tail(@), !.visited = @ \cup {Head(mem.queue).url}], FALSE)
    /\ UNCHANGED <<searches, waited>>

(* The time of the collection is over: the task is put back and the loop ends.           *)
ResearchDeadline ==
    /\ step \in Branch \cup {"idle"}
    /\ step' = "ended" /\ work' = mem /\ task' = NoTask
    /\ UNCHANGED <<row, mem, searches, ends, ordered, waited>>

(* The worker dies, or the commit fails; another attempt starts from the row.            *)
ResearchCrash ==
    /\ step \in Branch \cup {"idle", "commit"} /\ CutShort
    /\ IF step \in Branch THEN \E queries \in Queries(step) : Sent(step, queries) ELSE UNCHANGED searches
    /\ mem' = row /\ work' = row /\ task' = NoTask
    /\ step' = "begin" /\ ordered' = FALSE /\ waited' = [g \in Goal |-> 0]
    /\ UNCHANGED row

ResearchNext ==
    \/ BeginResearch \/ NoFollowup \/ CommitPage \/ FetchFails \/ ResearchDeadline \/ ResearchCrash
    \/ \E useful, duplicate \in BOOLEAN : ReadPage(useful, duplicate)
    \/ \E refusal \in Refusal : ReadBlocked(refusal)
    \/ \E b \in Branch : SearchBranch(b) \/ ExpansionStops(b) \/ TaskTimesOut(b)

ResearchSpec == ResearchInit /\ [][ResearchNext]_researchVars

--------------------------------------------------------------------------------
(* However often tasks, expansions and attempts are cut short, each of them costs at     *)
(* most one search of a branch beyond what the branch may spend: the rounds and queries   *)
(* that the row counts are never fewer (adaptive_atomic.py, area_atomic.py).             *)
SearchesAreBounded ==
    \A b \in Branch :
      searches[b] <= IF b \in Rounds THEN RoundLimit + ends ELSE QueryLimit + ends * PerSearch

(* A stored task of a branch belongs to a round that the row has counted, and its depth   *)
(* in a branch is one the collection allows.                                             *)
BranchesAreCounted ==
    \A i \in DOMAIN row.queue :
      LET t == row.queue[i]
      IN /\ t.branch \in Rounds => t.level <= row.rounds[t.branch]
         /\ t.branch \in {"area", "history"} => t.level <= BranchDepth

(* As long as pages are read one after the other, a goal that lacks sources lets at most  *)
(* one page of every other goal pass before one of its own of the same tier: "without      *)
(* allowing one requested goal to starve the others" (adaptive_atomic.py). A failed task,  *)
(* a cut expansion or a page of another tier may shift the turns.                          *)
NoGoalStarves == \A g \in Goal : waited[g] < Goals

(* No commit forgets a page: sorting, merging and failing keep every task, and only a      *)
(* circuit that this commit opens for their source and host takes tasks away: the breaker   *)
(* "never suppresses tasks from another host" (atomic.py), and a circuit that was opened    *)
(* before takes none that were found since.                                                *)
ClosedBetween(r, s, t) ==
    \E refusal \in Refusal :
      LET c == Circuit(t, refusal) IN r.blocks[c] < s.blocks[c] /\ s.blocks[c] >= BlockThreshold
PagesStay(r, s) ==
    /\ r.visited \subseteq s.visited
    /\ \A t \in ToSet(r.queue) : t.url \in UrlsOf(s.queue) \cup s.visited \/ ClosedBetween(r, s, t)
NoPageIsForgotten == [][PagesStay(row, row')]_row
================================================================================
