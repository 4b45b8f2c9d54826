# ARGUS Web Intelligence: formal models

ARGUS collects public facts about a place: a client posts a collection request,
the system plans source tasks (searches, map APIs, pages), fetches them, turns what
it finds into observations with evidence, and serves the result. This directory
holds TLA+ modules for the parts of it where the order of steps, a crash or two
actors at once decide whether the result is right, the TLC runs that check them on
small instances, and TLAPS proofs of what matters most for every size. Paths below
are relative to `src/argus/` of the repository unless they begin with `docs/` or
`tests/`.

## 1. Inventory

### The system

Server mode is a set of API processes, a set of worker processes and one PostgreSQL
database; nothing else connects them. Embedded mode runs API and orchestrator in one
process on SQLite.

| component | code | state it keeps | operations | talks to |
|---|---|---|---|---|
| admission | `api/app.py:315`, `idempotency.py`, `storage/postgres.py:165-266` | rows of `collections`, `collection_idempotency`; advisory lock | create a collection under a key, with quotas | inserts queued rows that workers claim |
| queue and leases | `storage/postgres.py:573-657`, `storage/fenced_postgres.py`, `storage/lease_fencing.py` | `collection_leases`, the status of `collections` | claim, renew, release, fenced update, commit of a task | workers by rows; fence by a context variable |
| worker process | `worker.py` | executions by slot, heartbeats, LLM gate, registration | claim loop, execute, stop, maintenance | queue, orchestrator, LLM probe |
| orchestrator | `orchestrator/service.py`, `orchestrator/atomic.py`, `orchestrator/evidence_status.py` and the layers over them | the record: status, pending, visited, coverage, errors, counters in `checkpoint` | run, plan, task loop, close, cancel | sources, storage |
| lanes and mandatory coverage | `orchestrator/toolpack_aware.py`, `orchestrator/mandatory_coverage.py` | lane counters and tags in the checkpoint | one research lane after the other, then an optional budget | the task loop |
| discovery and planning | `research/discovery.py`, `research/*.py` | query counters in the checkpoint | search queries, plan | search engines, LLM |
| retention | `storage/postgres.py:444-571`, `worker.py` | maintenance lock | delete old keys, collections, snapshots, registrations | the same tables as admission and reads |
| result delivery | `api/app.py:438-560`, `result_delivery.py`, `storage/postgres_operations.py`, `pagination.py` | none (cursors are held by clients), access marks | pages, full result, list of collections | the rows that workers publish and retention deletes |
| embedded store | `storage/sqlite.py`, `storage/atomic_sqlite.py`, `orchestrator/service.py:74-149` | the same tables, process-local locks | start, recover, cancel, run | threads of one process |
| crawler runtime | `crawler/lifecycle.py`, `crawler/fast/runtime.py`, `crawler/browser/runtime.py` | futures by key, index by URL, the queue of a crawler | fetch, resolve, reject, skip, restart | the network |
| web sources | `sources/generic_web.py`, `sources/sitemap.py`, `sources/rss.py`, `sources/json_feed.py`, `sources/*_web.py` | none (tasks carry their depth, root and owner) | fetch and extract one page; links, feeds, sitemaps become tasks | crawler, repository (copies of a page, captures) |
| extraction and normalisation | `extraction/`, `normalization/`, the stages of `sources/*_web.py` | none | observations and evidence of one response | the sources above |
| widening research | `orchestrator/area_atomic.py`, `orchestrator/adaptive_atomic.py`, `orchestrator/evidence_status.py`, `research/supervisor.py`, `research/followup.py` | rounds, queries, gaps, cursor in the checkpoint | five branches after a page, the order of the queue | search engines, LLM |
| site recipes | `recipes/service.py`, `recipes/executor.py`, `sources/recipe_web.py` | table `site_recipes` | replay, propose, judge, prune | browser, agents |
| archive | `history/wayback.py`, `sources/wayback.py`, `sources/historical_web.py`, `history/timeline.py` | observations with an archive mark | list captures, compare neighbours | archive index, repository |
| agents | `crawler/agent/` | child processes, browsers | run the backends in turn, plan actions | slot of the model, browser |
| human interaction | `human_interaction.py`, `crawler/browser/runtime.py` | a file per challenge | ask, answer, click, expire | API processes by files |
| LLM runtime | `llm_runtime.py`, `llm_health.py` | cached verdict, slots | probe, slot | the worker's gate, agents |
| presentation | `presentation.py`, `consumer_delivery.py`, `web/`, `cli/` | none | projections of a stored result | the API |
| administration | `storage/postgres_backup.py`, `storage/postgres_migrations.py`, `storage/postgres_storage_stats.py`, `deploy/` | schema version | commands of an operator | the database |

### What is hard, and what would make each part correct

* **Queue and leases.** Leases expire under executions that still run; a replacement
  starts from the stored checkpoint; the API cancels with a copy that is older than
  the row; an UPDATE waits for a row lock with an old snapshot. Correct when no
  published result is lost or fetched twice, no writer that lost its lease moves the
  state, a stored cancellation is final, and every collection is closed in the end.
* **Orchestrator.** The record is written at many places and an attempt may end
  between any two of them. Correct when budgets span attempts, no stored task
  disappears, and the terminal status claims no more than there is.
* **Admission.** Requests are retried, and counted while others are being inserted.
  Correct when a key stands for one collection and the queue keeps its limits.
* **Retention.** It decides on a snapshot and deletes later. Correct when it deletes
  no work, nothing that was just read, and breaks no lookup in progress.
* **Result delivery.** Pages are separate requests with a limit on rows and one on
  bytes, computed twice (SQL and Python). Correct when the pages are the result,
  each item once, and the end is reached.
* **Lanes.** Obligatory work is cut into lanes that share one queue and one page limit,
  and is resumed from flags and tags. Correct when lanes follow each other whatever
  attempt ends where, later lanes keep their pages, ordinary tasks survive them, and the
  optional budget is opened once.
* **Worker process.** The claim loop waits for a probe, executions for leases, a stop for
  all of them. Correct when the LLM gate opens again, a live worker is registered, and a
  stop leaves no execution behind.
* **Embedded mode.** A cancelled coroutine gives the lock back while its thread still
  writes. Correct when a recovery at start repeats no published task, a write left over
  undoes no cancellation, and every collection is closed in the end.
* **Crawler runtime.** Futures, keys and URLs are three indexes of the same calls. Correct
  when every call gets its own answer, and a skip reaches all that wait for that URL.
* **Human interaction.** Files are read, changed and replaced without a lock. Correct when
  nobody is asked for what no handler awaits and an input is applied once.
* **Discovery and widening research.** Budgets live in a checkpoint that a deadline may
  leave behind. Correct when lost attempts cost what they asked and no more, no goal
  waits forever behind another, and no queued page is forgotten.
* **Recipes.** Copies are judged long after they were read. Correct when the newest version
  stays, only proved recipes are stored, and no input of one collection reaches another.
* **Web sources and extraction.** Links, feeds, sitemaps and redirects lead anywhere; ten
  stages edit one result. Correct when a crawl stays where the request allows and each
  fact keeps its evidence and its marks.
* **Archive.** A capture is compared with whatever is stored then. Correct when that was
  its neighbour for good.
* **Agents.** Backends share one model and may be cut off at any await. Correct when the
  slot always comes back and no plan does what is forbidden.

PROJECT.json lists the hazards with the line where each one bites and the
properties that cover it.

## 2. Modules

    CollectionLifecycle          the life of a collection that one execution works on
       ^ QueueLifecycle          what is left of it once two executions have overlapped
            ^ implements
    LeaseQueue                   queue, leases, workers, fence, cancellation
       ^ LeaseQueue_proofs
    CollectionRun                one collection over all its attempts
       ^ CollectionRun_proofs
    SerialLanes                  the mandatory lanes of a collection, over all attempts
       ^ SerialLanes_proofs
    Admission                    admission, idempotency keys, quotas, retention, reads
       ^ Admission_proofs

    MCNode     = WorkerProcess, Embedded (implements CollectionLifecycle),
                 AgentFallback (over the slots of LlmGate), ResultDelivery
       ^ Node_proofs
    MCSources  = FetchRuntime, HumanInput, Discovery, CollectionListing,
                 SiteRecipes, SiteCrawl, PageExtraction,
                 ResearchExpansion, ArchiveTimeline
       ^ Sources_proofs  <-  Pages_proofs

    MCRecovery = LeaseQueue, SerialLanes         what must survive workers that die
    MCService  = MCSources, Admission            the safety of the service

    Sorting                      a finite set in ascending order, as a recursive function
       ^ Sorting_proofs          and what the proofs above need of it

Each `MC*` module gives an instance its functions and its symmetry. `MCNode`, `MCSources`, `MCRecovery` and
`MCService` put several machines that share no state side by side: a variable `part` or `side` picks one of them in the
initial state and the others stand still, so their state spaces add up instead of being
multiplied, and every behaviour of one machine is explored in full. Two
machines of them are really composed: `AgentFallback` extends `LlmGate`, and its calls, other users of
the model and the semaphore between them take their steps together. The modules cut the
system where the code does: `LeaseQueue` says that attempts at one collection do not
disturb each other and sees an attempt as picks, fetches and writes; `CollectionRun`
takes that for granted and says what a sequence of attempts does to the record;
`SerialLanes` says it of the phase that a profile with mandatory lanes puts in front;
`Admission` creates and deletes the rows the queue works on; `ResultDelivery` takes from
`LeaseQueue` that no facts are added to a terminal collection and says what a client is
given.

### LeaseQueue

| state | code |
|---|---|
| `rec` | row of `collections`: status and the visited part of the checkpoint (`ok` committed results, `bad` failures) |
| `facts` | `observations` and `evidence` of the collection, by the task that produced them |
| `lease` | `collection_leases`: owner, and whether `lease_until > NOW()` |
| `pc`, `col`, `mem`, `task` | the executions of `worker.py:_execute`, one per slot, with the record they hold in memory |
| `api` | the record read by `service.py:cancel` between its SELECT and its UPDATE |

| action | code |
|---|---|
| `Claim` | `claim_next_collection`: CTE with `FOR UPDATE SKIP LOCKED` and the upsert of the lease |
| `Expire`, `Stall`, `HeartbeatLost` | passing of `lease_until`, without or in spite of a renewing execution; a renewal that matches no row |
| `Load`, `Start`, `Pick`, `RunFails`, `Finalize` | the storage calls of `orchestrator/service.py:run` and `atomic.py:_process_tasks` |
| `FencedUpdate`, `Write` | `fenced_postgres.update_collection`: the EXISTS on the lease, then the row |
| `Commit` | `commit_task_success`: locks on both rows, facts and checkpoint in one transaction |
| `RecordFailure` | the update after a failed, refused or timed-out task |
| `Release`, `ReleaseFails`, `Interrupt`, `Crash` | `release`, its suppressed error, stop or storage error, death of the process |
| `CancelRead`, `CancelWrite` | the two statements of `service.py:cancel` |

Abstractions. The order of the queue is dropped, since SKIP LOCKED may pass over the
oldest row. `NOW()` is frozen at BEGIN: a commit that waited past the expiry but still
finds itself owner equals one that committed just before it. An UPDATE of
`update_collection` is always two steps: under READ COMMITTED its EXISTS on the lease is
evaluated in the snapshot of the statement, and when the UPDATE has to wait for the row,
the row condition is evaluated again on the new version and the EXISTS is not, so a
claim, a release or an expiry may fall in between. Slots are
`worker_concurrency` (default 1, at most 32). One cancel request per collection is in
flight. Snapshots and recipes written behind the same fence are payload of `Commit`.
`_active` is keyed by collection, so a worker that claims its own expired lease may for a
while run one execution more than it has slots; the model keeps to the slots, and
`WorkerProcess` has the names.

`overlapped` is a history variable that no action reads: the collections that a worker
has claimed while another execution of its own was at work on them (`WorksOn`), or whose row
an UPDATE has written behind the lease (`OvertakenAt`). These are the two things that the
fence does not keep away (runs `lease_stale` and `lease_reclaim`), and with it the properties
can say that there is no third.

### CollectionLifecycle, QueueLifecycle

A specification with nothing but what a client can see: a collection starts once, a task
is published or given up at most once, facts and progress appear together, closing is
final except for a cancellation already under way, which may put an older
checkpoint back but never facts. The queue does not keep this promise for a collection on which two
executions overlap: a checkpoint goes back, a task is done again, a closed collection
runs again. `QueueLifecycle` is what it does keep: the life above until then, and from
then on (`Disturb`) no stored fact is lost, no checkpoint counts a task without facts, a cancellation
is final and other collections are not touched. `LeaseQueue!Lifecycle` is the refinement
mapping, with no assumption about the workers. `Embedded` implements
`CollectionLifecycle` itself.

### CollectionRun

| state | code |
|---|---|
| `row`, `mem` | `CollectionRecord`, stored and in memory: status, pending, visited, marks in coverage and errors, breaker counts, budget start, and the flags `initial` and `planned` of the checkpoint |
| `facts` | no observations, some, or one for every requested intent |
| `pc`, `task`, `late` | where the attempt is, what it fetches, whether it stopped on the time budget |
| `clock` | wall time since the budget was started, in timeouts of a source |

`Begin`, `PlanInitial`, `Discover`, `PlanStore`, `NoTasks`, `StartBudget` are the storage
calls of `service.py:_run` and its planning; `Pick`, `Succeed`, `Fail`, `Deadline` the
paths of `atomic.py:_process_tasks` (head of the loop, committed result with circuit
breaker, handled error, deadline); `Finish` and `Align` the two writes of the terminal
status; `RunFails` the outer exception handler; `Crash` the end of an attempt between
any two calls; `Cancel` a client. The queue is a set: its order is the research
priority, which decides nothing of what is stated. One error code per (source, host) is
kept in the breaker. Historical expansion and the planner are the tasks they may add.
The lanes of a mandatory profile come before this loop and are in `SerialLanes`.

### SerialLanes

| state | code |
|---|---|
| `row`, `copy` | the record, stored and in memory: `attempted` and `complete` of a lane are the flags of `checkpoint.source_contours` and `serial_public_map_lanes`, `done` the flags `radius_street_inventory_complete`, `source_contours_complete`, `serial_public_map_complete`; `optional` is `mandatory_coverage.mandatory_complete`, `pages` is `constraints.max_pages`, `started` is `execution_budget_started_at`; `pending` holds each task with its lane tag |
| `place`, `lane`, `budget`, `fetching` | where the attempt is, in which lane, with how many pages left of its limit |
| `expired` | the time budget since the stored start is used up |

| action | code |
|---|---|
| `Begin` | `_apply_research_profile_execution_guard` and the first update of `service.py:_run` |
| `TakeStreets`, `StreetsDone` | `_run_pre_contour_street_inventory` |
| `OpenLane`, `TakeLane`, `CloseLane`, `SectionDone` | one turn of the loops in `_run_serial_source_contours` and `_run_serial_public_maps`: discovery, tasks found by tag, completion flag, flag of the section |
| `EnterLane`, `PickTask`, `Succeed`, `Fail`, `Leave` | `_process_serial_lane`: limit and reserve, head of the loop, committed result, recorded failure, remaining tasks dropped |
| `Activate`, `Resume` | `_activate_post_mandatory_budget`, opened now or by an earlier attempt |
| `OptionalTask`, `Close` | the ordinary task loop and the terminal write, one step each (details in `CollectionRun`) |
| `LanesFail`, `LanesCrash`, `Cancel`, `TimeIsUp` | outer exception handler, end of an attempt between two calls, a client, time |

A lane limit is what `_process_serial_lane` computes: `PageLimit` of the lane, but at
most the free pages less one for each later lane; the last free page is never
reserved. Abstractions: the queue is a set of tagged tasks (its order inside of a lane
decides nothing that is stated); a blocked source prunes any part of the lane; the
street inventory is lane number 0; discovery is configured and the plan has the same
lanes in every attempt; `Maps = 0` is a profile without maps, or a request without an
intent that maps support. The path modelled for maps is the one with street anchors, which
the only profile with maps takes. Two consequences of the code that the model keeps: when the
time budget is used up, the remaining lanes are completed with nothing fetched (the limit
in time is not reserved as the one in pages is); and an attempt that ends after the street
inventory but before its flag leaves an inventory that was committed and is called
unavailable.

### Admission

| state | code |
|---|---|
| `coll` | `collections` with `collection_result_access`; deleted rows are remembered |
| `mapping` | `collection_idempotency` |
| `lock` | the transaction-level advisory lock of admission |
| `req` | the statements of `create_collection_idempotent` in a transaction under way |
| `purge` | `run_retention` in a transaction under way |

`Submit` .. `Insert` follow `storage/postgres.py:165-266` statement by statement
(advisory lock, DELETE of the expired mapping, SELECT of the mapping, SELECT of the
body, both counts, INSERTs and COMMIT); `Touch` is `record_result_access`, which
refers to the row and so waits for its DELETE and then fails with a foreign key error;
`PurgeKeys` .. `PurgeCommit` are the DELETEs of retention, each with the snapshot of its
statement; a batch is any subset of the rows it may choose. What a transaction
wrote becomes visible with its last action. `Lag` bounds the time from a request to the
end of its transaction, and of a retention pass: it is an assumption about the
environment (timeouts of the pool and of the statement), not a constant of the code.

### ResultDelivery

`rows` are the rows of one collection by kind, `got`, `next` and `end` what a client
has. `PgPage` is the window query of `postgres_operations.py`, `SqlitePage` the loop of
`result_delivery.py`, written as the loop it is; both are pure and compared for every
cursor and limit. A request is one action since record and rows are read in one
snapshot; requests do not disturb each other, so one client is enough; a request that is
refused changes nothing. Ids are stable (`uuid5` within a collection), so the rank of an
item stands for its id. The two stores measure an item in different texts (JSONB and
stored JSON): what agrees is the algorithm, on the same sizes. The caps of 500 rows
and the floor of 1024 bytes never bite within the limits of the configuration.

### WorkerProcess, LlmGate, AgentFallback

| state | code |
|---|---|
| `life`, `stop`, `loop`, `room`, `claimed` | `worker.py:run`: process, event `_stop`, place and local variables of the claim loop |
| `active`, `run`, `leased` | `_active`, the tasks it has held, and the leases of this worker that are not over |
| `registered`, `heart` | row of `worker_instances` and `_worker_heartbeat_loop` |
| `llm`, `cache`, `check`, `gate` | the model, `_cached` with its ages, the checks under way, `_llm_claims_ready` |
| `slot`, `waiters`, `waiting`, `inFlight` | `LlmConcurrencyGate.slot`: place of a component, queue of the semaphore, the counters |
| `agent`, `behind`, `cuts` | the call of `SequentialAgentBackend.run` of each task; processes and browsers that cut calls left |

`WorkerProcess` has an action for each await of `run`, `_execute_claim` and `stop`: a claim that
the stop finds under way is a claim that still registers its execution. `LlmGate` lets
`check()` be entered by several callers: it tests the cache once, without a lock, so callers that find it old
each ask the model, and the last one to be answered fills it, with the time at which it began;
verdicts have ages, so that "fresh" means what was true and not when it was written.
`AgentFallback` has a step per await of the three backends: ask for the slot, work, close
the browser, wait for the killed process; `CutBeforeWork`, `CutAtWork`, `CutAtClose` and
`CutAtKill` are the cancellation that arrives there. What a model answers is a `ModelPlan`
(numbers of controls, unknown ones included); `Controls`, `ActionsFromPlan` and `SafeActions` say
what becomes of it. Prompts and the text of pages are left out.

### Embedded

`row` and `stored` are the tables of SQLite, `job` the coroutines of `service.py:_run`, `op` the
statement that holds the `asyncio.Lock`, `left` statements whose coroutine was cancelled: the lock is free
again and the thread goes on. `noted` is `_cancelled`, `request` the record that
`cancel` has read. Actions are the storage calls and awaits of `_run`, `cancel`, `shutdown` and `start`, the
thread (`ThreadStep`), and the end of the process. It implements `CollectionLifecycle`
(`EmbeddedKeepsPromise`, proved in `Node_proofs`); that its collections are closed in the end is
`EmbeddedCloses`, which only the run asks.

### FetchRuntime, HumanInput, Discovery, CollectionListing

| module | state | actions |
|---|---|---|
| `FetchRuntime` | callers, `_futures`, `_url_by_key`, `_keys_by_url`, the queue of the crawler, `_crawler` and its task | `fetch` up to its `finally`, handlers, retries, skips by robots.txt, death and restart of the crawler |
| `HumanInput` | files of challenges, the place of the handler, requests of the API with the file each has read | create, take, apply, fail, expire; the read and the write of an answer or a click |
| `Discovery` | stored plan and the copy of the attempt, remaining budget, the `discover` call under way | intents in turn, allocation, batches, providers, merge, loss of the attempt |
| `CollectionListing` | rows with a time stamped before they are admitted, cursor and filter of a client | stamp, admit, close, delete, page by page |

### SiteRecipes

`recipes` is `site_recipes` for one site and goal, `visit` the page tasks of several collections:
where each is, the copy of the stored recipe it holds, the candidate it waits for, the recipes its page
has backed. Each statement of the store is an action; between a read and a write a browser works.
`Succeeded`, `Failed`, `Invalidated` are what `mark_success`, `mark_failure` and `invalidate` make of a copy,
`SaveRecipe` and `Prune` the two statements of `save`; `LookUp` is `get` with its expiry.

### SiteCrawl

`toFetch`, `seen`, `asked` are the queue and what was fetched, `stored` and `followed` the documents
committed and those whose links became tasks, `blocks` the breaker. `FetchPage`, `ReadFeed`, `ReadRobots`,
`ReadSitemap`, `TaskFails`, `TaskBlocked` are one fetch of a task with the commit of what it led to
(`CollectionRun` has the two apart). A task keeps the marks that decide about its children: depth, root,
contour, terminal, index level, archive. The graph of links, redirects, canonical names, feeds and
sitemaps is a constant. A canonical name changes what `url_identity.py` changes, which leaves a page on its
host (`CrawlAssumption`).

### PageExtraction

One response goes through the stages of the adapter chain in the order of their classes:
`FormatResult`, `PageResult`, `WithEntities`, `Timeline`, `Archived`, `OnMap`, `Atomic`, ... each a function on `[seen, evidence, errors,
partial, blocked]`, named after what its class adds; then the review views and agent rounds of a
public map (`ReviewView`, `AgentRound`), and the coverage that `atomic.py` records. An
identity is a pair of type and content, which is what `stable_observation_id` hashes; the
parsers are the choice of which items a page declares. The name of an entity stands for its content, so
`ExtractionAssumption` says what follows from that: no declared entity has the name of an observation that a stage adds
itself, one name and type has one text, and JSON-LD and microdata declare under names of their own.

### ResearchExpansion

`row` is the stored collection (queue, visited, facts, gaps, rounds, queries, cursor), `mem` what the
loop holds, `work` the working copy of the page at hand. A page is `ReadPage`, then a `SearchBranch` for
each of the five branches that is open (area, history, archives, maps, followup), then
`CommitPage`; or the source is blocked (`ReadBlocked`): the refusal is counted by source, host and error code, and
at the threshold (3 in the code, 2 in the instance) the circuit takes every queued task of this source on this
host out of the queue (`OthersLeft`), and the supervisor, the branches and the new order are skipped. The count is in
the working copy and is lost with it; `ExpansionStops` is the timeout of the expansion, `TaskTimesOut` the outer one,
`FetchFails`, `ResearchDeadline` and `ResearchCrash` the other ways out. `Prioritised` is
`_prioritize_pending` with its tiers and the round robin over goals. Queries have no text: a branch
sends at most so many as are left. The profile that only
lists streets is left to `SerialLanes`.

### ArchiveTimeline

`indexTries` counts the answers "later" of the index, `archived` are the capture tasks, `unsaved` what was
made of the first, `timeline` what is stored of each. Captures are numbered from 1 by their time. `FirstRows` and
`FewCaptures` are the loop of `sources/wayback.py` that keeps the first rows of each capture up to the limit,
`OldestFirst` its sort, `CaptureBefore` the choice of `historical_web.py`, `PageVersion`,
`AllChanges` and `WithinBudget` are `history/timeline.py`. The articles of a page are made by
`sources/atomic_content_web.py` after the comparison and are stored with the capture; the comparison of the next
capture finds them on the stored side only (`ArticlesMissed`) and they take from its budget of changes. A capture whose facts match the territory
has lost its `web_page` (`HasPrimary`), as the production chain of adapters does it.

## 3. Runs

`tlc -config <cfg> <module>` in this directory; each ends within minutes.

| run | instance | asks |
|---|---|---|
| `recovery` | leases: 1 collection, a worker with 2 slots and one with 1, 1 task, 2 faults; lanes: 2 families, 1 map, 7 tasks, one in two lanes and one both ordinary and disclosed, emergency limit 4, 1 optional page, 2 early ends; fairness | `FactsBehindCheckpoint`, `CancelledStays`, `OwnerSeesCheckpoint`, `RefetchNeedsOverlap`, `ImplementsLifecycle`, `QueueCloses`, `QueueDrains`; `LanesAreSerial`, `PagesWithinCeiling`, `PagesReserved`, `OrdinaryTasksKept`, `BudgetOpensOnce`, `LanesEnd` |
| `lease_stale` | 2 workers with 1 slot | refutes `StaleWorkerWritesNothing` |
| `lease_reclaim` | 1 worker with 2 slots | refutes `OwnerNeverRefetches` |
| `serial_recovery` | the lanes of `recovery`, 1 early end | refutes `RecoverySkipsNoLane` |
| `collection_run` | 4 tasks on 2 hosts, 3 pages, budget 2, threshold 2, 2 early ends, fairness | `WithinPageBudget`, `FetchesBeforeDeadline`, `ClosedHonestly`, `StoredTasksKept`, `Closes` |
| `collection_align` | the same, 1 early end | refutes `CompletedIsCovered` |
| `node` | health: cache of 1, 2 checkers; agents: 3 users of 1 slot, 1 of them agents with 2 cuts, 2 pages, 4 plans; worker: 2 collections, 2 slots; embedded: 2 collections of 2 pages, 1 job at a time, 1 end of the process; delivery: items of 2, 4, 1 bytes in 2 kinds, pages of 1..3 items and 3 bytes, 1 restart; fairness | `ModelIsShared`, `ActiveCoversRuns`, `PagesAreTheResult`, `AnswersAreSound`, `EmbeddedKeepsPromise`, `WorkerComesBack`, `CallsEnd` |
| `agent_process` | the agents of `node` | refutes `ProcessesHoldSlots` |
| `service` | admission: 2 requests in flight, 2 keys of 2 consumers, one key used for 2 bodies, limits of 1, window 1, retention 2, 2 collections; fetch: 3 calls of 2 URLs, 1 retry, 1 crawler; human: 2 challenges, 2 inputs; discovery: 4 intents, budgets 1..4, 2 providers, 1 lost attempt; listing: 3 collections, 2 times, pages of 1 and 2; recipes: 2 page tasks, threshold 2, 2 versions kept, 1 round of agents; crawl: 9 pages on 3 hosts, 5 sitemaps of which 3 are nested indexes, 7 tasks, all limits; page: every kind of response; research: 4 pages on 2 hosts, 2 goals, 5 branches, 2 refusals and a threshold of 2, 1 cut; archive: 4 captures, 2 entities and an article, 3 taken, 1 change kept, 1 stop | `QueueBounded`, `OneCollectionPerWindow`, `AnswersOwnRequest`, `WorkIsNotDeleted`; `IndexNamesWaiters`, `ChallengesAreServed`, `SearchBudgetHolds`, `ListingIsComplete`, `RecipesAreSound`, `CrawlIsBounded`, `FactsAreHonest`, `NoGoalStarves`, `NothingGoesMissing` |
| `admission_read` | 1 request | refutes `RecentReadsSurvive` |
| `sitemap_index` | the crawl of `service` | refutes `OneMoreIndexLevel` |
| `archive_articles` | the captures of `service` | refutes `GoneIsGone` |

Why these bounds. Every disagreement about a lease is between two holders of one
collection, so three slots of two workers and one collection contain a takeover by the other worker, one
by the worker itself, and one of each; a task that one execution has published is enough for
another to repeat, or to take back; a fault is a
stall, a stop, a storage error, a crash or a cancel request, and two of them make a takeover of a
takeover. Two more instances of `LeaseQueue` were checked with no violation and are not kept as runs, since the proofs say the
same of the safety for all sizes: two workers with two slots, one task and one fault (safety), and two workers with one slot, two
tasks and three faults (safety and liveness). In `CollectionRun` four tasks exceed the page budget by one, three of them on
one host open its circuit with one left to prune, one links back to the first, and two
early ends give an attempt that recovers from a recovery. In `SerialLanes` an emergency
limit of one page per lane and one for the inventory is the smallest for which the reserve
works, so that every page taken too many is felt by a later lane; two families and a map
cross the border between the sections. In `Admission` two requests
are what the advisory lock keeps apart; the second collection is the one a violation
of the key or of the quota would create; the horizon passes window, retention and grace. The window is shorter than
retention there: with the other order a key is deleted with its collection inside of its window, and a lookup may fail, as
`OneCollectionPerKey` and `LookupsAreAnswered` say by assuming the order (section 4).
In `ResultDelivery` two items fill a page exactly, one exceeds it alone, and the limit
in rows is reached together with the limit in bytes. In `node` one slot and three users let a call wait
behind one that is cut off; two slots of a worker and two collections let a claim replace an execution that
lost its lease; one job at a time and two collections let one wait while the writes of the other are left
over. In the sources of `service` two calls of one URL share an index entry and the third must not be touched; two
inputs overlap on one challenge, and the handler may ask with a second one meanwhile; budgets of 1 to 4 for four intents lie on
both sides of "a query for each"; two page tasks are a reader and a writer between its read and its write, and a threshold of two
needs both; the crawl has a cycle, a redirect to another host, two copies of one text, one of them with a second
address and 7 tasks to reach it by, an alias that is not canonical, an index that names itself and a chain of three more, as deep as `_MAX_INDEX_DEPTH`; two goals with three pages, a site that a source owns next to one it does
not, give the round robin something to get wrong, and two blocked pages of one source on one host leave a task of the same source on another host; four captures with one missed
leave a gap in the middle of a timeline. Recipes have one round of agents, where a page in the code has two: with two,
the sources alone take longer than the run may, so superseded candidates are left to the proof (`RecipesStaySound` holds for
any number of rounds). The symmetry set (requests) is used in a run without liveness.

Eight runs end with a violation: each checks a sentence of the docs or the name of a
test against what the code does, and `findings` in PROJECT.json quotes both.

1. `lease_stale`: `docs/RECOVERY.md:48` says an old worker cannot write collection state
   after another one got the expired lease. The lease row is locked by
   `commit_task_success` only; `update_collection` reads it in the snapshot of its
   statement, which may be older than the claim.
2. `lease_reclaim`: `docs/RECOVERY.md:97` says there is no second fetch after a COMMIT.
   The fence names the worker and not the claim: with `worker_concurrency` of two or
   more a worker can claim its own expired lease while the first execution still runs.
3. `collection_align`: `tests/test_evidence_terminal_status.py:88` says that completed
   requires coverage of all intents. The status is stored completed first and taken back
   by a second write, and nothing repairs an attempt that ends between the two.
4. `admission_read`: `docs/POSTGRES_OPERATIONS.md:141` says that recently read
   collections are protected. The DELETE of retention evaluates the access row on its
   snapshot only.
5. `serial_recovery`: `docs/ARCHITECTURE.md:121` says that no mandatory lane is skipped
   because of a recovery checkpoint. The limit of a lane counts per attempt and the last
   free page is not reserved: an attempt that ends inside of a lane gives the lane one
   page of the reserve, and a later lane is entered with a limit of 0, drops its tasks
   and is stored as complete. It takes an emergency limit that the lanes nearly use up
   (500 pages by default, while a map lane may fetch two pages per street anchor).
   `ReserveKept` shows that this costs one page per early end and no more, hence nothing
   without one.
6. `agent_process`: `docs/LLM_AGENT_RUNTIME.md:68` says that the slot of the model is held until the child
   process has ended, and `docs/RECOVERY.md:65` that the process is released with the gate. `_run_isolated` kills it
   after its own timeout only, and outside of the slot; a call that is cancelled gives the slot back and leaves
   the process at work, next to the agent that gets the slot.
7. `sitemap_index`: `docs/SITEMAP_DISCOVERY.md:23` allows one additional level of indexes. `sitemap.py` follows
   up to `min(3, max_depth)`; `CrawlStaysInside` states that limit.
8. `archive_articles`: `docs/HISTORICAL_TIMELINES.md:53-59` compares the entities of neighbouring captures. The articles
   of a page are made after the comparison and stored before the next one, so each of them is reported as
   having disappeared. `TimelineIsConsistent` is what holds for the entities that the page declares.

### Fairness

Each machine of `recovery` has the fairness of its module, as far as the behaviour runs it.
`LeaseQueue`: workers poll without end (`worker.py`, claim loop), an execution whose
process lives takes its next step, its heartbeat runs, a released or expired lease is
noticed since the claim compares it with the clock; the clock advances. Nothing is
assumed of clients, faults or the choice between a result and a failure. Claims are
fair per collection because the claim takes the oldest row first. None of this brings a collection to its end when two executions
of one worker keep meeting on it (section 7), which `EventuallyClosed` and `LeasesDrain` name as the one way out. `CollectionRun`: some
worker attempts an open collection (that is `EventuallyClosed` of the queue) and an
attempt goes on; time need not pass. `SerialLanes`: the same. `node`: a client that wants the
result follows its cursors; the server owes nothing but its answers. The claim loop of a worker sleeps at
most `worker_poll_interval_seconds`, its heartbeat is a loop, a registration is tried again after an error (strong fairness:
each try may fail), and `stop` and the release of a lease end by themselves. A statement of SQLite ends, a job goes
on unless it waits, and a process that died is started again. A health check ends, since its request has a timeout.
Each backend of an agent has a timeout, and `asyncio.Semaphore` wakes its waiters in their order, which
`waiters` models, so weak fairness is enough. `service` has no liveness: what its sources
owe is said by invariants, and in `Admission` a refused or interrupted request is a legal end.

Deadlock is not checked: every one of these systems may legally stop (no open
collection, no request, a deleted result, the bound of an instance reached).

## 4. Proofs

`tlapm <module>` in this directory; the constants are arbitrary, the assumptions are
the ones named `*Assumption` in each module (types and disjointness of the model values,
positive bounds). Nothing else is assumed except where a theorem says so.

| module | theorems | argument |
|---|---|---|
| `LeaseQueue_proofs` | `TypeCorrect`, `CheckpointSafety`, `CancellationIsFinal` | `FactsBehindCheckpoint` is not inductive: a late writer stores its own copy. The invariant says it of every copy there is, in rows, slots and cancel requests; facts only grow, and every copy is made of another one or together with facts |
| | `OwnerIsCoherent`, `NoSecondFetch`, `QueueImplementsLifecycle` | about every collection that is not in `overlapped`, without an assumption. `OwnerInv` adds to coherence that no worker has two executions at work on it (`OneEach`), that facts do not run ahead of an owner's copy and that a cancel request holds a subset of the progress; the refinement needs it in every step that writes, and for the other collections `FactsInv` is what `Disturb` asks |
| `CollectionRun_proofs` | `TypeCorrect`, `PageBudget`, `TimeBudgetKept`, `HonestVerdict`, `NoTaskLost` | `RunInv`: the copy of the attempt is the stored record less the task it took out, unless the row was cancelled; the budget start of a record never changes; what may be stored may be read by the next attempt |
| `SerialLanes_proofs` | `TypeCorrect`, `StrictSequence`, `CeilingsHold`, `ReserveKept`, `OrdinaryTasksSurvive`, `BudgetOpenedOnce` | `LaneInv` says the same of the row and of the copy in memory: flags and tags name one place in the sequence (`Serial`), and the pages used leave one for every waiting lane (`Reserve`), while a lane that is worked off must leave room for its own budget (`Place`). None of the limits is inductive alone, because the budget of a lane was computed when it was entered. An early end forgets how much of a lane was fetched and is what adds 1 to every bound |
| `Admission_proofs` | `TypeCorrect`, `QueueIsBounded` | `RoomOK`: between a count and the INSERT the count can only fall, because the lock admits one transaction and everything else only closes |
| | `OneCollectionPerKey`, `LookupsAreAnswered`, `NoWorkDeleted` | a collection is found by its key or is a window old; who holds the lock and found no young mapping may give the key away, and nobody else can in the meantime; a collection found by a request is younger than any that retention may delete |
| `Node_proofs` | `StopCoversRuns`, `NodeCoversRuns` | `WorkerInv`: the claims left in a round are what the names in `_active` leave of the concurrency (`RoomInv`), and each unreplaced execution is the one its collection names, so they inject into the names; the loop runs only in a worker that is up. The names and not the executions are what is bounded inductively, because a claim renames a collection whose old execution goes on |
| | `ModelStaysShared` | `ModelInv`: a fresh verdict is one of the last checks; the holders of slots, the tasks at work and the counters name the same set; what cut calls left behind is counted against the cuts, each of which paid; the queue of the semaphore names exactly the callers that wait, each once (`Queued`) |
| | `NodeAnswersSoundly` | every list of controls of a page names an element once and its kind says where it came from, so a plan is allowed and repeats nothing. After each turn of the loop of SQLite the page is the first rows that fit (`TookFirst`); sizes are positive, so the running sum of PostgreSQL cuts at the same row (`BytesGrow`, `PagesAgree`) |
| | `NodeTypeCorrect` | the conjunction of the invariants of the machines of the node |
| | `ResultIsDelivered`, `NodeDelivers` | `DeliveryInv`: what a client has is the result up to its cursor. A page is the rows after the cursor up to the first that does not fit, at least one of them, since the sum of sizes grows with the rank (`BytesGrow`, `PageIsNext`) |
| | `EmbeddedImplementsLifecycle`, `NodeKeepsPromise` | `EmbeddedInv`: the copy of a coroutine is the stored row while the lock protects it, a statement under way is made of the row as it still is (`MadeOfRow`), also one whose coroutine was cancelled, and at most one of those is left over. Then each statement maps to one step of `CollectionLifecycle`, and every other step to a stutter |
| `Sources_proofs` | `IndexIsExact`, `SourcesIndexIsExact` | `IndexNamesWaiters` is inductive with the types: who discards a key leaves all three indexes, an answer only ends waits, and a rejection of all empties them |
| | `InputsAreServedOnce`, `SourcesServeChallenges` | `HumanInv`: a request that read a file before the handler took its input writes one back, but its input is then counted as taken; the number applied follows the number written |
| | `RecipesStaySound`, `SourcesKeepRecipes`, `NewestIsKept` | `RecipesInv` says of every copy, in the table and in the hands of a page, that it was proved and fills only what was allowed; the newest version survives since a version is written with the highest number and `Prune` keeps the highest |
| | `QueryBudgetHolds`, `SourcesStayInBudget` | `DiscoveryInv`: what an attempt may still ask and what is counted are together the budget of the stored plan, plus one lost call for each attempt that ended early |
| | `NothingIsSkipped`, `SourcesListAll` | `ListingInv`: what was received is what lies before the cursor; rows enter before or after it, but those that matched throughout stay on their side |
| | `CrawlHasBounds`, `SourcesStayInside` | `CrawlInv`: every task is in the set `Fitting` of those a request allows, with what their kind, depth and index still let them lead to; no key is queued twice or was fetched, so two tasks that deliver a page have two addresses; and the entry of a contour is alone, or with the one task it led to, which leads to nothing. Each function from a page to tasks has a lemma that its list stays in such a set (`PageTasksFit`, `FollowUpFits`, `CanonicalTasksStay`, `MapTasksStay`, `DiscoveredAreOffered`, `SitemapTasksFit`, `AppendedIsUnseen`) |
| | `RecipesAreTyped` | the bounds on ids and versions are not inductive: a counter stays below its bound only because of where the tasks are. `TypesFit` counts the tasks that store a candidate for the last time or are over (`Storers`; `High` is one more) and the ids that tasks have spent (`OneId`, `TwoIds`); a task only goes forward, so a number that is given out is paid for by the task that moved on |
| | `SourcesAreTyped` | the conjunction of the invariants of the machines, with `ListingShapes` for the pages of a listing |
| | `SourcesForgetNothing`, `SourcesTakeTurns`, `SourcesAreHonest` | lift the theorems of `Pages_proofs` to the composition |
| `Pages_proofs` | `ResearchIsBounded`, `ResearchForgetsNothing` | `ResearchInv`: row, loop and working copy hold the same pages except the one at hand, each branch counts in its own copy, and a copy that is discarded leaves its searches uncounted at most once; a page that a copy lacks was taken by a circuit whose count in this copy is higher than in the row (`ClosedBetween`) |
| | `GoalsTakeTurns` | `TurnInv`: `Prioritised` puts a page of every goal that lacks sources before the second page of any other, by the rank of a page among its goal's; the argument is about the sorted sequence and not about the state, so most of it is lemmas on `Sorting` |
| | `HistoryIsConsistent` | of the declared entities; what is said of articles is `GoneIsGone`, which the code refutes. `TimelineInv`: captures wait in the order of their time, after all that are stored, so the capture an entry was compared with is final; the folds over captures are lemmas about the last one that was found (`BeforeIsLast`) |
| | `PagesAreHonest` | `ExtractionInv`: each stage keeps evidence and observations that name the same ids. A stage that renames or marks observations keeps their ids, one that adds some adds ids no other has (the assumption on names), and a view that replaces the result is the work of the same stages |

`Sorting_proofs` holds no theorem about the system: it shows that `Ascending` lists a finite set of
numbers in order and without repetition (`InOrderLists`, `AscendingLists`), how two such lists join (`ListsJoin`), and
that a nonempty set of naturals has a least element (`NatMin`), that a function defined by recursion over
`0..N` exists (`LoopExists`), that what survives every turn of a bounded loop holds after all of them (`TurnByTurn`), and that
what a list says at some of its places is said in the same order (`ThoseAreListed`). The library's induction theorems take an operator,
which the provers cannot instantiate; `NatMin` is the induction used instead, on the least counterexample.

The theorems of `LeaseQueue_proofs` assume nothing about how many executions a worker has or how an UPDATE is
carried out. That a collection can get into `overlapped` in both ways is what the runs `lease_stale` and
`lease_reclaim` show: with the default `worker_concurrency` of 1 only the first is possible.

`KeysExpireFirst` and `LookupsEndFirst` (`Admission_proofs`) order the periods: closed
collections are retained at least for the idempotency window, and for the longest
transaction more. `config.py:53-56` bounds the periods one by one and lets an operator
choose a window of seven days with a retention of one; `README.md:254` of the
repository ("within the idempotency window the same key and request return the existing
collection") then does not hold, because the mapping is deleted with its collection
(`storage/postgres_migrations.py:132`). `NoWorkDeleted` needs neither.

Every invariant used in a proof was first checked by TLC on the instances above (`TypesFit` on one of two tasks and two
rounds). The four `TypeCorrect` theorems stand without a run of their own: each is the first conjunct of an inductive
invariant, which TLC checked.

Every invariant of a passing run is stated by a theorem. Only model-checked are liveness (`QueueCloses`,
`QueueDrains`, `Closes`, `LanesEnd`, `CallsEnd`, `WorkerComesBack`), since fairness and ENABLED are outside of the proof
system, and the refuted properties.

## 5. Plan

Done, in this order: LeaseQueue, CollectionLifecycle, their runs and proofs;
CollectionRun; Admission; ResultDelivery; the proofs of CollectionRun and of Admission;
SerialLanes with its proofs; WorkerProcess, LlmGate, Embedded; FetchRuntime, HumanInput, Discovery,
CollectionListing; SiteRecipes, SiteCrawl, PageExtraction, ResearchExpansion; AgentFallback,
ArchiveTimeline; the proofs of the machines of `MCNode` and `MCSources`, and of `Embedded` as an implementation
of `CollectionLifecycle`; the answers and the types of `node`;
the bounds of a crawl; the honesty of pages and captures and the types of `MCSources`.

Next, most important first:

1. The maps of profiles that search without street anchors (`orchestrator/toolpack_aware.py`), as a
   second family of lanes in `SerialLanes`.
2. Backup against a database that is written, and migrations step by step
   (`storage/postgres_backup.py`, `storage/postgres_migrations.py`).
3. The clients of single services (buildings, photographs, Overpass), where they page or retry.

## 6. Not modelled, and why

The clients of single public services (`sources/mingkh_residential.py`, `sources/pastvu.py`, `maps/`, geocoding)
are network I/O behind one interface: the models see a task that delivers, fails, is blocked or times out.
Parsers of formats (`extraction/`) are pure functions of a page: the models see the list of items they return,
cut or whole. What matches a territory or an intent (`research/territory_relevance.py`, `research/intent_evidence.py`)
is a choice of the environment. Presentation, web UI and CLI are projections of a stored result; consumer delivery
and its registry are too, and the branch of `consumer_delivery.py` that merges duplicates is used by no tool pack that is
shipped. Backup, migrations and statistics are commands of an operator. Security checks are stateless validation and
are out of scope. Metrics and logging change nothing.

## 7. Seen while modelling

What the code does where a comment or a doc could be read otherwise. None of it is a run: some of it is
too small, and the models keep what the code does.

* A worker with several slots that claims its own expired lease runs two executions of one collection. The lease row
  names the worker, so the first one to end releases the lease of the other, whose next write unwinds it; the worker
  claims again, and may meet its own release again. Nothing in the code ends this but timing (`WorkedTwice` in
  `EventuallyClosed` and `LeasesDrain`).
* `docs/HISTORICAL_TIMELINES.md:34-47` gives `first_observed_capture` to the first capture and `page_content_changed` or
  `page_content_unchanged` to one that has a committed predecessor. In the
  chain of adapters used in production a capture that matches the territory has its `web_page` renamed to
  `historical_page_version` before the commit (`sources/intent_evidence_web.py:157`), so `_primary` of the next
  comparison finds nothing: the next version names a previous capture and says
  `first_observed_capture` (`HasPrimary`, `PageVersion` of `ArchiveTimeline`).
* A capture whose fetch was blocked or empty is compared all the same (`sources/historical_web.py:16`): all entities
  of the capture before it are reported as gone.
* An archived page container is renamed before `_mark_document_container_superseded` looks for it and stays a
  candidate for messages next to its articles.
* A stale copy of a recipe that is saved over an invalidated row makes it active again (`recipes/service.py`), although
  invalidated versions are described as history.
* `sources/sitemap.py` reports that access to a host was stopped; the breaker (`orchestrator/atomic.py`) only removes the pending tasks of
  one source on that host, after repeated blocks.
* One JSON-LD entity that is declared twice with two types leaves one observation without evidence (`Twins` of
  `PageExtraction`).
* The duplicate of a text that is fetched again from a second address is stored by then, may be found as its own
  duplicate (the lookup takes the lowest id) and is then followed next to the first (`TextsAreFollowedOnce` allows it).
* `url_identity.py` writes a host in ASCII (IDNA) after `_domain_allowed` compared it as text with the domains of the
  request and the host of the page, neither of which is rewritten: a domain in another alphabet matches only links that
  are spelled like it. `SiteOf` is the host, whichever way it is spelled.
* Pages of a dedicated sitemap may be at depth 1 when `max_depth` is 0 (`CrawlStaysInside` says so).
* JSON-LD, tables, microdata and microformats that are cut say so in a summary and not by `partial`; a document
  without a body is an error without `partial` for PDF and structured data, and `partial` for office files, gzip and KMZ.
* `evidence_status.py` bounds the expansion "without discarding facts", but the timeout of the whole task may
  strike during the expansion, and then the facts of the page are discarded with it (`TaskTimesOut`).
* `duplicate_atomic.py` does not branch from duplicates; the area expansion runs before it, the curated
  and follow-up ones after its early return.
* `_merge_task_context` changes tasks in place that the working copy shares with the loop, also when that copy is
  discarded.
* Queries of a historical branch are recorded as seen even when their search was interrupted.
* The round robin of `_prioritize_pending` holds between consecutive pages of one tier (`NoGoalStarves`).
* `_expand_research_gaps` of `adaptive_atomic.py` calls a method its supervisor does not have; it is overridden and never runs.
* Stagehand's `_safe_actions` looks at words and not at forms; `max_form_controls` bounds neither Enter nor the options of a
  list; a page whose fetch was blocked is opened by the Browser Use agent all the same.
* `consumer_delivery.py` follows a replaced observation one step: in a chain of duplicates evidence would name one that is not
  delivered.
