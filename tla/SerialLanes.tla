------------------------------ MODULE SerialLanes ------------------------------
(***************************************************************************)
(* A collection whose research profile has mandatory lanes.                *)
(*                                                                         *)
(* orchestrator/mandatory_coverage.py works off the inventory of streets,  *)
(* then one lane per source family, then one per public map, strictly one  *)
(* after the other, under an emergency budget; only then it opens a small  *)
(* budget for everything else.  orchestrator/toolpack_aware.py holds the   *)
(* lanes: a lane discovers its tasks once, tags them in the common queue   *)
(* and fetches a limited number of pages.  All of it is resumed from the   *)
(* stored record after an attempt that ended early.                        *)
(*                                                                         *)
(* The statuses before and after, the planning and the loop over the       *)
(* ordinary tasks are in CollectionRun; here a collection is open, closed  *)
(* or cancelled, and an ordinary task is fetched in one step.  The queue   *)
(* is a set of tagged tasks: the order inside of a lane decides nothing of *)
(* what is stated here.                                                    *)
(***************************************************************************)
EXTENDS Naturals, FiniteSets

CONSTANTS
    LaneTask,       \* dedupe keys of source tasks
    Street,         \* the task that takes the inventory of streets
    Seeds,          \* tasks that may be queued before the lanes begin
    Contours,       \* number of source families of the profile
    Maps,           \* number of public maps of the profile
    Found,          \* the tasks that the discovery of a lane may find
    Base,           \* max_destinations + 1 of a family, page limit of a map
    Children,       \* the tasks that the result of a task may disclose
    Requested,      \* constraints.max_pages of the request
    Emergency,      \* emergency_max_pages of the profile
    OptionalPages,  \* optional_pages of the profile
    MaxCrashes,     \* bound on the attempts that end early
    Nil

Lanes == Contours + Maps
Lane  == 1..Lanes

\* The lane of the street inventory comes before all others.
Streets == 0

ASSUME SerialLanesAssumption ==
    /\ IsFiniteSet(LaneTask)
    /\ Street \in LaneTask
    /\ Seeds \subseteq LaneTask
    /\ Contours \in Nat \ {0} /\ Maps \in Nat
    /\ Found \in [Lane -> SUBSET (LaneTask \ {Street})]
    /\ Base \in [Lane -> Nat \ {0}]
    /\ Children \in [LaneTask -> SUBSET (LaneTask \ {Street})]
    /\ Requested \in Nat \ {0}
    /\ Emergency \in Nat /\ Emergency > Lanes
    /\ OptionalPages \in Nat
    /\ MaxCrashes \in Nat
    /\ Nil \notin LaneTask /\ Nil \notin Nat

VARIABLES
    row,      \* the stored record
    place,    \* where the current attempt is
    copy,     \* its copy of the record, less the tasks it took out of the queue
    lane,     \* the lane it works off
    budget,   \* the pages that the lane may still fetch in this attempt
    fetching, \* the task it is fetching
    expired,  \* the time budget that the stored start belongs to is used up
    crashes

attempt   == <<place, copy, lane, budget, fetching>>
lanesVars == <<row, place, copy, lane, budget, fetching, expired, crashes>>

-------------------------------------------------------------------------------
Section == {"streets", "families", "maps"}

\* A task in the queue, with the lane that it is tagged with.
Entry == (Lane \cup {Nil, Streets}) \X LaneTask

\* attempted, complete: flags of a lane; done: flags of the sections.
LaneRecord == [status : {"open", "closed", "cancelled"}, done : SUBSET Section,
               attempted : SUBSET Lane, complete : SUBSET Lane, optional : BOOLEAN,
               pages : Nat, started : BOOLEAN, pending : SUBSET Entry, visited : SUBSET LaneTask]

NewLaneRecord(seeds) ==
    [status |-> "open", done |-> {}, attempted |-> {}, complete |-> {}, optional |-> FALSE,
     pages |-> Requested, started |-> FALSE, pending |-> {Nil} \X seeds, visited |-> {}]

LanesInit ==
    /\ \E seeds \in SUBSET Seeds : row = NewLaneRecord(seeds)
    /\ place = "idle"
    /\ copy = NewLaneRecord({})
    /\ lane = Nil
    /\ budget = 0
    /\ fetching = Nil
    /\ expired = FALSE
    /\ crashes = 0

\* The attempt is over; what it held in memory is gone.
End ==
    /\ place' = "idle"
    /\ copy' = NewLaneRecord({})
    /\ lane' = Nil
    /\ budget' = 0
    /\ fetching' = Nil

\* The attempt goes on at the given place, in the given lane.
GoOn(r, next, l, b) ==
    /\ place' = next
    /\ copy' = r
    /\ lane' = l
    /\ budget' = b
    /\ fetching' = Nil

\* update_collection: a cancelled row ends the attempt.
Store(r, next, l, b) ==
    \/ /\ row.status = "cancelled"
       /\ End
       /\ UNCHANGED row
    \/ /\ row.status # "cancelled"
       /\ row' = r
       /\ IF next = "idle" THEN End ELSE GoOn(r, next, l, b)

Queue(r, l) == {t \in LaneTask : <<l, t>> \in r.pending}

Untagged(r, l) == {e \in r.pending : e[1] # l}

-------------------------------------------------------------------------------
(***************************************************************************)
(* The lanes, one after the other.                                         *)
(***************************************************************************)
\* Mutant: a recovered attempt gets the emergency limits again.
BeginAgain ==
    /\ place = "idle"
    /\ row.status = "open"
    /\ Store([row EXCEPT !.pages = Emergency], "streets", Nil, 0)
    /\ UNCHANGED <<expired, crashes>>

\* An attempt begins: the limits of the request give way to the emergency
\* limits, unless the lanes are over.
Begin ==
    /\ place = "idle"
    /\ row.status = "open"
    /\ Store([row EXCEPT !.pages = IF row.optional THEN @ ELSE Emergency],
             "streets", Nil, 0)
    /\ UNCHANGED <<expired, crashes>>

\* The street inventory: its task leaves the common queue for a lane, and
\* without a task (not in scope, or fetched before) the section is over.
TakeStreets ==
    /\ place = "streets"
    /\ "streets" \notin copy.done
    /\ <<Nil, Street>> \in copy.pending
    /\ GoOn([copy EXCEPT !.pending = (@ \ {<<Nil, Street>>}) \cup {<<Streets, Street>>}],
            "enter", Streets, 0)
    /\ UNCHANGED <<row, expired, crashes>>

StreetsDone ==
    /\ place = "streets"
    /\ \/ /\ "streets" \in copy.done
          /\ GoOn(copy, "lanes", Nil, 0)
          /\ UNCHANGED row
       \/ /\ "streets" \notin copy.done
          /\ <<Nil, Street>> \notin copy.pending
          /\ Store([copy EXCEPT !.done = @ \cup {"streets"}], "lanes", Nil, 0)
    /\ UNCHANGED <<expired, crashes>>

LanesOf(s) == {l \in Lane : s = IF l <= Contours THEN "families" ELSE "maps"}

\* The families come first.
CurrentSection(r) == IF "families" \in r.done THEN "maps" ELSE "families"

\* Mutant: the next lane is opened while an earlier one is worked off.
TurnAttempted(r, l) ==
    /\ l \in LanesOf(CurrentSection(r)) \ r.complete
    /\ \A k \in LanesOf(CurrentSection(r)) : k < l => k \in r.attempted

\* It is the turn of the first lane of the section that is not complete.
Turn(r, l) ==
    /\ l \in LanesOf(CurrentSection(r)) \ r.complete
    /\ \A k \in LanesOf(CurrentSection(r)) : k < l => k \in r.complete

\* Mutant: what was found takes the place of the common queue.
OpenLaneAlone ==
    /\ place = "lanes"
    /\ CurrentSection(copy) \notin copy.done
    /\ \E l \in Lane :
          /\ Turn(copy, l) /\ l \notin copy.attempted
          /\ \E found \in SUBSET Found[l] :
                Store([copy EXCEPT !.attempted = @ \cup {l}, !.pending = {l} \X found],
                      "lanes", Nil, 0)
    /\ UNCHANGED <<expired, crashes>>

\* A lane asks discovery once; what it found is stored with its tag.
OpenLane ==
    /\ place = "lanes"
    /\ CurrentSection(copy) \notin copy.done
    /\ \E l \in Lane :
          /\ Turn(copy, l) /\ l \notin copy.attempted
          /\ \E found \in SUBSET Found[l] :
                Store([copy EXCEPT !.attempted = @ \cup {l},
                                   !.pending = Untagged(copy, l) \cup ({l} \X found)],
                      "lanes", Nil, 0)
    /\ UNCHANGED <<expired, crashes>>

\* The lane has tasks, fresh ones or those of an attempt that ended early.
TakeLane ==
    /\ place = "lanes"
    /\ CurrentSection(copy) \notin copy.done
    /\ \E l \in copy.attempted :
          /\ Turn(copy, l) /\ Queue(copy, l) # {}
          /\ GoOn(copy, "enter", l, 0)
    /\ UNCHANGED <<row, expired, crashes>>

\* The lane found nothing, or it is worked off.
CloseLane ==
    /\ place = "lanes"
    /\ CurrentSection(copy) \notin copy.done
    /\ \E l \in copy.attempted :
          /\ Turn(copy, l) /\ Queue(copy, l) = {}
          /\ Store([copy EXCEPT !.complete = @ \cup {l}], "lanes", Nil, 0)
    /\ UNCHANGED <<expired, crashes>>

\* All lanes of the section were passed.
SectionDone ==
    /\ place = "lanes"
    /\ CurrentSection(copy) \notin copy.done
    /\ LanesOf(CurrentSection(copy)) \subseteq copy.complete
    /\ Store([copy EXCEPT !.done = @ \cup {CurrentSection(copy)}], "lanes", Nil, 0)
    /\ UNCHANGED <<expired, crashes>>

-------------------------------------------------------------------------------
(***************************************************************************)
(* One lane.                                                               *)
(***************************************************************************)
Lesser(a, b)  == IF a < b THEN a ELSE b
Greater(a, b) == IF a < b THEN b ELSE a

FreePages(r) == IF Cardinality(r.visited) < r.pages THEN r.pages - Cardinality(r.visited) ELSE 0

\* A lane may always fetch a page for every task it begins with and for one
\* that this task discloses.
PageLimit(r, l) == IF l = Streets THEN 1 ELSE Greater(Base[l], 2 * Cardinality(Queue(r, l)))

\* Mutant: nothing is kept for the lanes that come later.
LaneBudgetAll(r, l) == Lesser(PageLimit(r, l), FreePages(r))

\* One page is kept for every lane that comes later, but not the last one.
LaneBudget(r, l) ==
    LET free    == FreePages(r)
        reserve == Lesser(Lanes - l, IF free = 0 THEN 0 ELSE free - 1)
    IN  Lesser(PageLimit(r, l), free - reserve)

\* The time budget starts with the first lane that has a task.
EnterLane ==
    /\ place = "enter"
    /\ \/ /\ copy.started
          /\ GoOn(copy, "work", lane, LaneBudget(copy, lane))
          /\ UNCHANGED row
       \/ /\ ~copy.started /\ row.status = "cancelled"
          /\ End
          /\ UNCHANGED row
       \/ /\ ~copy.started /\ row.status # "cancelled"
          /\ row' = [row EXCEPT !.started = TRUE]
          /\ GoOn([copy EXCEPT !.started = TRUE], "work", lane, LaneBudget(copy, lane))
    /\ UNCHANGED <<expired, crashes>>

MayFetch == Queue(copy, lane) # {} /\ budget > 0 /\ FreePages(copy) > 0

\* Take a task out of the lane, and skip it when it was visited.
PickTask ==
    /\ place = "work"
    /\ MayFetch /\ ~expired /\ row.status # "cancelled"
    /\ \E t \in Queue(copy, lane) :
          /\ place' = IF t \in copy.visited THEN "work" ELSE "fetch"
          /\ fetching' = IF t \in copy.visited THEN Nil ELSE t
          /\ copy' = [copy EXCEPT !.pending = @ \ {<<lane, t>>}]
    /\ UNCHANGED <<row, lane, budget, expired, crashes>>

\* The task returned a result: its page and the tasks it disclosed are
\* committed together.  An open circuit takes tasks out of the lane.
Succeed ==
    /\ place = "fetch"
    /\ \E kept \in SUBSET Queue(copy, lane), kids \in SUBSET Children[fetching] :
          Store([copy EXCEPT !.visited = @ \cup {fetching},
                             !.pending = Untagged(copy, lane)
                                           \cup ({lane} \X (kept \cup (kids \ copy.visited)))],
                "work", lane, budget - 1)
    /\ UNCHANGED <<expired, crashes>>

\* The source raised an error, ran into a timeout, or robots.txt refuses.
Fail ==
    /\ place = "fetch"
    /\ Store([copy EXCEPT !.visited = @ \cup {fetching}], "work", lane, budget - 1)
    /\ UNCHANGED <<expired, crashes>>

\* Mutant: what the lane has left stays in the queue.
LeaveRest ==
    /\ place = "work"
    /\ ~MayFetch \/ expired \/ row.status = "cancelled"
    /\ Store(copy, IF lane = Streets THEN "streets" ELSE "lanes", Nil, 0)
    /\ UNCHANGED <<expired, crashes>>

\* The lane is empty, at its limit, or out of time: what is left of it is dropped.
Leave ==
    /\ place = "work"
    /\ ~MayFetch \/ expired \/ row.status = "cancelled"
    /\ Store([copy EXCEPT !.pending = Untagged(copy, lane)],
             IF lane = Streets THEN "streets" ELSE "lanes", Nil, 0)
    /\ UNCHANGED <<expired, crashes>>

-------------------------------------------------------------------------------
(***************************************************************************)
(* After the lanes.                                                        *)
(***************************************************************************)
\* Mutant: the emergency ceiling is no limit for the optional budget.
ActivateUnbounded ==
    /\ place = "lanes"
    /\ {"families", "maps"} \subseteq copy.done
    /\ ~copy.optional
    /\ Store([copy EXCEPT !.optional = TRUE, !.started = TRUE,
                          !.pages = Cardinality(copy.visited) + OptionalPages + 1],
             "optional", Nil, 0)
    /\ expired' = (expired /\ row.status = "cancelled")
    /\ UNCHANGED crashes

\* Pages and time are limited anew, for what the lanes left to do.
Activate ==
    /\ place = "lanes"
    /\ {"families", "maps"} \subseteq copy.done
    /\ ~copy.optional
    /\ Store([copy EXCEPT !.optional = TRUE, !.started = TRUE,
                          !.pages = Greater(1, Lesser(Emergency,
                                       Cardinality(copy.visited) + OptionalPages))],
             "optional", Nil, 0)
    /\ expired' = (expired /\ row.status = "cancelled")
    /\ UNCHANGED crashes

\* A recovered attempt finds the lanes over.
Resume ==
    /\ place = "lanes"
    /\ {"families", "maps"} \subseteq copy.done
    /\ copy.optional
    /\ GoOn(copy, "optional", Nil, 0)
    /\ UNCHANGED <<row, expired, crashes>>

\* An ordinary task, whatever its tag: skipped when visited, fetched otherwise.
OptionalTask ==
    /\ place = "optional"
    /\ FreePages(copy) > 0 /\ ~expired
    /\ \E e \in copy.pending :
          \/ /\ e[2] \in copy.visited
             /\ GoOn([copy EXCEPT !.pending = @ \ {e}], "optional", Nil, 0)
             /\ UNCHANGED row
          \/ /\ e[2] \notin copy.visited
             /\ \E kids \in SUBSET Children[e[2]] :
                   Store([copy EXCEPT !.visited = @ \cup {e[2]},
                                      !.pending = (@ \ {e}) \cup ({Nil} \X (kids \ copy.visited))],
                         "optional", Nil, 0)
    /\ UNCHANGED <<expired, crashes>>

Close ==
    /\ place = "optional"
    /\ copy.pending = {} \/ FreePages(copy) = 0 \/ expired
    /\ Store([copy EXCEPT !.status = "closed"], "idle", Nil, 0)
    /\ UNCHANGED <<expired, crashes>>

-------------------------------------------------------------------------------
(***************************************************************************)
(* What may happen at any time.                                            *)
(***************************************************************************)
\* An exception outside of the source-error handlers: the latest record is closed.
LanesFail ==
    /\ place # "idle"
    /\ crashes < MaxCrashes
    /\ crashes' = crashes + 1
    /\ Store([row EXCEPT !.status = "closed"], "idle", Nil, 0)
    /\ UNCHANGED expired

\* The attempt ends early: lease lost, storage error, stop, crash.
LanesCrash ==
    /\ place # "idle"
    /\ crashes < MaxCrashes
    /\ crashes' = crashes + 1
    /\ End
    /\ UNCHANGED <<row, expired>>

Cancel ==
    /\ row.status = "open"
    /\ row' = [row EXCEPT !.status = "cancelled"]
    /\ UNCHANGED <<attempt, expired, crashes>>

\* The time budget runs out.
TimeIsUp ==
    /\ row.started /\ ~expired
    /\ expired' = TRUE
    /\ UNCHANGED <<row, attempt, crashes>>

Step == \/ Begin \/ TakeStreets \/ StreetsDone
        \/ OpenLane \/ TakeLane \/ CloseLane \/ SectionDone
        \/ EnterLane \/ PickTask \/ Succeed \/ Fail \/ Leave
        \/ Activate \/ Resume \/ OptionalTask \/ Close

LanesNext == Step \/ LanesFail \/ LanesCrash \/ Cancel \/ TimeIsUp

LanesSpec == LanesInit /\ [][LanesNext]_lanesVars

\* Some worker attempts an open collection, and an attempt goes on.
LanesFairSpec == LanesSpec /\ WF_lanesVars(Step)

-------------------------------------------------------------------------------
(***************************************************************************)
(* Properties.                                                             *)
(***************************************************************************)
\* The record keeps its shape; only a running fetch has a task.
LanesTypeOK ==
    /\ row \in LaneRecord
    /\ place \in {"idle", "streets", "enter", "lanes", "work", "fetch", "optional"}
    /\ copy \in LaneRecord
    /\ lane \in Lane \cup {Streets, Nil}
    /\ place \in {"enter", "work", "fetch"} <=> lane # Nil
    /\ budget \in Nat
    /\ fetching \in LaneTask \cup {Nil}
    /\ place = "fetch" <=> fetching # Nil
    /\ expired \in BOOLEAN
    /\ crashes \in 0..MaxCrashes

\* The lanes follow each other, whichever attempts they are made of: a lane asks
\* discovery after all earlier lanes are complete, only the lane in between has
\* tasks in the common queue, and ordinary work begins after the last one
\* (mandatory_coverage.py: a strict sequence, all of it mandatory).
LanesAreSerial ==
    /\ \A l \in row.attempted : \A k \in Lane : k < l => k \in row.complete
    /\ row.complete \subseteq row.attempted
    /\ row.attempted # {} => "streets" \in row.done
    /\ \A e \in row.pending : e[1] \in Lane => e[1] \in row.attempted \ row.complete
    /\ row.optional => row.complete = Lane

\* Nothing is fetched beyond the ceiling of the record: the emergency limit while
\* lanes are left, and what the lanes took plus the optional pages afterwards.
PagesWithinCeiling ==
    row.visited # {} => /\ Cardinality(row.visited) <= row.pages
                        /\ row.pages <= Emergency

\* A page is kept for every lane that was not opened yet, less one for every
\* attempt that ended early (the reserve of _process_serial_lane).
PagesReserved ==
    ~row.optional =>
        Cardinality(row.visited) + Cardinality(Lane \ row.attempted) <= Emergency + crashes

\* An ordinary task that is queued before or between the lanes stays queued until
\* the lanes are over: no lane takes it out or overwrites it.
OrdinaryTasksKept ==
    [][~row.optional =>
         \A t \in LaneTask \ {Street} :
             <<Nil, t>> \in row.pending => <<Nil, t>> \in row'.pending]_lanesVars

\* The optional budget is opened once: no later attempt moves its limit or takes
\* its start back (comment in _apply_research_profile_execution_guard).
BudgetOpensOnce ==
    [][row.optional => /\ row'.optional
                       /\ row'.pages = row.pages
                       /\ expired => expired']_lanesVars

\* The mandatory phase ends: sooner or later the ordinary budget is open or the
\* collection is over, if only finitely many attempts end early.
MandatoryEnds == <>(row.optional \/ row.status # "open")

\* docs/ARCHITECTURE.md: no mandatory lane is skipped because of a recovery
\* checkpoint. A lane that has tasks, and nothing of which was fetched so far,
\* may fetch one page at least.
RecoverySkipsNoLane ==
    [][place = "enter" /\ place' = "work" /\ lane \in Lane /\ Found[lane] \cap copy.visited = {}
         => budget' > 0]_lanesVars
=============================================================================
