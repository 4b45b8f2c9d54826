---------------------------- MODULE ArchiveTimeline ----------------------------
(* The history of one page in the archive: a task asks the index for its captures      *)
(* (history/wayback.py, sources/wayback.py), each capture becomes a task, oldest first,   *)
(* and what it holds is compared with the capture before it that is stored                *)
(* (sources/historical_web.py, history/timeline.py).  A task is stored as a whole or not   *)
(* at all (orchestrator/atomic.py).                                                     *)
EXTENDS Integers, Sequences, FiniteSets, SequencesExt, Sorting

CONSTANTS
    Capture,        \* timestamps of captures, 1 .. n
    Thing,          \* keys of the entities that a page declares, in their order
    Article,        \* keys of articles that are found in the text of a page
    Serves,         \* what the archive may answer to the fetch of a capture
    Listing,        \* rows that the index may answer, sequences of captures
    CaptureLimit,   \* wayback_max_captures
    ChangeLimit,    \* max_entity_changes
    IndexRetries,   \* direct_provider_max_retries
    MaxStops        \* bound: attempts that end before a commit

\* A page is none or has a hash; near: the page itself matches the territory; things: the
\* fields of each entity or "gone"; articles: those in its text.
Gone     == "gone"
Contents == [page : {"none", "old", "new"}, near : BOOLEAN, things : [Thing -> {Gone, "a", "b"}],
             articles : SUBSET Article]

ASSUME TimelineAssumption ==
    /\ IsFiniteSet(Capture) /\ Capture = 1 .. Cardinality(Capture)
    /\ Thing \subseteq Nat /\ Article \subseteq Nat \ Thing
    /\ Serves \subseteq Contents
    /\ \A content \in Serves : content.page = "none" => content.articles = {}
    /\ Listing \subseteq Seq(Capture)
    /\ CaptureLimit \in Nat \ {0} /\ ChangeLimit \in Nat \ {0} /\ IndexRetries \in Nat /\ MaxStops \in Nat

VARIABLES
    indexTries,     \* requests to the index that were answered "later"; -1 when it is done
    archived,       \* captures that wait, as pending_tasks has them
    unsaved,        \* what was made of the first of them and is not stored
    timeline,       \* what is stored of each capture
    stops

timelineVars == <<indexTries, archived, unsaved, timeline, stops>>

Changes  == SUBSET [of : Thing \cup Article, from : {Gone, "a", "b"}, to : {Gone, "a", "b"}]

\* before: the capture that was compared with, or 0; says: change_type of the page version;
\* echo: the changes match the territory.
NotStored == [stored |-> FALSE]
Entry0    == [stored : {TRUE}, content : Contents, before : Capture \cup {0}, changes : Changes, cut : BOOLEAN,
              says : {"nothing", "first", "changed", "unchanged"}, echo : BOOLEAN]

TimelineTypeOK ==
    /\ indexTries \in -1 .. IndexRetries
    /\ archived \in Seq(Capture)
    /\ timeline \in [Capture -> Entry0 \cup {NotStored}]
    /\ unsaved \in Entry0 \cup {NotStored}
    /\ stops \in 0 .. MaxStops

TimelineInit ==
    /\ indexTries = 0 /\ archived = <<>> /\ unsaved = NotStored /\ stops = 0
    /\ timeline = [c \in Capture |-> NotStored]

--------------------------------------------------------------------------------
(* The index. *)

(* _parse_payload: every capture once, as many as the limit. *)
FirstRows(rows)   == {i \in DOMAIN rows : \A j \in 1 .. i - 1 : rows[j] # rows[i]}
FewCaptures(rows) ==
    {rows[i] : i \in {n \in FirstRows(rows) : Cardinality(FirstRows(rows) \cap (1 .. n)) <= CaptureLimit}}

(* extract(): a task for each, oldest first. *)
OldestFirst(rows) == Ascending(FewCaptures(rows))

IndexLists(rows) ==
    /\ indexTries >= 0
    /\ indexTries' = -1
    /\ archived' = OldestFirst(rows)
    /\ UNCHANGED <<unsaved, timeline, stops>>

(* A gateway error or "too many requests", with a delay that is not too long. *)
IndexIsBusy ==
    /\ indexTries >= 0 /\ indexTries < IndexRetries
    /\ indexTries' = indexTries + 1
    /\ UNCHANGED <<archived, unsaved, timeline, stops>>

(* No retry is left or allowed, or the index refuses: there are no captures. *)
IndexFails ==
    /\ indexTries >= 0
    /\ indexTries' = -1
    /\ UNCHANGED <<archived, unsaved, timeline, stops>>

--------------------------------------------------------------------------------
(* Captures. *)

IsEmpty(content) == content.page = "none" /\ \A k \in Thing : content.things[k] = Gone

(* A capture is found in the repository by the archive mark of any of its observations;    *)
(* the changes have the mark if they match the territory (intent_evidence_web.py).         *)
IsFound(c) ==
    LET e == timeline[c]
    IN e.stored /\ (~IsEmpty(e.content) \/ (e.changes # {} /\ e.echo))

CaptureBefore(c) ==
    LET earlier == {b \in Capture : b < c /\ IsFound(b)}
    IN IF earlier = {} THEN 0 ELSE CHOOSE b \in earlier : \A d \in earlier : d <= b

(* _primary: a page that matches the territory is stored as a version, not as a web page. *)
HasPrimary(b) == b # 0 /\ timeline[b].content.page # "none" /\ ~timeline[b].content.near

PageVersion(content, b) ==
    CASE content.page = "none" -> "nothing"
      [] content.page # "none" /\ ~HasPrimary(b) -> "first"
      [] OTHER -> IF timeline[b].content.page # content.page THEN "changed" ELSE "unchanged"

(* The entities of a capture are compared before the articles of its text are made         *)
(* (atomic_content_web.py extends the adapter from outside); the capture before it is read   *)
(* from the repository and has its own, so each of them is reported as gone.                *)
DeclaredChanges(content, b) ==
    {[of |-> k, from |-> timeline[b].content.things[k], to |-> content.things[k]] :
       k \in {k \in Thing : timeline[b].content.things[k] # content.things[k]}}

ArticlesMissed(b) == {[of |-> k, from |-> "a", to |-> Gone] : k \in timeline[b].content.articles}

AllChanges(content, b) == IF b = 0 THEN {} ELSE DeclaredChanges(content, b) \cup ArticlesMissed(b)

(* Sorted by key, as many as the budget; more make the result partial. *)
WithinBudget(S) == {x \in S : Cardinality({y \in S : y.of <= x.of}) <= ChangeLimit}

Derived(c, content, echo) ==
    LET b   == CaptureBefore(c)
        all == AllChanges(content, b)
    IN [stored |-> TRUE, content |-> content, before |-> b, says |-> PageVersion(content, b),
        changes |-> WithinBudget(all), cut |-> WithinBudget(all) # all, echo |-> echo]

(* A fetch that is refused has no content; it is compared all the same. *)
ReadCapture(content, echo) ==
    /\ archived # <<>> /\ unsaved = NotStored
    /\ echo => IsEmpty(content)
    /\ unsaved' = Derived(Head(archived), content, echo)
    /\ UNCHANGED <<indexTries, archived, timeline, stops>>

CommitCapture ==
    /\ unsaved # NotStored
    /\ timeline' = [timeline EXCEPT ![Head(archived)] = unsaved]
    /\ archived' = Tail(archived)
    /\ unsaved' = NotStored
    /\ UNCHANGED <<indexTries, stops>>

(* The task fails or takes too long: it is recorded and not tried again. *)
CaptureFails ==
    /\ archived # <<>> /\ unsaved = NotStored
    /\ archived' = Tail(archived)
    /\ UNCHANGED <<indexTries, unsaved, timeline, stops>>

(* The attempt ends: what was not stored is forgotten, and the index is asked afresh. *)
AttemptStops ==
    /\ stops < MaxStops /\ (unsaved # NotStored \/ indexTries > 0)
    /\ stops' = stops + 1
    /\ indexTries' = IF indexTries > 0 THEN 0 ELSE indexTries
    /\ unsaved' = NotStored
    /\ UNCHANGED <<archived, timeline>>

TimelineNext ==
    \/ \E rows \in Listing : IndexLists(rows)
    \/ IndexIsBusy \/ IndexFails
    \/ \E content \in Serves, echo \in BOOLEAN : ReadCapture(content, echo)
    \/ CommitCapture \/ CaptureFails \/ AttemptStops

--------------------------------------------------------------------------------
Replayed(changes, things) ==
    [k \in Thing |-> IF \E x \in changes : x.of = k
                     THEN (CHOOSE x \in changes : x.of = k).to ELSE things[k]]

\* What a reader knows after the captures up to c, who starts from the first of them that is
\* found and follows the changes.
Story[c \in 0 .. Cardinality(Capture)] ==
    IF c = 0 THEN [k \in Thing |-> Gone]
    ELSE IF ~IsFound(c) THEN Story[c - 1]
    ELSE IF timeline[c].before = 0 THEN timeline[c].content.things
    ELSE Replayed(timeline[c].changes, Story[c - 1])

(* However captures fail and attempts end, each is compared with the one right before it     *)
(* among all that are stored in the end ("соседними committed captures"), and the changes     *)
(* of the declared entities lead from the first capture to every later one unless the        *)
(* budget, which articles take from as well, has cut them (historical_web.py, timeline.py).   *)
TimelineIsConsistent ==
    \A c \in Capture : timeline[c].stored =>
      /\ timeline[c].before = CaptureBefore(c)
      /\ IsFound(c) /\ (\A b \in Capture : b <= c /\ timeline[b].stored => ~timeline[b].cut)
           => Story[c] = timeline[c].content.things

(* What is said to have disappeared between two captures is not in the later one            *)
(* ("disappeared_between_captures", docs/HISTORICAL_TIMELINES.md); historical_web.py says so   *)
(* of every article of the earlier capture.                                                *)
GoneIsGone ==
    \A c \in Capture : timeline[c].stored =>
      \A x \in timeline[c].changes : x.to = Gone =>
        IF x.of \in Article THEN x.of \notin timeline[c].content.articles
        ELSE timeline[c].content.things[x.of] = Gone
================================================================================
