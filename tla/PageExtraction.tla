----------------------------- MODULE PageExtraction -----------------------------
(* What the web source makes of one fetched response: the stages that the adapters  *)
(* of sources/*_web.py add one above the other, each working on the observations and *)
(* the evidence of those below; what a page of a public map is replaced by when it    *)
(* lacks the facts that were asked for; and the coverage that orchestrator/atomic.py   *)
(* records.  The feeds (sources/rss.py, sources/json_feed.py) are read the same way.   *)
EXTENDS Integers, Sequences, FiniteSets

CONSTANTS
    Declared,       \* lists of entities that a page may declare in JSON-LD
    Items,          \* lists of items that it may declare in microdata
    MapRounds       \* max_semantic_agent_rounds

(* The types that classify_schema_entity gives, and those of the stages.              *)
SchemaTypes == {"structured_entity", "review", "comment", "post", "publication", "dataset", "event",
                "organization", "person", "place", "product", "service"}
EntityTypes == SchemaTypes \cup {"document", "page_metadata", "image", "historical_change"}

\* What the stages name themselves, and what a page may.
OwnNames == {"page", "section", "table", "entry", "point", "image", "change", "article"}
Declares == UNION {{list[i].name : i \in DOMAIN list} : list \in Declared \cup Items}
Entity   == [name : Declares, type : SchemaTypes, text : BOOLEAN]

(* The name of an entity stands for its content: with the type it decides the text, and it  *)
(* says whether it was JSON-LD, microdata or neither.                                     *)
ASSUME ExtractionAssumption ==
    /\ \A list \in Declared \cup Items :
         /\ list \in Seq(Entity)
         /\ \A i \in DOMAIN list : list[i].name \notin OwnNames
         /\ \A i, j \in DOMAIN list :
              list[i].name = list[j].name /\ list[i].type = list[j].type => list[i].text = list[j].text
    /\ \A list \in Declared, more \in Items : \A i \in DOMAIN list, j \in DOMAIN more :
         list[i].name # more[j].name
    /\ MapRounds \in Nat

VARIABLES
    response,           \* the response that was fetched
    visitTask,      \* what the task says of it
    stage,          \* fetched, viewed, delivered
    rounds,         \* rounds of the agent
    context,        \* a review view or an agent was blocked
    result,         \* SourceResult
    coverage        \* status of the coverage entry

extractionVars == <<response, visitTask, stage, rounds, context, result, coverage>>

AtomicTypes == {"publication", "post", "comment", "review"}
Amount      == {"none", "some", "more"}     \* more: than a limit allows

(* A page with its declared entities, a section of microformats, metadata and a table,  *)
(* the images the goal asks for, articles and linked cards; a document with its         *)
(* geometry; or a feed.                                                                *)
HtmlPages ==
    [media : {"html"}, declared : Declared, items : Items,
     section : {"none", "review", "publication"}, tables : BOOLEAN, images : Amount,
     articles : Amount, cards : BOOLEAN]
Documents ==
    [media : {"pdf", "structured", "docx", "xls", "gzip", "kmz"}, body : BOOLEAN,
     parse : {"ok", "cut", "failed", "empty"}, points : {"none", "geojson", "kml", "more kml"}]
Feeds == [media : {"rss", "json feed"}, parse : {"ok", "cut", "failed", "limit", "invalid item"}]
Blocked   == [media |-> "blocked"]     \* by the site
Responses == {Blocked} \cup HtmlPages \cup Documents \cup Feeds

(* capture: a Wayback capture whose facts match the territory or not; changes: what the *)
(* timeline derives from the captures before it.                                       *)
VisitTasks == [capture : {"none", "plain", "relevant"}, changes : Amount, onMap : BOOLEAN,
               shell : BOOLEAN, goal : BOOLEAN]

--------------------------------------------------------------------------------
(* An observation is identified by its entity type and its content; evidence by the    *)
(* observation it is about and its text.                                              *)

Names == OwnNames \cup Declares
Kinds == {"web_page", "pdf_document", "structured_data", "office_document_file", "office_document",
          "kml_point", "geojson_point", "json_ld", "microdata", "page_metadata", "microformat",
          "html_table", "feed_entry", "image_reference", "historical_change", "html_atomic",
          "historical_page_version"}
Marks == {"information", "navigation", "superseded"}
Codes == {"extraction failed", "extraction truncated", "no text", "format not parsed", "body unavailable",
          "placemark limit", "invalid feed", "feed limit", "feed truncated", "invalid item", "item limit",
          "image limit", "change budget", "article limit"}

Observation == [id : EntityTypes \X Names, kind : Kinds, text : BOOLEAN, marks : SUBSET Marks]
Evidence    == [of : EntityTypes \X Names, name : Names, marks : SUBSET Marks]
Result      == [seen : Seq(Observation), evidence : SUBSET Evidence, errors : SUBSET Codes,
                partial : BOOLEAN, blocked : BOOLEAN]

Obs(type, name, kind, text) == [id |-> <<type, name>>, kind |-> kind, text |-> text, marks |-> {}]
Ev(o)         == [of |-> o.id, name |-> o.id[2], marks |-> {}]
Nothing       == [seen |-> <<>>, evidence |-> {}, errors |-> {}, partial |-> FALSE, blocked |-> FALSE]
Facts(r)      == {r.seen[i] : i \in DOMAIN r.seen}
With(r, list) == [r EXCEPT !.seen = @ \o list, !.evidence = @ \cup {Ev(list[i]) : i \in DOMAIN list}]
Cut(r, cut, code) == IF cut THEN [r EXCEPT !.partial = TRUE, !.errors = @ \cup {code}] ELSE r
Refused(codes) == [Nothing EXCEPT !.errors = codes]
If(condition, list) == IF condition THEN list ELSE <<>>

(* _mark_navigation_only and the like: observations and the evidence about them. *)
Flagged(x, mark) == [x EXCEPT !.marks = @ \cup {mark}]

Marked(r, mark, which) ==
    LET ids == {o.id : o \in which}
    IN [r EXCEPT !.seen = [i \in DOMAIN r.seen |-> IF r.seen[i] \in which THEN Flagged(r.seen[i], mark) ELSE r.seen[i]],
                 !.evidence = {IF v.of \in ids THEN Flagged(v, mark) ELSE v : v \in r.evidence}]

\* Mutant: the evidence keeps the identity the observation had.
RenamedAlone(r, i, type) == [r EXCEPT !.seen[i].id = <<type, r.seen[i].id[2]>>]

(* _apply_schema_type: the identity follows the type, and the evidence the identity.    *)
Retyped(r, i, type) ==
    LET old == r.seen[i].id
        new == <<type, old[2]>>
    IN [r EXCEPT !.seen[i].id = new,
                 !.evidence = {IF v.of = old THEN [v EXCEPT !.of = new] ELSE v : v \in @}]

--------------------------------------------------------------------------------
(* Documents: one observation for the whole of it. *)

Whole(type, kind, errors) ==
    [With(Nothing, <<Obs(type, "page", kind, TRUE)>>) EXCEPT !.errors = errors, !.partial = errors # {}]

ParseErrors(p) ==
    CASE p.parse = "failed" -> {"extraction failed"}
      [] p.parse = "cut"    -> {"extraction truncated"}
      [] p.parse = "empty" /\ p.media = "pdf" -> {"no text"}
      [] OTHER -> {}

PdfResult(p)        == Whole("document", "pdf_document", ParseErrors(p))
StructuredResult(p) == Whole("dataset", "structured_data", ParseErrors(p))
OfficeFileResult    == Whole("document", "office_document_file", {"format not parsed"})

DocumentResult(p) ==
    CASE ~p.body                   -> Refused({"body unavailable"})
      [] p.body /\ p.media = "pdf" -> PdfResult(p)
      [] OTHER                     -> StructuredResult(p)

(* _retag_ooxml_result *)
Retagged(r) == [Retyped(r, 1, "document") EXCEPT !.seen[1].kind = "office_document"]

OfficeResult(p) ==
    CASE ~p.body                   -> [Refused({"body unavailable"}) EXCEPT !.partial = TRUE]
      [] p.body /\ p.media = "xls" -> OfficeFileResult
      [] OTHER                     -> Retagged(StructuredResult(p))

(* What a package holds is parsed like a structured document. *)
GzipResult(p) == IF p.body THEN StructuredResult(p)
                 ELSE [Refused({"body unavailable"}) EXCEPT !.partial = TRUE]

HasDataset(p, r) == p.parse # "failed" /\ \E o \in Facts(r) : o.kind = "structured_data"

KmlPoints(p, r) ==
    IF HasDataset(p, r) /\ p.points \in {"kml", "more kml"}
    THEN Cut(With(r, <<Obs("place", "point", "kml_point", FALSE)>>), p.points = "more kml", "placemark limit")
    ELSE r

KmzResult(p) == KmlPoints(p, GzipResult(p))

GeoJsonPoints(p, r) ==
    IF HasDataset(p, r) /\ p.points = "geojson" THEN With(r, <<Obs("place", "point", "geojson_point", FALSE)>>)
    ELSE r

(* The adapters of the formats ask one after the other whether a document is theirs.     *)
FormatResult(p) ==
    CASE p.media = "kmz"             -> KmzResult(p)
      [] p.media \in {"docx", "xls"} -> OfficeResult(p)
      [] p.media = "gzip"            -> KmlPoints(p, GeoJsonPoints(p, GzipResult(p)))
      [] OTHER                       -> KmlPoints(p, GeoJsonPoints(p, DocumentResult(p)))

--------------------------------------------------------------------------------
(* Pages. *)

(* _json_ld_observations and _microdata_observations of the generic adapters.           *)
RawEntities(list) == [i \in DOMAIN list |-> Obs("structured_entity", list[i].name, "json_ld", FALSE)]
RawItems(list)    == [i \in DOMAIN list |-> Obs("structured_entity", list[i].name, "microdata", FALSE)]

(* _apply_schema_fields and what follows it: the text that the vocabulary names.        *)
Described(r, i, entity) == [r EXCEPT !.seen[i].text = entity.text]

(* Every entity takes the type its vocabulary gives it, one after the other.            *)
Typed(r, first, list) ==
    LET upTo[n \in 0 .. Len(list)] ==
          IF n = 0 THEN r
          ELSE Described(Retyped(upTo[n - 1], first + n, list[n].type), first + n, list[n])
    IN upTo[Len(list)]

WithEntities(p, r)  == Typed(With(r, RawEntities(p.declared)), Len(r.seen), p.declared)
WithMicrodata(p, r) == Typed(With(r, RawItems(p.items)), Len(r.seen), p.items)

Metadata(p)     == If(p.tables, <<Obs("page_metadata", "page", "page_metadata", FALSE)>>)
Microformats(p) == If(p.section # "none", <<Obs(p.section, "section", "microformat", TRUE)>>)
Tables(p)       == If(p.tables, <<Obs("dataset", "table", "html_table", FALSE)>>)

PageResult(p) ==
    LET page == WithEntities(p, With(Nothing, <<Obs("document", "page", "web_page", TRUE)>>))
    IN With(With(page, Metadata(p)), Microformats(p))

SemanticResult(p) == WithMicrodata(p, With(PageResult(p), Tables(p)))

--------------------------------------------------------------------------------
(* Feeds: what cannot be parsed safely has no observations. *)

FeedEntry(p) == With(Nothing, <<Obs("publication", "entry", "feed_entry", TRUE)>>)

RssResult(p) ==
    CASE p.parse = "failed" -> Refused({"invalid feed"})
      [] p.parse = "limit"  -> [Refused({"feed limit"}) EXCEPT !.partial = TRUE]
      [] OTHER              -> Cut(FeedEntry(p), p.parse = "cut", "feed truncated")

JsonFeedResult(p) ==
    IF p.parse \in {"failed", "limit"} THEN Refused({"invalid feed"})
    ELSE Cut(Cut(FeedEntry(p), p.parse = "invalid item", "invalid item"), p.parse = "cut", "item limit")

--------------------------------------------------------------------------------
(* What is added above: image_web.py, historical_web.py *)

Images(p, r) ==
    IF p.images = "none" THEN r
    ELSE Cut(With(r, <<Obs("image", "image", "image_reference", FALSE)>>), p.images = "more", "image limit")

(* The changes since the capture before it, if the response is to be a capture: of one    *)
(* that was blocked or has no facts, too.                                               *)
Timeline(t, r) ==
    IF t.capture = "none" \/ t.changes = "none" THEN r
    ELSE Cut(With(r, <<Obs("historical_change", "change", "historical_change", TRUE)>>),
             t.changes = "more", "change budget")

(* extract() up to historical_web.py *)
Extraction(p, t) ==
    CASE p = Blocked             -> Timeline(t, [Nothing EXCEPT !.blocked = TRUE])
      [] p.media = "rss"         -> RssResult(p)
      [] p.media = "json feed"   -> JsonFeedResult(p)
      [] p.media = "html"        -> Timeline(t, Images(p, SemanticResult(p)))
      [] p \in Documents         -> Timeline(t, FormatResult(p))

--------------------------------------------------------------------------------
(* public_map_web.py, intent_evidence_web.py, atomic_content_web.py *)

IsMessage(o) == o.id[1] \in AtomicTypes /\ o.text /\ o.marks = {}

OnMap(t, r) ==
    IF ~t.onMap THEN r ELSE Marked(r, "information", {o \in Facts(r) : ~IsMessage(o)})

(* A capture whose facts match the territory is a version of the page. *)
AsVersion(o) == IF o.kind = "web_page" THEN [o EXCEPT !.kind = "historical_page_version"] ELSE o

Archived(t, r) ==
    IF t.capture # "relevant" THEN r
    ELSE [r EXCEPT !.seen = [i \in DOMAIN r.seen |-> AsVersion(r.seen[i])]]

IsContainer(o)   == o.id[1] = "document" /\ o.kind = "web_page"
NavigationOnly(r) == Marked(r, "navigation", {o \in Facts(r) : IsContainer(o) \/ o.id[1] \in AtomicTypes})
Superseded(r)     == Marked(r, "superseded", {o \in Facts(r) : IsContainer(o)})

Articles(p, r) ==
    LET listed == IF p.cards THEN NavigationOnly(r) ELSE r
    IN IF p.articles = "none" THEN listed
       ELSE Cut(Superseded(With(listed, <<Obs("publication", "article", "html_atomic", TRUE)>>)),
                p.articles = "more", "article limit")

Atomic(p, t, r) ==
    IF r.blocked \/ t.onMap THEN r
    ELSE IF t.shell THEN NavigationOnly(r)
    ELSE IF \E o \in Facts(r) : o.id[1] \in AtomicTypes /\ o.text THEN Superseded(r)
    ELSE IF p.media # "html" THEN r ELSE Articles(p, r)

(* The feeds have adapters of their own. *)
Delivered(p, t, r) ==
    IF p.media \in {"rss", "json feed"} THEN r ELSE Atomic(p, t, Archived(t, OnMap(t, r)))

(* atomic.py: the status of the coverage entry. *)
CoverageOf(r) ==
    CASE r.blocked -> "blocked"
      [] ~r.blocked /\ r.partial -> "partial"
      [] ~r.blocked /\ ~r.partial /\ r.errors # {} /\ r.seen = <<>> -> "error"
      [] OTHER -> "ok"

--------------------------------------------------------------------------------
ExtractionInit ==
    /\ response \in Responses
    /\ visitTask \in VisitTasks
    /\ visitTask.capture = "none" => visitTask.changes = "none"
    /\ visitTask.goal => visitTask.onMap
    /\ response.media # "html" => visitTask.capture = "none" /\ ~visitTask.onMap /\ ~visitTask.shell
    /\ stage = "fetched" /\ rounds = 0 /\ context = FALSE
    /\ result = Nothing /\ coverage = "running"

ScoreOf(r) == Cardinality({i \in DOMAIN r.seen : r.seen[i].id[1] = "review"})

(* A page of a map with none of the facts that were asked for is looked at again. *)
Lacking(r) == visitTask.goal /\ ~r.blocked /\ ScoreOf(r) = 0

Extract ==
    /\ stage = "fetched"
    /\ result' = Extraction(response, visitTask)
    /\ stage' = IF Lacking(result') THEN "review" ELSE "ready"
    /\ UNCHANGED <<response, visitTask, rounds, context, coverage>>

(* Only a result with more of the facts replaces the one there is. *)
Better(p) == ScoreOf(Extraction(p, visitTask)) > ScoreOf(result)

Replaced(p) ==
    IF Better(p) THEN /\ result' = Extraction(p, visitTask) /\ response' = p
    ELSE UNCHANGED <<result, response>>

(* The public view of the reviews of a map entity; a provider may have none.            *)
ReviewView(p) ==
    /\ stage = "review"
    /\ Replaced(p)
    /\ context' = (p = Blocked)
    /\ stage' = IF p = Blocked \/ Better(p) THEN "ready" ELSE "agent"
    /\ UNCHANGED <<visitTask, rounds, coverage>>

NoReviewView ==
    /\ stage = "review"
    /\ stage' \in {"agent", "ready"}
    /\ UNCHANGED <<response, visitTask, rounds, context, result, coverage>>

AgentRound(p) ==
    /\ stage = "agent" /\ rounds < MapRounds
    /\ rounds' = rounds + 1
    /\ Replaced(p)
    /\ context' = (context \/ p = Blocked)
    /\ stage' = IF p = Blocked \/ Better(p) \/ rounds' = MapRounds THEN "ready" ELSE "agent"
    /\ UNCHANGED <<visitTask, coverage>>

(* The agent is not there, or finds nothing. *)
NoAgent ==
    /\ stage = "agent"
    /\ stage' = "ready"
    /\ UNCHANGED <<response, visitTask, rounds, context, result, coverage>>

Deliver ==
    /\ stage = "ready"
    /\ result' = Delivered(response, visitTask, result)
    /\ coverage' = CoverageOf(result')
    /\ stage' = "delivered"
    /\ UNCHANGED <<response, visitTask, rounds, context>>

(* Pages that a view or an agent may lead to. *)
Views == {Blocked} \cup {p \in HtmlPages : p.declared = <<>> /\ p.items = <<>> /\ p.section # "publication"
                                          /\ ~p.tables /\ p.images = "none" /\ ~p.cards /\ p.articles = "none"}

ExtractionNext ==
    \/ Extract \/ NoReviewView \/ NoAgent \/ Deliver
    \/ \E p \in Views : ReviewView(p) \/ AgentRound(p)

--------------------------------------------------------------------------------
ExtractionTypeOK ==
    /\ response \in Responses /\ visitTask \in VisitTasks
    /\ stage \in {"fetched", "review", "agent", "ready", "delivered"}
    /\ rounds \in 0 .. MapRounds /\ context \in BOOLEAN /\ result \in Result
    /\ coverage \in {"running", "blocked", "partial", "error", "ok"}

(* One entity that is declared twice with two types loses the evidence of one of them: *)
(* both are first known by the same identity.                                          *)
Twins(p) == p.media = "html" /\ \E list \in {p.declared, p.items} : \E i, j \in DOMAIN list :
                list[i].name = list[j].name /\ list[i].type # list[j].type

(* What may be given to a reader as a message; a page as a whole only when it has none.  *)
Candidate(o) == o.text /\ o.marks = {} /\ (o.id[1] \in AtomicTypes \/ o.kind = "web_page")

(* However many stages have renamed, marked or added something, every observation has   *)
(* evidence under the identity it is stored with, with the same marks, and no evidence   *)
(* is about anything else; coverage that is ok hides no error or limit; a navigation      *)
(* shell has no message; a page is not one if it lists cards or has a message of its own   *)
(* (schema_web.py, atomic_content_web.py).                                                *)
ExtractionIsHonest ==
    LET messages == {o \in Facts(result) : Candidate(o)}
        plain    == response.media = "html" /\ ~visitTask.onMap
    IN stage = "delivered" =>
         /\ Twins(response) \/ \A o \in Facts(result) : \E v \in result.evidence : v.of = o.id /\ v.marks = o.marks
         /\ \A v \in result.evidence : \E o \in Facts(result) : v.of = o.id
         /\ coverage = "ok" => result.errors = {}
         /\ plain /\ visitTask.shell => messages = {}
         /\ plain /\ response.cards => \A o \in messages : o.kind # "web_page"
         /\ \A o, m \in messages : o.kind = "web_page" => m = o
=================================================================================
