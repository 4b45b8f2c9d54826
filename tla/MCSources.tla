-------------------------------- MODULE MCSources --------------------------------
(* What happens between a task and its observations: the machines that find, fetch   *)
(* and read pages, and the listing of the collections they work for.  They share no   *)
(* state: a behaviour picks a part and runs it, so the state spaces add up.           *)
EXTENDS FetchRuntime, HumanInput, Discovery, CollectionListing, SiteRecipes, SiteCrawl,
        PageExtraction, ResearchExpansion, ArchiveTimeline

VARIABLE part

MCUrlOf   == [c \in Call |-> IF c = 3 THEN "v" ELSE "u"]
MCPlanned == [i \in Intent |-> IF i = 3 THEN 0 ELSE 2]
MCAllowed == [t \in PageTask |-> IF t = "t1" THEN {"v"} ELSE {}]

\* Three sites: "home" with pages that link to each other, "other" behind a redirect, and
\* "third". twin has the text of item, and a second address; home? is home; s1 leads to s2,
\* s2 to s3, and all three are indexes.
MCPage     == {"home", "home?", "item", "twin", "twin2", "moved", "away", "third", "feed"}
MCSitemap  == {"s1", "s2", "s3", "s4", "s5"}
MCHost     == {"h1", "h2", "h3"}
MCSiteOf   == [u \in MCPage \cup MCSitemap \cup MCHost |->
                 CASE u \in {"h2", "away"} -> "h2" [] u \in {"h3", "third"} -> "h3" [] OTHER -> "h1"]
MCLandsOn  == [u \in MCPage |-> CASE u = "moved" -> "away" [] u = "twin2" -> "twin" [] OTHER -> u]
MCCanonical == [u \in MCPage |-> IF u = "home?" THEN "home" ELSE u]
MCLinksOf  == [u \in MCPage |->
                 CASE u = "home" -> <<"item", "home?", "third", "moved">>
                   [] u = "item" -> <<"twin", "twin2", "home">>
                   [] u = "twin" -> <<"third">>
                   [] u = "away" -> <<"home", "away">>
                   [] OTHER -> <<"item", "third">>]
MCFeedsOf  == [u \in MCPage |-> [rss_atom  |-> IF u \in {"home", "away"} THEN <<"feed">> ELSE <<>>,
                                 json_feed |-> <<>>]]
MCTextOf   == [u \in MCPage |-> CASE u \in {"item", "twin"} -> "text" [] u = "home" -> "other text"
                                  [] OTHER -> "short"]
MCMapOf    == [u \in MCPage \cup MCHost |-> IF u \in {"home", "item", "h1"} THEN "map" ELSE "no map"]
MCSitemapsOf == [h \in MCHost |-> IF h = "h1" THEN <<"s1">> ELSE <<>>]
MCBodyOf   == [s \in MCSitemap |->
                 CASE s = "s1" -> [index |-> TRUE, locs |-> <<"s2", "s1", "s5">>]
                   [] s = "s2" -> [index |-> TRUE, locs |-> <<"s3">>]
                   [] s = "s3" -> [index |-> TRUE, locs |-> <<"s1", "s4">>]
                   [] s = "s4" -> [index |-> FALSE, locs |-> <<"away", "home">>]
                   [] OTHER    -> [index |-> FALSE, locs |-> <<"twin", "third", "item">>]]
MCLimits   == [allowed : {{}, {"h1"}, {"h1", "h2"}}, denied : {{}, {"h2"}, {"h3"}}, maxDepth : 0 .. 3]

Declaration(name, type, text) == [name |-> name, type |-> type, text |-> text]
MCDeclared == {<<>>, <<Declaration("a", "review", TRUE)>>,
               <<Declaration("a", "structured_entity", FALSE), Declaration("b", "place", TRUE)>>,
               <<Declaration("a", "review", TRUE), Declaration("a", "structured_entity", TRUE)>>}
MCItems    == {<<>>, <<Declaration("c", "publication", TRUE), Declaration("d", "place", FALSE)>>}

\* Two plans: three pages of two goals, and a site that a source owns next to one it does not.
Task0(url, branch) == [url |-> url, branch |-> branch, level |-> 0]
MCSeedTasks == {<<Task0(2, "entry"), Task0(1, "entry"), Task0(3, "entry")>>,
                <<Task0(2, "support"), Task0(1, "own")>>}
MCGoalOf    == <<1, 2, 1, 0>>
MCLeadsTo   == <<{3, 4}, {1}, {1}, {1}>>
MCHostOf    == <<"h1", "h1", "h1", "h2">>
MCArchives  == <<"library", "photographs">>
MCMaps      == <<"map">>
MCHint      == {<<0, 0>>}

\* A page that changes, is refused, or has no text of its own; article 0 is on two of its versions.
Served(shown, near, one, two, articles) ==
    [page |-> shown, near |-> near, things |-> <<one, two>>, articles |-> articles]
MCServes  == {Served("old", TRUE, "a", "b", {0}), Served("new", FALSE, "a", Gone, {0}),
              Served("new", TRUE, "b", "b", {}), Served("none", FALSE, "b", Gone, {}),
              Served("none", FALSE, Gone, Gone, {})}
MCListing == {<<3, 1, 3, 2>>, <<4, 2, 4, 1, 3>>, <<>>}

Init ==
    /\ part \in {"fetch", "human", "discovery", "listing", "recipes", "crawl", "page", "research", "archive"}
    /\ FetchInit /\ HumanInit /\ ListingInit
    /\ DiscoveryInit /\ (part # "discovery" => maxQueries = 1)
    /\ RecipesInit /\ (part # "recipes" => StoredVersions = {})
    /\ CrawlInit /\ (part # "crawl" => toFetch = <<Entry("home")>>
                                         /\ request = [allowed |-> {}, denied |-> {}, maxDepth |-> 0])
    /\ ExtractionInit /\ (part # "page" => response = Blocked /\ ~visitTask.onMap /\ visitTask.capture = "none"
                                            /\ ~visitTask.shell)
    /\ ResearchInit /\ (part # "research" => Len(row.queue) = 2)
    /\ TimelineInit

Next ==
    \/ /\ part = "fetch" /\ FetchNext
       /\ UNCHANGED <<part, timelineVars, researchVars, humanVars, discoveryVars, listingVars, recipeVars, crawlVars, extractionVars>>
    \/ /\ part = "human" /\ HumanNext
       /\ UNCHANGED <<part, timelineVars, researchVars, fetchVars, discoveryVars, listingVars, recipeVars, crawlVars, extractionVars>>
    \/ /\ part = "discovery" /\ DiscoveryNext
       /\ UNCHANGED <<part, timelineVars, researchVars, fetchVars, humanVars, listingVars, recipeVars, crawlVars, extractionVars>>
    \/ /\ part = "listing" /\ ListingNext
       /\ UNCHANGED <<part, timelineVars, researchVars, fetchVars, humanVars, discoveryVars, recipeVars, crawlVars, extractionVars>>
    \/ /\ part = "recipes" /\ RecipesNext
       /\ UNCHANGED <<part, timelineVars, researchVars, fetchVars, humanVars, discoveryVars, listingVars, crawlVars, extractionVars>>
    \/ /\ part = "crawl" /\ CrawlNext
       /\ UNCHANGED <<part, timelineVars, researchVars, fetchVars, humanVars, discoveryVars, listingVars, recipeVars, extractionVars>>
    \/ /\ part = "page" /\ ExtractionNext
       /\ UNCHANGED <<part, timelineVars, researchVars, fetchVars, humanVars, discoveryVars, listingVars, recipeVars, crawlVars>>
    \/ /\ part = "research" /\ ResearchNext
       /\ UNCHANGED <<part, timelineVars, fetchVars, humanVars, discoveryVars, listingVars, recipeVars, crawlVars, extractionVars>>
    \/ /\ part = "archive" /\ TimelineNext
       /\ UNCHANGED <<part, researchVars, fetchVars, humanVars, discoveryVars, listingVars, recipeVars, crawlVars, extractionVars>>

Spec == Init /\ [][Next]_<<part, fetchVars, humanVars, discoveryVars, listingVars, recipeVars,
                           crawlVars, extractionVars, researchVars, timelineVars>>

(* The machines have the types that their modules say.                              *)
SourcesTypeOK ==
    /\ FetchTypeOK /\ HumanTypeOK /\ DiscoveryTypeOK /\ ListingTypeOK
    /\ RecipesTypeOK /\ CrawlTypeOK /\ ExtractionTypeOK /\ ResearchTypeOK /\ TimelineTypeOK

(* Attempts that fail, expansions that are cut short and plans that are made again spend  *)
(* no more searches than the collection may (discovery.py, adaptive_atomic.py), and every  *)
(* task a search has led to is one that was counted.                                     *)
SearchBudgetHolds == QueryBudgetSpansAttempts /\ SearchesAreBounded /\ BranchesAreCounted

(* Nothing that was stored goes missing: the newest version of a recipe is pruned never   *)
(* (storage/sqlite.py), and a commit of a collection takes a queued page away only by       *)
(* reading it or by opening the circuit of its source and host (atomic.py).               *)
NothingGoesMissing == NewestStays /\ NoPageIsForgotten

(* What is delivered of a page has its evidence and says whether it is all of it            *)
(* (sources/*_web.py), and what is derived from its captures is consistent                 *)
(* (historical_web.py).                                                                    *)
FactsAreHonest == ExtractionIsHonest /\ TimelineIsConsistent

(* However the pages of a site are linked, a crawl neither leaves what the request allows   *)
(* nor walks the same text twice (generic_web.py, sitemap.py, duplicate_web.py).          *)
CrawlIsBounded == CrawlStaysInside /\ CrawlIsFrugal
================================================================================
