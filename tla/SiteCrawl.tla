------------------------------- MODULE SiteCrawl -------------------------------
(* How the tasks of a collection grow out of the pages it fetches: links and feeds  *)
(* of a page (sources/generic_web.py and the adapters above it), robots.txt and      *)
(* sitemaps (sources/sitemap.py), entries of a source contour                        *)
(* (sources/navigation_web.py), public maps (sources/public_map_web.py), and the      *)
(* copies of a page that are not followed again (sources/duplicate_web.py).           *)
EXTENDS Integers, Sequences, FiniteSets, SequencesExt, Sorting

CONSTANTS
    Page,           \* URLs of pages and feeds
    Sitemap,        \* URLs of sitemaps
    Host,
    SiteOf,         \* host of a URL
    LandsOn,        \* final_url of a page: where a redirect leads
    Canonical,      \* canonicalize_discovery_url, or NoUrl
    LinksOf,        \* links of a page, in their order
    FeedsOf,        \* declared RSS and JSON feeds of a page, with the source that reads them
    TextOf,         \* hash of the text of a page, or NoText when it is short
    Shell,          \* pages that are navigation shells
    Item,           \* URLs that look like an item, or like the territory in a sitemap
    MapOf,          \* map provider of a URL or a host, or NoMap
    SitemapsOf,     \* sitemaps that the robots.txt of a host names, and /sitemap.xml
    BodyOf,         \* an index or a urlset, and its locations
    NoUrl, NoText, NoMap,
    MaxLinks,       \* max_pages, as far as it cuts the links of a page
    MaxIndexes,     \* sitemap_max_indexes
    MaxUrls,        \* sitemap_max_urls
    MaxIndexDepth,  \* _MAX_INDEX_DEPTH
    MapChildren,    \* direct_navigation_child_limit
    BlockLimit,     \* source_block_threshold
    MaxTasks,       \* page budget of the collection
    Seed,           \* URLs the collection starts from
    Limits          \* constraints a collection may have

ASSUME CrawlAssumption ==
    /\ IsFiniteSet(Page) /\ IsFiniteSet(Host)
    /\ SiteOf \in [Page \cup Sitemap \cup Host -> Host]
    /\ LandsOn \in [Page -> Page] /\ Canonical \in [Page -> Page \cup {NoUrl}]
    \* url_identity.py: scheme, port and query may change, the host is only written in its one form.
    /\ NoUrl \notin Page /\ \A u \in Page : Canonical[u] # NoUrl => SiteOf[Canonical[u]] = SiteOf[u]
    /\ LinksOf \in [Page -> Seq(Page)] /\ FeedsOf \in [Page -> [{"rss_atom", "json_feed"} -> Seq(Page)]]
    /\ SitemapsOf \in [Host -> Seq(Sitemap)]
    /\ \A s \in Sitemap : BodyOf[s].locs \in Seq(IF BodyOf[s].index THEN Sitemap ELSE Page)
    /\ {MaxTasks, MaxLinks, MaxIndexes, MaxUrls, MaxIndexDepth, MapChildren} \subseteq Nat
    /\ BlockLimit \in Nat \ {0}
    /\ Seed \subseteq Page
    /\ \A r \in Limits : r.allowed \subseteq Host /\ r.denied \subseteq Host /\ r.maxDepth \in Nat

VARIABLES
    request,        \* the constraints of the collection
    toFetch,        \* pending_tasks
    seen,           \* visited
    asked,          \* the tasks that were fetched
    stored,         \* documents that are committed
    followed,       \* documents whose links became tasks
    blocks          \* blocked answers by source and host

crawlVars == <<request, toFetch, seen, asked, stored, followed, blocks>>

Sources == {"generic_web", "rss_atom", "json_feed", "site_discovery", "dedicated"}
Tasks == [source : Sources, kind : {"get", "robots", "sitemap"}, url : Page \cup Sitemap \cup Host,
          depth : Nat, root : Page \cup Host, contour : BOOLEAN, terminal : BOOLEAN, noSite : BOOLEAN,
          onMap : BOOLEAN, archive : BOOLEAN, index : Nat, target : {"generic_web", "dedicated"}]
DedupeKey(t) == <<t.source, t.kind, t.url>>

CrawlTypeOK ==
    /\ toFetch \in Seq(Tasks)
    /\ asked \subseteq Tasks
    /\ seen = {DedupeKey(t) : t \in asked}
    /\ stored \subseteq Page /\ followed \subseteq Page
    /\ blocks \in [Sources \X Host -> 0 .. BlockLimit]

Entry(url) == [source |-> "generic_web", kind |-> "get", url |-> url, depth |-> 0, root |-> url,
               contour |-> FALSE, terminal |-> FALSE, noSite |-> FALSE, onMap |-> FALSE,
               archive |-> FALSE, index |-> 0, target |-> "generic_web"]

(* A URL that was given or found, an entry of a source contour, of a map, a capture of   *)
(* an archive, or the robots.txt of the site of a dedicated source                       *)
(* (research/residential_sources.py).                                                    *)
Entries(url) ==
    {Entry(url), [Entry(url) EXCEPT !.contour = TRUE], [Entry(url) EXCEPT !.onMap = TRUE],
     [Entry(url) EXCEPT !.archive = TRUE],
     [Entry(SiteOf[url]) EXCEPT !.source = "site_discovery", !.kind = "robots", !.target = "dedicated"]}

CrawlInit ==
    /\ request \in Limits
    /\ \E url \in Seed : \E entry \in Entries(url) : toFetch = <<entry>>
    /\ seen = {} /\ asked = {} /\ stored = {} /\ followed = {}
    /\ blocks = [at \in Sources \X Host |-> 0]

--------------------------------------------------------------------------------
(* generic_web.py: the tasks a page gives rise to. *)

(* _domain_allowed: without a list of domains, the host the page was found on. *)
DomainAllowed(url, final) ==
    /\ SiteOf[url] \notin request.denied
    /\ IF request.allowed # {} THEN SiteOf[url] \in request.allowed ELSE SiteOf[url] = SiteOf[final]

Upto(n, s) == SubSeq(s, 1, IF Len(s) < n THEN Len(s) ELSE n)
Child(t, url) == [Entry(url) EXCEPT !.root = t.root]
TasksOf(urls, Make(_)) == [i \in DOMAIN urls |-> Make(urls[i])]
AllowedOnly(urls, final) == Those(urls, {i \in DOMAIN urls : DomainAllowed(urls[i], final)})

FeedTasks(t, final, reader) ==
    TasksOf(AllowedOnly(FeedsOf[final][reader], final),
            LAMBDA u : [Child(t, u) EXCEPT !.source = reader, !.depth = t.depth])

(* rank(): likely items first. *)
RankedLinks(urls) ==
    LET likely == {i \in DOMAIN urls : urls[i] \in Item}
    IN Those(urls, likely) \o Those(urls, DOMAIN urls \ likely)

\* Mutant: the depth of the request is not a limit.
LinksAtAnyDepth(t, final) ==
    TasksOf(Upto(MaxLinks, RankedLinks(AllowedOnly(LinksOf[final], final))),
            LAMBDA u : [Child(t, u) EXCEPT !.depth = t.depth + 1])

LinkTasks(t, final) ==
    IF t.depth >= request.maxDepth THEN <<>>
    ELSE TasksOf(Upto(MaxLinks, RankedLinks(AllowedOnly(LinksOf[final], final))),
                 LAMBDA u : [Child(t, u) EXCEPT !.depth = t.depth + 1])

SiteDiscoveryTask(t, final) ==
    IF t.depth >= request.maxDepth \/ t.noSite \/ t.archive THEN <<>>
    ELSE <<[Child(t, SiteOf[final]) EXCEPT !.source = "site_discovery", !.kind = "robots",
                                           !.depth = t.depth, !.root = t.root]>>

PageTasks(t, final) ==
    FeedTasks(t, final, "rss_atom") \o FeedTasks(t, final, "json_feed")
      \o LinkTasks(t, final) \o SiteDiscoveryTask(t, final)

(* navigation_web.py: an entry of a source contour that is a listing leads to one item *)
(* or one feed, and this one to nothing.                                               *)
FollowUp(t, final, children) ==
    LET items  == {i \in DOMAIN children : children[i].source = t.source /\ children[i].url \in Item \ Shell}
        feeds  == {i \in DOMAIN children : children[i].source \in {"rss_atom", "json_feed"}}
        chosen == Upto(1, Those(children, items) \o Those(children, feeds))
    IN IF ~t.contour \/ t.depth # 0 THEN children
       ELSE IF final \notin Shell THEN <<>>
       ELSE [i \in DOMAIN chosen |-> [chosen[i] EXCEPT !.terminal = TRUE]]

NavigationTasks(t, final) == IF t.terminal THEN <<>> ELSE FollowUp(t, final, PageTasks(t, final))

(* canonical_web.py: only tasks without a key of their own are renamed; the first of    *)
(* several with one identity stays.                                                    *)
CanonicalTasks(children) ==
    LET named == Those(children, {i \in DOMAIN children : \/ children[i].kind # "get"
                                                           \/ Canonical[children[i].url] # NoUrl})
        moved == [i \in DOMAIN named |->
                    IF named[i].kind = "get" THEN [named[i] EXCEPT !.url = Canonical[@]] ELSE named[i]]
        first == {i \in DOMAIN moved : \A j \in 1 .. i - 1 : DedupeKey(moved[j]) # DedupeKey(moved[i])}
    IN Those(moved, first)

(* public_map_web.py: inside of a map only pages of the same provider, entities first.  *)
MapTasks(t, final, children) ==
    LET same     == {i \in DOMAIN children : MapOf[children[i].url] = MapOf[final]}
        entities == {i \in same : children[i].url \in Item}
    IN IF ~t.onMap THEN children
       ELSE IF MapOf[final] = NoMap THEN <<>>
       ELSE Upto(MapChildren, TasksOf(Those(children, entities) \o Those(children, same \ entities),
                                      LAMBDA c : [c EXCEPT !.onMap = TRUE]))

(* intent_evidence_web.py: what a page of a contour leads to belongs to the contour.    *)
DiscoveredTasks(t, final) ==
    LET children == MapTasks(t, final, CanonicalTasks(NavigationTasks(t, final)))
    IN [i \in DOMAIN children |-> [children[i] EXCEPT !.contour = t.contour \/ @]]

--------------------------------------------------------------------------------
(* sitemap.py *)

SameHostOnly(urls, t) == Those(urls, {i \in DOMAIN urls : SiteOf[urls[i]] = SiteOf[t.url]})

RobotsTasks(t) ==
    TasksOf(Upto(MaxIndexes, SameHostOnly(SitemapsOf[t.url], t)),
            LAMBDA u : [t EXCEPT !.kind = "sitemap", !.url = u, !.index = 0])

IndexLimit == IF MaxIndexDepth < request.maxDepth THEN MaxIndexDepth ELSE request.maxDepth

OthersOnly(urls, t) == Those(urls, {i \in DOMAIN urls : urls[i] # t.url})

IndexTasks(t) ==
    IF t.index >= IndexLimit THEN <<>>
    ELSE TasksOf(Upto(MaxIndexes, OthersOnly(SameHostOnly(BodyOf[t.url].locs, t), t)),
                 LAMBDA u : [t EXCEPT !.url = u, !.index = t.index + 1])

UrlAllowed(url) ==
    /\ SiteOf[url] \notin request.denied
    /\ request.allowed # {} => SiteOf[url] \in request.allowed

WantedOnly(urls) == Those(urls, {i \in DOMAIN urls : UrlAllowed(urls[i])})

UrlsetTasks(t) ==
    TasksOf(Upto(MaxUrls, RankedLinks(WantedOnly(SameHostOnly(BodyOf[t.url].locs, t)))),
            LAMBDA u : [Child(t, u) EXCEPT !.source = t.target, !.depth = t.depth + 1, !.noSite = TRUE,
                                           !.target = t.target])

SitemapTasks(t) == IF BodyOf[t.url].index THEN IndexTasks(t) ELSE UrlsetTasks(t)

--------------------------------------------------------------------------------
(* One task of the loop. *)

(* Children whose key is neither visited nor queued are appended. *)
Appended(queue, visited, children) ==
    LET known == visited \cup {DedupeKey(queue[i]) : i \in DOMAIN queue}
        fresh == {i \in DOMAIN children : /\ DedupeKey(children[i]) \notin known
                                          /\ \A j \in 1 .. i - 1 : DedupeKey(children[j]) # DedupeKey(children[i])}
    IN queue \o Those(children, fresh)

Busy == toFetch # <<>> /\ Cardinality(asked) < MaxTasks
Take(children) ==
    LET t == Head(toFetch)
    IN /\ Busy
       /\ asked' = asked \cup {t} /\ seen' = seen \cup {DedupeKey(t)}
       /\ toFetch' = Appended(Tail(toFetch), seen \cup {DedupeKey(t)}, children)

(* duplicate_web.py: another stored document has the same text. *)
IsCopy(final) ==
    /\ TextOf[final] # NoText
    /\ final \notin stored
    /\ \E other \in stored : TextOf[other] = TextOf[final]

(* A page that was stored under this address before may be found as its own duplicate. *)
MaySeeCopy(final) ==
    /\ TextOf[final] # NoText
    /\ \E other \in stored \ {final} : TextOf[other] = TextOf[final]

FetchPage(suppress) ==
    LET t == Head(toFetch)
        final == LandsOn[t.url]
    IN /\ Busy /\ t.source = "generic_web"
       /\ IsCopy(final) => suppress
       /\ suppress => MaySeeCopy(final)
       /\ Take(IF suppress \/ t.archive THEN <<>> ELSE DiscoveredTasks(t, final))
       /\ stored' = stored \cup {final}
       /\ followed' = IF suppress \/ t.archive THEN followed ELSE followed \cup {final}
       /\ UNCHANGED <<request, blocks>>

(* Feeds and pages of a dedicated source lead nowhere from here. *)
ReadFeed ==
    /\ Busy /\ Head(toFetch).source \in {"rss_atom", "json_feed", "dedicated"}
    /\ Take(<<>>)
    /\ UNCHANGED <<request, stored, followed, blocks>>

(* A robots.txt that answers 4xx names no sitemap but the default one; SitemapsOf has   *)
(* both.                                                                               *)
ReadRobots ==
    /\ Busy /\ Head(toFetch).kind = "robots"
    /\ Take(RobotsTasks(Head(toFetch)))
    /\ UNCHANGED <<request, stored, followed, blocks>>

ReadSitemap ==
    /\ Busy /\ Head(toFetch).kind = "sitemap"
    /\ Take(SitemapTasks(Head(toFetch)))
    /\ UNCHANGED <<request, stored, followed, blocks>>

(* A source that fails has no children; nor has a sitemap that cannot be read.          *)
TaskFails ==
    /\ Take(<<>>)
    /\ UNCHANGED <<request, stored, followed, blocks>>

(* The circuit breaker of atomic.py: repeated blocks empty the queue of this source on   *)
(* this host.  A robots.txt that cannot be reached counts as a block.                    *)
TaskBlocked ==
    LET t    == Head(toFetch)
        at   == <<t.source, SiteOf[t.url]>>
        rest == Tail(toFetch)
    IN /\ Busy /\ t.kind # "sitemap"
       /\ blocks' = [blocks EXCEPT ![at] = IF @ < BlockLimit THEN @ + 1 ELSE @]
       /\ asked' = asked \cup {t} /\ seen' = seen \cup {DedupeKey(t)}
       /\ toFetch' = IF blocks'[at] < BlockLimit THEN rest
                     ELSE Those(rest, {i \in DOMAIN rest : <<rest[i].source, SiteOf[rest[i].url]>> # at})
       /\ UNCHANGED <<request, stored, followed>>

CrawlNext ==
    \/ \E suppress \in BOOLEAN : FetchPage(suppress)
    \/ ReadFeed \/ ReadRobots \/ ReadSitemap \/ TaskFails \/ TaskBlocked

--------------------------------------------------------------------------------
AllTasks == asked \cup {toFetch[i] : i \in DOMAIN toFetch}
Delivers(t, page) == t.source = "generic_web" /\ LandsOn[t.url] = page
FoundTasks == {t \in AllTasks : t.url # t.root /\ t.source # "site_discovery"}

(* Whatever way a page was found (link, feed, sitemap, redirect), it is on no denied    *)
(* host and on an allowed one, if the request names any; nothing is deeper than the     *)
(* request says, sitemap indexes included, but the pages in the sitemap of a dedicated  *)
(* source (generic_web.py, sitemap.py).                                                *)
CrawlStaysInside ==
    /\ \A t \in FoundTasks : UrlAllowed(t.url)
    /\ \A t \in AllTasks : /\ t.depth <= request.maxDepth \/ (t.source = "dedicated" /\ t.depth = 1)
                           /\ t.index <= IndexLimit

(* "Sitemap index may queue only one additional index level"                            *)
(* (docs/SITEMAP_DISCOVERY.md): no index is read that two others led to.  sitemap.py      *)
(* follows as many as the request is deep, up to _MAX_INDEX_DEPTH.                       *)
OneMoreIndexLevel ==
    \A t \in asked : t.kind = "sitemap" /\ BodyOf[t.url].index => t.index <= 1

(* An entry of a source contour costs at most one more page, however the pages behind    *)
(* it are linked (navigation_web.py); the links of one text are followed from one page,  *)
(* unless one of its pages was fetched from two addresses: then it is stored already and  *)
(* may be found as its own duplicate (duplicate_web.py).                                 *)
ContoursAreShort ==
    \A e \in {t \in asked : t.contour /\ t.url = t.root} :
      Cardinality({t \in AllTasks : t.root = e.root /\ t # e}) <= 1

TextsAreFollowedOnce ==
    \A p, q \in followed : p # q /\ TextOf[p] # NoText /\ TextOf[p] = TextOf[q] =>
      \E d \in {p, q} : \E s, t \in asked : s.url # t.url /\ Delivers(s, d) /\ Delivers(t, d)

CrawlIsFrugal == ContoursAreShort /\ TextsAreFollowedOnce
=================================================================================
