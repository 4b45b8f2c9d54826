------------------------------ MODULE FetchRuntime ------------------------------
(* One crawler runtime (crawler/fast/runtime.py, crawler/browser/runtime.py) and   *)
(* the broker that joins its outcomes to the callers (crawler/lifecycle.py).       *)
(* A caller waits on a future under a key of its own; the crawler works on a queue  *)
(* that outlives the caller; a skip names only a URL, so the broker keeps an index. *)
EXTENDS Integers, FiniteSets

CONSTANTS
    Call,           \* calls of fetch(), each with a key of its own
    Url,
    UrlOf,          \* the URL of a call
    MaxRetries,     \* max_request_retries of the crawler
    MaxRuns         \* bound: crawlers started

ASSUME FetchAssumption ==
    /\ IsFiniteSet(Call)
    /\ UrlOf \in [Call -> Url]
    /\ MaxRetries \in Nat /\ MaxRuns \in Nat

VARIABLES
    call,           \* the callers
    future,         \* their futures
    futures,        \* keys of _futures
    urlByKey,       \* keys of _url_by_key
    keysByUrl,      \* _keys_by_url
    queue,          \* requests of the crawler
    tries,          \* how often each was tried
    crawler,        \* _crawler and _run_task
    runs

fetchVars == <<call, future, futures, urlByKey, keysByUrl, queue, tries, crawler, runs>>

Answers == {"result", "error", "skipped"}

FetchTypeOK ==
    /\ call \in [Call -> {"new", "starting", "building", "ready", "waiting", "timeout"} \cup Answers]
    /\ future \in [Call -> {"none", "pending"} \cup Answers]
    /\ futures \subseteq Call
    /\ urlByKey \subseteq Call
    /\ keysByUrl \in [Url -> SUBSET Call]
    /\ queue \in [Call -> {"none", "queued", "handled"}]
    /\ tries \in [Call -> 0 .. MaxRetries]
    /\ crawler \in {"none", "running", "dead"}
    /\ runs \in 0 .. MaxRuns

FetchInit ==
    /\ call = [c \in Call |-> "new"]
    /\ future = [c \in Call |-> "none"]
    /\ futures = {}
    /\ urlByKey = {}
    /\ keysByUrl = [u \in Url |-> {}]
    /\ queue = [c \in Call |-> "none"]
    /\ tries = [c \in Call |-> 0]
    /\ crawler = "none"
    /\ runs = 0

Ended(c) == call[c] \in {"timeout"} \cup Answers

--------------------------------------------------------------------------------
(* The broker. *)

(* resolve and reject: only a future that is known and still open takes a value.  *)
Answered(keys, value) ==
    [c \in Call |-> IF c \in keys \cap futures /\ future[c] = "pending"
                    THEN value ELSE future[c]]

\* Mutant: a call that ends is forgotten by its key only.
DiscardKeyOnly(c) ==
    /\ futures' = futures \ {c}
    /\ urlByKey' = urlByKey \ {c}
    /\ UNCHANGED keysByUrl

Discard(c) ==
    /\ futures' = futures \ {c}
    /\ urlByKey' = urlByKey \ {c}
    /\ keysByUrl' = IF c \in urlByKey
                    THEN [keysByUrl EXCEPT ![UrlOf[c]] = @ \ {c}] ELSE keysByUrl

RejectAll ==
    /\ future' = Answered(Call, "error")
    /\ futures' = {}
    /\ urlByKey' = {}
    /\ keysByUrl' = [u \in Url |-> {}]

--------------------------------------------------------------------------------
(* fetch(): start the crawler once, register, wait. *)

Enter(c) ==
    /\ call[c] = "new"
    /\ call' = [call EXCEPT ![c] = IF crawler = "running" THEN "ready" ELSE "starting"]
    /\ UNCHANGED <<future, futures, urlByKey, keysByUrl, queue, tries, crawler, runs>>

(* One caller holds the start lock and builds; the others wait and look again.    *)
Building == \E c \in Call : call[c] = "building"

TakeStartLock(c) ==
    /\ call[c] = "starting" /\ ~Building
    /\ call' = [call EXCEPT ![c] = IF crawler = "running" THEN "ready" ELSE "building"]
    /\ UNCHANGED <<future, futures, urlByKey, keysByUrl, queue, tries, crawler, runs>>

(* A new crawler has a new queue. *)
Built(c) ==
    /\ call[c] = "building" /\ runs < MaxRuns
    /\ crawler' = "running"
    /\ runs' = runs + 1
    /\ queue' = [d \in Call |-> "none"]
    /\ call' = [call EXCEPT ![c] = "ready"]
    /\ UNCHANGED <<future, futures, urlByKey, keysByUrl, tries>>

BuildFails(c) ==
    /\ call[c] = "building"
    /\ call' = [call EXCEPT ![c] = "error"]
    /\ UNCHANGED <<future, futures, urlByKey, keysByUrl, queue, tries, crawler, runs>>

(* The runtime may have been shut down since: there is nobody to add to, and the   *)
(* key is discarded at once.  A crawler that died takes the request all the same.  *)
Register(c) ==
    /\ call[c] = "ready"
    /\ IF crawler = "none"
       THEN /\ call' = [call EXCEPT ![c] = "error"]
            /\ UNCHANGED <<future, futures, urlByKey, keysByUrl, queue>>
       ELSE /\ call' = [call EXCEPT ![c] = "waiting"]
            /\ future' = [future EXCEPT ![c] = "pending"]
            /\ futures' = futures \cup {c}
            /\ urlByKey' = urlByKey \cup {c}
            /\ keysByUrl' = [keysByUrl EXCEPT ![UrlOf[c]] = @ \cup {c}]
            /\ queue' = [queue EXCEPT ![c] = "queued"]
    /\ UNCHANGED <<tries, crawler, runs>>

(* The caller wakes up with what its future holds, and discards its key. *)
Wake(c) ==
    /\ call[c] = "waiting" /\ future[c] \in Answers
    /\ call' = [call EXCEPT ![c] = future[c]]
    /\ Discard(c)
    /\ UNCHANGED <<future, queue, tries, crawler, runs>>

TimeOut(c) ==
    /\ call[c] = "waiting" /\ future[c] = "pending"
    /\ call' = [call EXCEPT ![c] = "timeout"]
    /\ Discard(c)
    /\ UNCHANGED <<future, queue, tries, crawler, runs>>

--------------------------------------------------------------------------------
(* The crawler. *)

Working(c) == crawler = "running" /\ queue[c] = "queued"

HandlerResolves(c) ==
    /\ Working(c)
    /\ queue' = [queue EXCEPT ![c] = "handled"]
    /\ future' = Answered({c}, "result")
    /\ UNCHANGED <<call, futures, urlByKey, keysByUrl, tries, crawler, runs>>

(* Session and status errors are tried again; every other error is final.         *)
HandlerRetries(c) ==
    /\ Working(c) /\ tries[c] < MaxRetries
    /\ tries' = [tries EXCEPT ![c] = @ + 1]
    /\ UNCHANGED <<call, future, futures, urlByKey, keysByUrl, queue, crawler, runs>>

HandlerFails(c) ==
    /\ Working(c)
    /\ queue' = [queue EXCEPT ![c] = "handled"]
    /\ future' = Answered({c}, "error")
    /\ UNCHANGED <<call, futures, urlByKey, keysByUrl, tries, crawler, runs>>

(* robots.txt forbids the URL of a request: every caller of that URL is told.     *)
Skip(c) ==
    /\ Working(c)
    /\ queue' = [queue EXCEPT ![c] = "handled"]
    /\ future' = Answered(keysByUrl[UrlOf[c]], "skipped")
    /\ UNCHANGED <<call, futures, urlByKey, keysByUrl, tries, crawler, runs>>

CrawlerDies ==
    /\ crawler = "running"
    /\ crawler' = "dead"
    /\ RejectAll
    /\ UNCHANGED <<call, queue, tries, runs>>

ShutdownRuntime ==
    /\ crawler # "none"
    /\ crawler' = "none"
    /\ RejectAll
    /\ UNCHANGED <<call, queue, tries, runs>>

FetchNext ==
    \/ \E c \in Call :
         \/ Enter(c) \/ TakeStartLock(c) \/ Built(c) \/ BuildFails(c) \/ Register(c)
         \/ Wake(c) \/ TimeOut(c)
         \/ HandlerResolves(c) \/ HandlerRetries(c) \/ HandlerFails(c) \/ Skip(c)
    \/ CrawlerDies \/ ShutdownRuntime

--------------------------------------------------------------------------------
(* The index by URL names exactly the calls that wait, whatever ended them: a skip  *)
(* reaches each of them and no other (lifecycle.py: reject_skipped, discard).      *)
IndexNamesWaiters ==
    /\ \A u \in Url : keysByUrl[u] = {c \in futures : UrlOf[c] = u}
    /\ urlByKey = futures
    /\ \A c \in Call : call[c] = "waiting" /\ future[c] = "pending" => c \in futures
================================================================================
