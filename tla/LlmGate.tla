-------------------------------- MODULE LlmGate --------------------------------
(* The local language model seen from one process: the cached health check       *)
(* (llm_health.py) that opens and closes the claim gate of a worker (worker.py,  *)
(* _llm_allows_new_claims), and the slots that keep model work apart             *)
(* (llm_runtime.py).  Several callers check at once: the claim loop, the probe   *)
(* endpoint, and optional components.  Time is kept as ages that saturate one    *)
(* step past the life of the cache.                                              *)
EXTENDS Integers, FiniteSets, Sequences, SequencesExt

CONSTANTS
    Checker,        \* callers of check(): the claim loop and others
    Loop,           \* the claim loop of the worker
    CacheTime,      \* llm_health_cache_seconds
    Component,      \* components that ask for a model slot
    MaxSlots        \* llm_max_concurrency

ASSUME LlmAssumption ==
    /\ Loop \in Checker
    /\ CacheTime \in Nat
    /\ IsFiniteSet(Component)
    /\ MaxSlots \in Nat \ {0}

VARIABLES
    llm,            \* would a health request succeed now
    cache,          \* _cached and _cached_at: verdict, age of the check, age of what it saw
    check,          \* a check of each caller that waits for its answer
    gate,           \* _llm_claims_ready
    slot,           \* where each component is in LlmConcurrencyGate.slot
    waiters,        \* the queue of its semaphore, which serves in order
    waiting,        \* the counter _waiting
    inFlight        \* the counter _in_flight

healthVars == <<llm, cache, check, gate>>
slotVars   == <<slot, waiters, waiting, inFlight>>
llmVars    == <<llm, cache, check, gate, slot, waiters, waiting, inFlight>>

Age      == 0 .. CacheTime + 1
Older(a) == IF a > CacheTime THEN a ELSE a + 1

NoCheck  == [phase |-> "none", since |-> 0, ready |-> FALSE, seen |-> 0]
Checks   == [phase : {"none", "asked", "answered"}, since : Age, ready : BOOLEAN, seen : Age]
Verdicts == [known : BOOLEAN, ready : BOOLEAN, since : Age, seen : Age]

LlmTypeOK ==
    /\ llm \in BOOLEAN
    /\ cache \in Verdicts
    /\ check \in [Checker -> Checks]
    /\ gate \in BOOLEAN
    /\ slot \in [Component -> {"out", "waiting", "inside"}]
    /\ waiters \in Seq(Component)
    /\ waiting \in 0 .. Cardinality(Component)
    /\ inFlight \in 0 .. Cardinality(Component)

(* The worker has started, which takes a forced check that was answered "ready". *)
LlmInit ==
    /\ llm = TRUE
    /\ cache = [known |-> TRUE, ready |-> TRUE, since |-> 0, seen |-> 0]
    /\ check = [c \in Checker |-> NoCheck]
    /\ gate = TRUE
    /\ slot = [c \in Component |-> "out"]
    /\ waiters = <<>>
    /\ waiting = 0
    /\ inFlight = 0

--------------------------------------------------------------------------------
(* The health check. *)

(* What a caller does with an answer: only the claim loop acts on it. *)
Use(c, ready) == gate' = IF c = Loop THEN ready ELSE gate

(* The age of a cached verdict counts from the time its check began. *)
CacheHolds == cache.known /\ cache.since <= CacheTime

CheckCached(c) ==
    /\ check[c].phase = "none"
    /\ CacheHolds
    /\ Use(c, cache.ready)
    /\ UNCHANGED <<llm, cache, check>>

AskModel(c) ==
    /\ check[c].phase = "none"
    /\ ~CacheHolds
    /\ check' = [check EXCEPT ![c] = [NoCheck EXCEPT !.phase = "asked"]]
    /\ UNCHANGED <<llm, cache, gate>>

(* The server answers, or the request fails: what is true at that moment. *)
ModelAnswers(c) ==
    /\ check[c].phase = "asked"
    /\ check' = [check EXCEPT ![c].phase = "answered", ![c].ready = llm, ![c].seen = 0]
    /\ UNCHANGED <<llm, cache, gate>>

(* The answer arrives: the last check to end fills the cache, whatever its age. *)
CheckEnds(c) ==
    /\ check[c].phase = "answered"
    /\ cache' = [known |-> TRUE, ready |-> check[c].ready,
                 since |-> check[c].since, seen |-> check[c].seen]
    /\ Use(c, check[c].ready)
    /\ check' = [check EXCEPT ![c] = NoCheck]
    /\ UNCHANGED llm

(* An error that _check_uncached does not handle closes the gate, not the cache. *)
CheckRaises(c) ==
    /\ check[c].phase = "asked"
    /\ ~llm
    /\ Use(c, FALSE)
    /\ check' = [check EXCEPT ![c] = NoCheck]
    /\ UNCHANGED <<llm, cache>>

ModelTurns == llm' = ~llm /\ UNCHANGED <<cache, check, gate>>

TimePasses ==
    /\ cache' = [cache EXCEPT !.since = Older(@), !.seen = Older(@)]
    /\ check' = [c \in Checker |->
                   [check[c] EXCEPT
                      !.since = IF check[c].phase = "none" THEN 0 ELSE Older(@),
                      !.seen  = IF check[c].phase = "answered" THEN Older(@) ELSE 0]]
    /\ UNCHANGED <<llm, gate>>

HealthNext ==
    /\ \/ \E c \in Checker : \/ CheckCached(c) \/ AskModel(c) \/ ModelAnswers(c)
                             \/ CheckEnds(c)   \/ CheckRaises(c)
       \/ ModelTurns
       \/ TimePasses
    /\ UNCHANGED slotVars

--------------------------------------------------------------------------------
(* Slots for model work. *)

Inside == {c \in Component : slot[c] = "inside"}

AskSlot(c) ==
    /\ slot[c] = "out"
    /\ slot' = [slot EXCEPT ![c] = "waiting"]
    /\ waiters' = Append(waiters, c)
    /\ waiting' = waiting + 1
    /\ UNCHANGED inFlight

EnterSlot(c) ==
    /\ slot[c] = "waiting" /\ Head(waiters) = c
    /\ Cardinality(Inside) < MaxSlots
    /\ waiters' = Tail(waiters)
    /\ slot' = [slot EXCEPT ![c] = "inside"]
    /\ waiting' = waiting - 1
    /\ inFlight' = inFlight + 1

(* The caller is cancelled while it waits: only the waiting counter was taken. *)
GiveUpWaiting(c) ==
    /\ slot[c] = "waiting"
    /\ slot' = [slot EXCEPT ![c] = "out"]
    /\ \E i \in DOMAIN waiters : waiters[i] = c /\ waiters' = RemoveAt(waiters, i)
    /\ waiting' = waiting - 1
    /\ UNCHANGED inFlight

LeaveSlot(c) ==
    /\ slot[c] = "inside"
    /\ slot' = [slot EXCEPT ![c] = "out"]
    /\ inFlight' = inFlight - 1
    /\ UNCHANGED <<waiters, waiting>>

SlotStep(c) == AskSlot(c) \/ EnterSlot(c) \/ GiveUpWaiting(c) \/ LeaveSlot(c)

--------------------------------------------------------------------------------
(* A verdict that is served from the cache is never older than the cache time,      *)
(* although its age counts from the start of a check and a check that began earlier *)
(* may fill the cache later; and the counters of the gate agree with the components *)
(* that wait or work, of which no more than the limit are inside; whoever waits is  *)
(* in the queue, once, and nobody else is.                                          *)
VerdictIsFresh == CacheHolds => cache.seen <= CacheTime
SlotsAgree ==
    /\ inFlight = Cardinality(Inside) /\ inFlight <= MaxSlots
    /\ waiting = Cardinality({c \in Component : slot[c] = "waiting"})
    /\ \A c \in Component : slot[c] = "waiting" <=> \E i \in DOMAIN waiters : waiters[i] = c
    /\ \A i, j \in DOMAIN waiters : waiters[i] = waiters[j] => i = j
LlmGateHolds == VerdictIsFresh /\ SlotsAgree

(* Once the model answers for good, the worker claims again and goes on claiming,   *)
(* whatever the other callers of the checker do.                                    *)
GateReopens == <>[]llm => <>[]gate
================================================================================
