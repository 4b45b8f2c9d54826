------------------------------ MODULE AgentFallback ------------------------------
(* Agents that look for a way through a site when a page needs more than a browser:  *)
(* the backends of one call are tried one after the other (crawler/agent/fallback.py), *)
(* each of them takes a slot of the model, opens what it works with and puts it away,   *)
(* and whatever the model answers becomes a list of actions that ARGUS replays          *)
(* (ollama_recipe.py, stagehand.py, browser_use.py).  The call of a task may be cut off  *)
(* at any await: by the timeout of its task, or when its worker stops.                   *)
EXTENDS LlmGate, Sequences, Sorting

CONSTANTS
    Caller,         \* components that call agents; each makes one call at a time
    Html,           \* pages a call may bring along, << >> for none
    Value,          \* input candidates of a task, a sequence
    FormLimit,      \* max_form_controls
    ControlLimit,   \* max_controls
    ActionLimit,    \* max_actions
    ModelPlan,      \* plans a model may answer: control numbers, 0 unknown, -1 scroll
    MaxCuts         \* bound: calls that are cut off

Element == [kind : {"field", "choice", "link", "button", "tab"}, form : {"none", "get", "post"},
            inside : BOOLEAN, denied : BOOLEAN]

ASSUME AgentAssumption ==
    /\ Caller \subseteq Component
    /\ Html \subseteq Seq(Element) /\ <<>> \in Html
    /\ Value \in Seq(STRING) /\ ModelPlan \subseteq Seq(Int)
    /\ FormLimit \in Nat /\ ControlLimit \in Nat /\ ActionLimit \in Nat /\ MaxCuts \in Nat

VARIABLES
    agent,          \* the call of each caller
    behind,         \* processes and browsers that calls have left behind
    cuts            \* times a call was cut off

agentVars == <<agent, behind, cuts>>

Backends == <<"ollama-recipe", "stagehand", "browser-use">>

Action  == [kind : {"fill", "press", "select", "goto", "click", "scroll"}, on : Nat, nth : Nat]

\* "check" the backend is asked, "slot" it waits for the model, "work" it has the model,
\* "close" its browser is closed, "kill" its process; outcome is what its work came to.
Step    == {"idle", "check", "slot", "work", "close", "kill"}
NoCall  == [at |-> "idle", backend |-> 1, html |-> <<>>, holds |-> "nothing", outcome |-> "none"]

AgentTypeOK ==
    /\ agent \in [Caller -> [at : Step, backend : DOMAIN Backends, html : Html,
                             holds : {"nothing", "browser", "process"},
                             outcome : {"none", "success", "blocked", "failed", "cut"}]]
    /\ behind \in [process : 0 .. MaxCuts, browser : 0 .. MaxCuts]
    /\ cuts \in 0 .. MaxCuts

AgentInit ==
    /\ agent = [c \in Caller |-> NoCall]
    /\ behind = [process |-> 0, browser |-> 0] /\ cuts = 0

--------------------------------------------------------------------------------
(* What a page offers and what becomes of a plan. *)

(* _safe_search_form: a form may only be a search inside of the allowed domains. *)
SafeSearchForm(e) == e.form = "none" \/ (e.form = "get" /\ e.inside)

(* _safe_click_control: nothing that belongs to a form is clicked. *)
SafeClick(e) == e.form = "none"

Fills(i)         == [v \in DOMAIN Value |-> [kind |-> "fill", on |-> i, nth |-> v]]
Control(kind, i) == [kind |-> kind, on |-> i, nth |-> 0]
Scroll           == Control("scroll", 0)

FirstFew(n, s) == SubSeq(s, 1, IF n < Len(s) THEN n ELSE Len(s))

(* _append_safe_form_controls: the limit is asked before every value, not before Enter. *)
WithFormControl(done, e, i) ==
    IF Len(done) >= FormLimit \/ e.denied \/ ~SafeSearchForm(e) THEN done
    ELSE CASE e.kind = "field" /\ Value # <<>> ->
                Append(FirstFew(FormLimit, done \o Fills(i)), Control("press", i))
           [] e.kind = "choice" -> Append(done, Control("select", i))
           [] OTHER -> done

FormControls(html) ==
    LET upTo[i \in 0 .. Len(html)] == IF i = 0 THEN <<>> ELSE WithFormControl(upTo[i - 1], html[i], i)
    IN upTo[Len(html)]

(* Links inside of the domains, and buttons, in the order of the page.                  *)
LinkControls(html) ==
    LET isLink(e)   == e.kind = "link" /\ e.inside
        isButton(e) == e.kind = "button" /\ SafeClick(e)
        offered     == Ascending({i \in DOMAIN html : ~html[i].denied /\ (isLink(html[i]) \/ isButton(html[i]))})
    IN [k \in DOMAIN offered |->
          Control(IF isLink(html[offered[k]]) THEN "goto" ELSE "click", offered[k])]

TabControls(html) ==
    LET offered == Ascending({i \in DOMAIN html : /\ html[i].kind = "tab"
                                                  /\ ~html[i].denied /\ SafeClick(html[i])})
    IN [k \in DOMAIN offered |-> Control("click", offered[k])]

Controls(html) == FirstFew(ControlLimit, FormControls(html) \o LinkControls(html) \o TabControls(html))

\* Where a list says something for the first time.
FirstTimes(s) == {k \in DOMAIN s : \A m \in 1 .. k - 1 : s[m] # s[k]}

(* _actions_from_plan: known controls, each of them once, and any scrolling.            *)
ActionsFromPlan(answer, controls) ==
    LET asked == FirstFew(ActionLimit, answer)
        taken == Ascending({k \in DOMAIN asked : \/ asked[k] = -1
                                                 \/ asked[k] \in DOMAIN controls /\ k \in FirstTimes(asked)})
    IN [k \in DOMAIN taken |-> IF asked[taken[k]] = -1 THEN Scroll ELSE controls[asked[taken[k]]]]

(* Stagehand's _safe_actions: clicks on what it has observed, if no word forbids them. *)
SafeActions(answer, html) ==
    LET taken == Ascending({k \in FirstTimes(answer) : answer[k] \in DOMAIN html /\ ~html[answer[k]].denied})
    IN FirstFew(ActionLimit, [k \in DOMAIN taken |-> Control("click", answer[taken[k]])])

\* What an answer becomes on a page.
Planned  == [html \in Html |-> [answer \in ModelPlan |-> ActionsFromPlan(answer, Controls(html))]]
Observed == [html \in Html |-> [answer \in ModelPlan |-> SafeActions(answer, html)]]
Workable == {html \in Html : Controls(html) # <<>>}

--------------------------------------------------------------------------------
(* The calls. *)

Do(c, new)      == agent' = [agent EXCEPT ![c] = new]
UsesModel(c)    == agent[c].at = "work"
Backend(c)      == Backends[agent[c].backend]

(* SequentialAgentBackend: after a failure the next backend is asked; success, an access    *)
(* challenge and an unsafe address end the call (NoCall, like the end of all backends).   *)
NextBackend(c) ==
    IF agent[c].backend = Len(Backends) THEN NoCall
    ELSE [agent[c] EXCEPT !.at = "check", !.backend = @ + 1, !.holds = "nothing", !.outcome = "none"]

(* What follows once the backend has put its things away. *)
AfterBackend(c) ==
    IF agent[c].outcome = "failed" THEN NextBackend(c) ELSE NoCall

AskAgents(c, html) ==
    /\ agent[c].at = "idle"
    /\ Do(c, [NoCall EXCEPT !.at = "check", !.html = html])
    /\ UNCHANGED <<slotVars, behind, cuts>>

(* The address of the task has become unsafe: no other backend is asked. *)
UnsafeTarget(c) ==
    /\ agent[c].at = "check"
    /\ Do(c, NoCall)
    /\ UNCHANGED <<slotVars, behind, cuts>>

(* No model, no installation, a target outside of the domains, or nothing on the page. *)
Declines(c) ==
    /\ agent[c].at = "check"
    /\ Do(c, NextBackend(c))
    /\ UNCHANGED <<slotVars, behind, cuts>>

MayWork(c) ==
    CASE Backend(c) = "ollama-recipe" -> agent[c].html \in Workable
      [] Backend(c) = "stagehand" -> agent[c].html # <<>>
      [] OTHER -> TRUE

TakesTurn(c) ==
    /\ agent[c].at = "check" /\ MayWork(c)
    /\ AskSlot(c)
    /\ Do(c, [agent[c] EXCEPT !.at = "slot"])
    /\ UNCHANGED <<behind, cuts>>

(* Browser Use runs in the worker, or in a process of its own (_run_isolated).         *)
StartsWork(c, isolated) ==
    /\ agent[c].at = "slot" /\ EnterSlot(c)
    /\ isolated => Backend(c) = "browser-use"
    /\ Do(c, [agent[c] EXCEPT !.at = "work",
                !.holds = IF Backend(c) = "ollama-recipe" THEN "nothing"
                          ELSE IF isolated THEN "process" ELSE "browser"])
    /\ UNCHANGED <<behind, cuts>>

(* OllamaRecipeAgent: an answer, an error, or the timeout of the request. *)
RecipePlanned(c, answer) ==
    /\ UsesModel(c) /\ Backend(c) = "ollama-recipe"
    /\ LeaveSlot(c)
    /\ Do(c, IF Planned[agent[c].html][answer] = <<>> THEN NextBackend(c) ELSE NoCall)
    /\ UNCHANGED <<behind, cuts>>

(* StagehandAgent: whatever happens, the browser is closed inside of the slot. *)
StagehandObserved(c, answer) ==
    /\ UsesModel(c) /\ Backend(c) = "stagehand"
    /\ Do(c, [agent[c] EXCEPT !.at = "close", !.outcome =
                 IF Observed[agent[c].html][answer] = <<>> THEN "failed" ELSE "success"])
    /\ UNCHANGED <<slotVars, behind, cuts>>

(* BrowserUseAgent: the slot is left, the history is judged, the browser is closed last.   *)
\* An access challenge counts before success; too many actions count as a failure.
BrowserUseStops(c, what) ==
    /\ UsesModel(c) /\ agent[c].holds = "browser" /\ Backend(c) = "browser-use"
    /\ LeaveSlot(c)
    /\ Do(c, [agent[c] EXCEPT !.at = "close", !.outcome = what])
    /\ UNCHANGED <<behind, cuts>>

BrowserCloses(c) ==
    /\ agent[c].at = "close"
    /\ IF Backend(c) = "stagehand" THEN LeaveSlot(c) ELSE UNCHANGED slotVars
    /\ Do(c, AfterBackend(c))
    /\ UNCHANGED <<behind, cuts>>

(* The process ends with its result, or without one. *)
ProcessEnds(c, what) ==
    /\ UsesModel(c) /\ agent[c].holds = "process"
    /\ LeaveSlot(c)
    /\ Do(c, IF what = "failed" THEN NextBackend(c) ELSE NoCall)
    /\ UNCHANGED <<behind, cuts>>

(* The process takes too long: the slot is left before it is killed. *)
ProcessTimesOut(c) ==
    /\ UsesModel(c) /\ agent[c].holds = "process"
    /\ LeaveSlot(c)
    /\ Do(c, [agent[c] EXCEPT !.at = "kill"])
    /\ UNCHANGED <<behind, cuts>>

ProcessKilled(c) ==
    /\ agent[c].at = "kill"
    /\ Do(c, NextBackend(c))
    /\ UNCHANGED <<slotVars, behind, cuts>>

--------------------------------------------------------------------------------
(* A call that is cut off.  CancelledError is no Exception: nothing is suppressed, and     *)
(* only what stands in a finally or a context manager is done.                            *)

Cuts == cuts < MaxCuts /\ cuts' = cuts + 1

CutBeforeWork(c) ==
    /\ agent[c].at \in {"check", "slot"} /\ Cuts
    /\ IF agent[c].at = "slot" THEN GiveUpWaiting(c) ELSE UNCHANGED slotVars
    /\ Do(c, NoCall)
    /\ UNCHANGED behind

\* Mutant: the slot is given back when the model answers or fails, not when the call is cut off.
CutAtWorkKeeps(c) ==
    /\ UsesModel(c) /\ Cuts
    /\ Do(c, NoCall)
    /\ behind' = [behind EXCEPT !.process = IF agent[c].holds = "process" THEN @ + 1 ELSE @]
    /\ UNCHANGED slotVars

(* Stagehand closes in the slot, Browser Use after it; the process is not killed. *)
CutAtWork(c) ==
    LET closes == [agent[c] EXCEPT !.at = "close", !.outcome = "cut"]
    IN /\ UsesModel(c) /\ Cuts
       /\ IF Backend(c) = "stagehand" THEN UNCHANGED slotVars ELSE LeaveSlot(c)
       /\ Do(c, IF agent[c].holds = "browser" THEN closes ELSE NoCall)
       /\ behind' = [behind EXCEPT !.process = IF agent[c].holds = "process" THEN @ + 1 ELSE @]

(* The close itself is cut off: the browser may stay. *)
CutAtClose(c) ==
    /\ agent[c].at = "close" /\ Cuts
    /\ IF Backend(c) = "stagehand" THEN LeaveSlot(c) ELSE UNCHANGED slotVars
    /\ Do(c, NoCall)
    /\ \E closed \in BOOLEAN : behind' = [behind EXCEPT !.browser = IF closed THEN @ ELSE @ + 1]

CutAtKill(c) ==
    /\ agent[c].at = "kill" /\ Cuts
    /\ Do(c, NoCall)
    /\ UNCHANGED <<slotVars, behind>>

(* A process that was left behind has a time limit of its own (browser_use_runner.py).     *)
LeftProcessEnds ==
    /\ behind.process > 0
    /\ behind' = [behind EXCEPT !.process = @ - 1]
    /\ UNCHANGED <<agent, cuts, slotVars>>

(* Other components of the worker take slots as well. *)
OtherSlots ==
    /\ \E c \in Component \ Caller : SlotStep(c)
    /\ UNCHANGED agentVars

AgentStep(c) ==
    \/ UnsafeTarget(c) \/ Declines(c) \/ TakesTurn(c) \/ BrowserCloses(c) \/ ProcessTimesOut(c) \/ ProcessKilled(c)
    \/ \E answer \in ModelPlan : RecipePlanned(c, answer) \/ StagehandObserved(c, answer)
    \/ \E what \in {"success", "blocked", "failed"} : BrowserUseStops(c, what) \/ ProcessEnds(c, what)

AgentNext ==
    /\ \/ \E c \in Caller : \/ AgentStep(c) \/ \E isolated \in BOOLEAN : StartsWork(c, isolated)
                            \/ \E html \in Html : AskAgents(c, html)
                            \/ CutBeforeWork(c) \/ CutAtWork(c) \/ CutAtClose(c) \/ CutAtKill(c)
       \/ LeftProcessEnds \/ OtherSlots
    /\ UNCHANGED healthVars

--------------------------------------------------------------------------------
(* A call waits for the model or has it exactly as long as its backend works with it;   *)
(* an end of any kind, or the next backend, gives the slot back (llm_runtime.py).        *)
AgentsHoldTheirSlots ==
    \A c \in Caller :
      /\ slot[c] = "waiting" <=> agent[c].at = "slot"
      /\ slot[c] = "inside" <=> UsesModel(c) \/ (agent[c].at = "close" /\ Backend(c) = "stagehand")

(* A call that ends by itself has closed its browser and ended its process; only calls    *)
(* that are cut off leave one behind, no more than one each.                              *)
CutsPayForLeftovers ==
    /\ \A c \in Caller : agent[c].at \in {"idle", "check", "slot"} => agent[c].holds = "nothing"
    /\ behind.browser + behind.process <= cuts

(* "The parent holds the common LLM semaphore until the child process has ended"           *)
(* (docs/LLM_AGENT_RUNTIME.md): every process of Browser Use that is at work has a slot.   *)
(* A call that is cut off in _run_isolated gives its slot back and kills nothing.         *)
ProcessesHoldSlots ==
    behind.process + Cardinality({c \in Caller : UsesModel(c) /\ agent[c].holds = "process"})
      <= Cardinality({c \in Caller : slot[c] = "inside"})

(* Whatever a model answers, the plan of the recipe agent keeps to the controls of its    *)
(* page: no form but a search inside of the domains, no link out of them, no control      *)
(* twice; and no plan of either agent does what a word on the page forbids.               *)
PlansAreSafe ==
    \A html \in Html, answer \in ModelPlan :
      LET plan       == Planned[html][answer]
          shown      == Observed[html][answer]
          allowed(a) == CASE a.kind = "goto" -> html[a.on].inside
                          [] a.kind = "click" -> html[a.on].form = "none"
                          [] OTHER -> SafeSearchForm(html[a.on])
      IN /\ \A k \in DOMAIN plan : plan[k].kind # "scroll" =>
              allowed(plan[k]) /\ ~html[plan[k].on].denied /\ \A m \in 1 .. k - 1 : plan[m] # plan[k]
         /\ \A k \in DOMAIN shown : ~html[shown[k].on].denied
         /\ Len(plan) <= ActionLimit /\ Len(shown) <= ActionLimit

(* A call of agents ends, and so does a process that was left behind, as long as every    *)
(* backend has a timeout and the model is handed on in the order of waiting.              *)
AgentsEnd ==
    /\ \A c \in Caller : agent[c].at # "idle" ~> agent[c].at = "idle"
    /\ behind.process > 0 ~> behind.process = 0
================================================================================
