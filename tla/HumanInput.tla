------------------------------- MODULE HumanInput -------------------------------
(* A challenge that a person answers (human_interaction.py): the browser handler    *)
(* of one page (crawler/browser/runtime.py) and the API processes exchange files.   *)
(* Every operation reads a file, looks at its status and replaces the file; nothing *)
(* locks it, so a request of the API may write over what the handler wrote since.   *)
EXTENDS Integers, FiniteSets

CONSTANTS
    Challenge,      \* challenges in the order they are created: 1 .. n
    Input,          \* requests of people: an answer, a click or a refresh each
    MaxAttempts,    \* captcha_max_manual_attempts
    MaxActions      \* captcha_max_interactive_actions

Nobody == "no input"

ASSUME HumanAssumption ==
    /\ IsFiniteSet(Challenge) /\ Challenge = 1 .. Cardinality(Challenge)
    /\ Nobody \notin Input
    /\ MaxAttempts \in Nat \ {0} /\ MaxActions \in Nat \ {0}

VARIABLES
    file,           \* the state file of every challenge
    page,           \* the handler: where it is, its challenge, what it took, tries so far
    sent,           \* requests of the API: the file each has read
    applied,        \* how often an input reached the page
    cut             \* challenges whose handler was cancelled while it waited

humanVars == <<file, page, sent, applied, cut>>

Visible == {"pending", "answered", "applying", "interactive_required",
            "interaction_queued", "interaction_applying"}
Closed  == {"completed", "failed", "expired"}

Files  == [status : {"absent"} \cup Visible \cup Closed, kind : {"text", "interactive"},
           input : Input \cup {Nobody}]
PageStates == [at : {"fetch", "ask", "text", "apply", "click", "act", "over"},
               on : Challenge \cup {0}, took : Input \cup {Nobody},
               tries : 0 .. MaxAttempts + MaxActions]
Absent == [status |-> "absent", kind |-> "text", input |-> Nobody]
FreshPage == [at |-> "fetch", on |-> 0, took |-> Nobody, tries |-> 0]

Requests  == [at : {"new", "read", "over"}, on : Challenge \cup {0}, read : Files]
InputRequest(at, k, f) == [at |-> at, on |-> k, read |-> f]

HumanTypeOK ==
    /\ file \in [Challenge -> Files]
    /\ page \in PageStates
    /\ sent \in [Input -> Requests]
    /\ applied \in [Input -> 0 .. 2]
    /\ cut \subseteq Challenge

HumanInit ==
    /\ file = [k \in Challenge |-> Absent]
    /\ page = FreshPage
    /\ sent = [n \in Input |-> InputRequest("new", 0, Absent)]
    /\ applied = [n \in Input |-> 0]
    /\ cut = {}

Mark(k, status) == [file EXCEPT ![k].status = status, ![k].input = Nobody]

--------------------------------------------------------------------------------
(* The handler of the page. *)

(* A challenge remains after the automatic recovery: it goes to a person.          *)
MeetChallenge ==
    /\ page.at = "fetch"
    /\ page' = [page EXCEPT !.at = "ask"]
    /\ UNCHANGED <<file, sent, applied, cut>>

(* A new file for every attempt; without a text field the challenge is interactive *)
(* and never goes back to text.                                                   *)
CreateChallenge(kind) ==
    LET k == page.on + 1
    IN /\ page.at = "ask" /\ page.tries < MaxAttempts
       /\ k \in Challenge
       /\ file' = [file EXCEPT ![k] =
            [status |-> IF kind = "text" THEN "pending" ELSE "interactive_required",
             kind |-> kind, input |-> Nobody]]
       /\ page' = [page EXCEPT !.on = k,
                               !.at = IF kind = "text" THEN "text" ELSE "click",
                               !.tries = IF kind = "text" THEN @ + 1 ELSE 0]
       /\ UNCHANGED <<sent, applied, cut>>

(* All attempts are used, or no screenshot of the page can be taken. *)
GiveUp ==
    /\ page.at = "ask"
    /\ page' = [page EXCEPT !.at = "over"]
    /\ UNCHANGED <<file, sent, applied, cut>>

(* wait_for_answer and wait_for_interaction: take the input and clear it. *)
TakeAnswer ==
    /\ page.at = "text" /\ file[page.on].status = "answered"
    /\ file' = Mark(page.on, "applying")
    /\ page' = [page EXCEPT !.at = "apply", !.took = file[page.on].input]
    /\ UNCHANGED <<sent, applied, cut>>

TakeInteraction ==
    /\ page.at = "click" /\ page.tries < MaxActions
    /\ file[page.on].status = "interaction_queued"
    /\ file' = Mark(page.on, "interaction_applying")
    /\ page' = [page EXCEPT !.at = "act", !.took = file[page.on].input]
    /\ UNCHANGED <<sent, applied, cut>>

ApplyInput == applied' = [applied EXCEPT ![page.took] = @ + 1]

(* The answer is filled in: the page is clear, or it is refused and the next       *)
(* attempt asks again.                                                            *)
AnswerAccepted ==
    /\ page.at = "apply"
    /\ ApplyInput
    /\ file' = Mark(page.on, "completed")
    /\ page' = [page EXCEPT !.at = "over", !.took = Nobody]
    /\ UNCHANGED <<sent, cut>>

AnswerRefused ==
    /\ page.at = "apply"
    /\ ApplyInput
    /\ file' = Mark(page.on, "failed")
    /\ page' = [page EXCEPT !.at = "ask", !.took = Nobody]
    /\ UNCHANGED <<sent, cut>>

(* The click is made: the page is clear, or a new screenshot asks for the next.    *)
ClickClears ==
    /\ page.at = "act"
    /\ ApplyInput
    /\ file' = Mark(page.on, "completed")
    /\ page' = [page EXCEPT !.at = "over", !.took = Nobody]
    /\ UNCHANGED <<sent, cut>>

ClickGoesOn ==
    /\ page.at = "act"
    /\ ApplyInput
    /\ file' = Mark(page.on, "interactive_required")
    /\ page' = [page EXCEPT !.at = "click", !.took = Nobody, !.tries = @ + 1]
    /\ UNCHANGED <<sent, cut>>

(* An error of the browser ends an interactive challenge; a text one is tried again. *)
BrowserFails ==
    /\ page.at \in {"apply", "act"}
    /\ file' = Mark(page.on, "failed")
    /\ page' = [page EXCEPT !.at = IF @ = "act" THEN "over" ELSE "ask", !.took = Nobody]
    /\ UNCHANGED applied \/ ApplyInput
    /\ UNCHANGED <<sent, cut>>

\* Mutant: a wait that is over leaves the file as it is.
WaitExpiresSilently ==
    /\ page.at \in {"text", "click"}
    /\ page.at = "click" => page.tries < MaxActions
    /\ page' = [page EXCEPT !.at = "over"]
    /\ UNCHANGED <<file, sent, applied, cut>>

(* Nobody answered in time, whatever the file says by now. *)
WaitExpires ==
    /\ page.at \in {"text", "click"}
    /\ page.at = "click" => page.tries < MaxActions
    /\ file' = Mark(page.on, IF page.at = "text" THEN "failed" ELSE "expired")
    /\ page' = [page EXCEPT !.at = "over"]
    /\ UNCHANGED <<sent, applied, cut>>

ActionLimit ==
    /\ page.at = "click" /\ page.tries = MaxActions
    /\ file' = Mark(page.on, "failed")
    /\ page' = [page EXCEPT !.at = "over"]
    /\ UNCHANGED <<sent, applied, cut>>

(* Timeout of the request handler, shutdown or death of the worker: no handler of   *)
(* an exception sees a cancellation, the file stays as it is.                      *)
CutOff ==
    /\ page.at \in {"text", "apply", "click", "act"}
    /\ cut' = cut \cup {page.on}
    /\ page' = [page EXCEPT !.at = "over", !.took = Nobody]
    /\ UNCHANGED <<file, sent, applied>>

HandlerStep ==
    \/ MeetChallenge \/ \E kind \in {"text", "interactive"} : CreateChallenge(kind)
    \/ GiveUp \/ TakeAnswer \/ TakeInteraction \/ AnswerAccepted \/ AnswerRefused
    \/ ClickClears \/ ClickGoesOn \/ BrowserFails \/ WaitExpires \/ ActionLimit

--------------------------------------------------------------------------------
(* The API: read the file and check it, then write what was read with the input.   *)

Wanted(f) == f.status = IF f.kind = "text" THEN "pending" ELSE "interactive_required"

ReadChallenge(n, k) ==
    /\ sent[n].at = "new"
    /\ file[k].status # "absent"
    /\ sent' = [sent EXCEPT ![n] = IF Wanted(file[k]) THEN InputRequest("read", k, file[k])
                                   ELSE InputRequest("over", 0, Absent)]
    /\ UNCHANGED <<file, page, applied, cut>>

WriteInput(n) ==
    /\ sent[n].at = "read"
    /\ file' = [file EXCEPT ![sent[n].on] =
         [sent[n].read EXCEPT !.input = n,
            !.status = IF sent[n].read.kind = "text" THEN "answered" ELSE "interaction_queued"]]
    /\ sent' = [sent EXCEPT ![n] = InputRequest("over", 0, Absent)]
    /\ UNCHANGED <<page, applied, cut>>

HumanNext ==
    \/ HandlerStep \/ CutOff
    \/ \E n \in Input : WriteInput(n) \/ \E k \in Challenge : ReadChallenge(n, k)

--------------------------------------------------------------------------------
Watched(k) == page.on = k /\ page.at \in {"text", "apply", "click", "act"}

(* Nobody is asked for input that no handler waits for, unless the handler was     *)
(* cancelled; and an input reaches the page once, however requests overlap.        *)
ChallengesAreServed ==
    /\ \A k \in Challenge : file[k].status \in {"pending", "interactive_required"}
                            => Watched(k) \/ k \in cut
    /\ \A n \in Input : applied[n] <= 1
================================================================================
