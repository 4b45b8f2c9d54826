----------------------------- MODULE Sources_proofs -----------------------------
(***************************************************************************)
(* Theorems about what happens between a task and its observations, for any*)
(* number of calls, challenges, page tasks, queries and collections.       *)
(***************************************************************************)
EXTENDS MCSources, Pages_proofs

(***************************************************************************)
(* Calls for pages (FetchRuntime).                                         *)
(***************************************************************************)
FetchSpec == FetchInit /\ [][FetchNext]_fetchVars

FetchInv == FetchTypeOK /\ IndexNamesWaiters

(***************************************************************************)
(* What the two kinds of steps do to the indexes.                          *)
(***************************************************************************)
\* A value for some futures keeps their types and makes no call wait that did not.
LEMMA AnsweredIsTyped ==
    ASSUME FetchTypeOK, NEW keys, NEW value \in Answers
    PROVE  /\ Answered(keys, value) \in [Call -> {"none", "pending"} \cup Answers]
           /\ \A c \in Call : Answered(keys, value)[c] = "pending" => future[c] = "pending"
BY DEF FetchTypeOK, Answered, Answers

\* A step that leaves the indexes alone and ends waits only keeps them right.
LEMMA AnswersKeepIndex ==
    ASSUME FetchInv, UNCHANGED <<futures, urlByKey, keysByUrl>>,
           \A c \in Call : call'[c] = "waiting" /\ future'[c] = "pending"
                           => call[c] = "waiting" /\ future[c] = "pending"
    PROVE  IndexNamesWaiters'
BY DEF FetchInv, IndexNamesWaiters

\* Who is discarded is in no index any more, and nobody else leaves one.
LEMMA DiscardKeepsIndex ==
    ASSUME FetchInv, NEW c \in Call, Discard(c), UNCHANGED future,
           NEW s, s # "waiting", call' = [call EXCEPT ![c] = s]
    PROVE  IndexNamesWaiters' /\ futures' \subseteq Call /\ urlByKey' \subseteq Call
           /\ keysByUrl' \in [Url -> SUBSET Call]
<1> USE FetchAssumption DEF FetchInv, FetchTypeOK, FetchAssumption
<1>1. futures' = futures \ {c} /\ urlByKey' = urlByKey \ {c}
  BY DEF Discard
<1>2. ASSUME NEW u \in Url PROVE keysByUrl'[u] = {d \in futures' : UrlOf[d] = u}
  BY <1>1 DEF Discard, IndexNamesWaiters
<1>3. \A d \in Call : call'[d] = "waiting" /\ future'[d] = "pending" => d \in futures'
  BY <1>1 DEF IndexNamesWaiters
<1>4. keysByUrl' \in [Url -> SUBSET Call]
  BY DEF Discard
<1> QED
  BY <1>1, <1>2, <1>3, <1>4 DEF IndexNamesWaiters

\* When all are rejected nobody waits and nothing is indexed.
LEMMA RejectAllKeepsIndex ==
    ASSUME FetchInv, RejectAll, UNCHANGED call
    PROVE  /\ IndexNamesWaiters'
           /\ future' \in [Call -> {"none", "pending"} \cup Answers]
           /\ futures' \subseteq Call /\ urlByKey' \subseteq Call
           /\ keysByUrl' \in [Url -> SUBSET Call]
<1>1. future' \in [Call -> {"none", "pending"} \cup Answers]
  BY AnsweredIsTyped DEF FetchInv, RejectAll, Answers
<1>2. \A c \in Call : ~(call'[c] = "waiting" /\ future'[c] = "pending")
  BY DEF FetchInv, FetchTypeOK, IndexNamesWaiters, RejectAll, Answered
<1>3. futures' = {} /\ urlByKey' = {} /\ keysByUrl' = [u \in Url |-> {}]
  BY DEF RejectAll
<1> QED
  BY <1>1, <1>2, <1>3 DEF IndexNamesWaiters

(***************************************************************************)
(* The invariant.                                                          *)
(***************************************************************************)
LEMMA FetchInitInv == FetchInit => FetchInv
BY FetchAssumption DEF FetchInit, FetchInv, FetchTypeOK, IndexNamesWaiters, FetchAssumption, Answers

LEMMA FetchNextInv == FetchInv /\ [FetchNext]_fetchVars => FetchInv'
<1> SUFFICES ASSUME FetchInv, [FetchNext]_fetchVars PROVE FetchInv'
  OBVIOUS
<1> USE FetchAssumption DEF FetchAssumption
<1>1. ASSUME NEW c \in Call, Enter(c) PROVE FetchInv'
  <2>1. FetchTypeOK' BY <1>1 DEF Enter, FetchInv, FetchTypeOK
  <2>2. IndexNamesWaiters' BY <1>1, AnswersKeepIndex DEF Enter, FetchInv, FetchTypeOK
  <2> QED BY <2>1, <2>2 DEF FetchInv
<1>2. ASSUME NEW c \in Call, TakeStartLock(c) PROVE FetchInv'
  <2>1. FetchTypeOK' BY <1>2 DEF TakeStartLock, FetchInv, FetchTypeOK
  <2>2. IndexNamesWaiters' BY <1>2, AnswersKeepIndex DEF TakeStartLock, FetchInv, FetchTypeOK
  <2> QED BY <2>1, <2>2 DEF FetchInv
<1>3. ASSUME NEW c \in Call, Built(c) PROVE FetchInv'
  <2>1. FetchTypeOK' BY <1>3 DEF Built, FetchInv, FetchTypeOK
  <2>2. IndexNamesWaiters' BY <1>3, AnswersKeepIndex DEF Built, FetchInv, FetchTypeOK
  <2> QED BY <2>1, <2>2 DEF FetchInv
<1>4. ASSUME NEW c \in Call, BuildFails(c) PROVE FetchInv'
  <2>1. FetchTypeOK' BY <1>4 DEF BuildFails, FetchInv, FetchTypeOK, Answers
  <2>2. IndexNamesWaiters' BY <1>4, AnswersKeepIndex DEF BuildFails, FetchInv, FetchTypeOK
  <2> QED BY <2>1, <2>2 DEF FetchInv
<1>5. ASSUME NEW c \in Call, Register(c) PROVE FetchInv'
  <2>1. CASE crawler = "none"
    <3>1. FetchTypeOK' BY <1>5, <2>1 DEF Register, FetchInv, FetchTypeOK, Answers
    <3>2. IndexNamesWaiters' BY <1>5, <2>1, AnswersKeepIndex DEF Register, FetchInv, FetchTypeOK
    <3> QED BY <3>1, <3>2 DEF FetchInv
  <2>2. CASE crawler # "none"
    <3>1. FetchTypeOK' BY <1>5, <2>2 DEF Register, FetchInv, FetchTypeOK
    <3>2. ASSUME NEW u \in Url PROVE keysByUrl'[u] = {d \in futures' : UrlOf[d] = u}
      BY <1>5, <2>2 DEF Register, FetchInv, FetchTypeOK, IndexNamesWaiters
    <3>3. /\ urlByKey' = futures'
          /\ \A d \in Call : call'[d] = "waiting" /\ future'[d] = "pending" => d \in futures'
      BY <1>5, <2>2 DEF Register, FetchInv, FetchTypeOK, IndexNamesWaiters
    <3> QED BY <3>1, <3>2, <3>3 DEF FetchInv, IndexNamesWaiters
  <2> QED BY <2>1, <2>2
<1>6. ASSUME NEW c \in Call, Wake(c) PROVE FetchInv'
  <2>1. /\ IndexNamesWaiters' /\ futures' \subseteq Call /\ urlByKey' \subseteq Call
        /\ keysByUrl' \in [Url -> SUBSET Call]
    BY <1>6, DiscardKeepsIndex DEF Wake, Answers
  <2>2. FetchTypeOK' BY <1>6, <2>1 DEF Wake, FetchInv, FetchTypeOK
  <2> QED BY <2>1, <2>2 DEF FetchInv
<1>7. ASSUME NEW c \in Call, TimeOut(c) PROVE FetchInv'
  <2>1. /\ IndexNamesWaiters' /\ futures' \subseteq Call /\ urlByKey' \subseteq Call
        /\ keysByUrl' \in [Url -> SUBSET Call]
    BY <1>7, DiscardKeepsIndex DEF TimeOut
  <2>2. FetchTypeOK' BY <1>7, <2>1 DEF TimeOut, FetchInv, FetchTypeOK
  <2> QED BY <2>1, <2>2 DEF FetchInv
<1>8. ASSUME NEW c \in Call, NEW keys, NEW value \in Answers, Working(c),
             queue' = [queue EXCEPT ![c] = "handled"], future' = Answered(keys, value),
             UNCHANGED <<call, futures, urlByKey, keysByUrl, tries, crawler, runs>>
      PROVE  FetchInv'
  <2>1. /\ future' \in [Call -> {"none", "pending"} \cup Answers]
        /\ \A d \in Call : future'[d] = "pending" => future[d] = "pending"
    BY <1>8, AnsweredIsTyped DEF FetchInv
  <2>2. FetchTypeOK' BY <1>8, <2>1 DEF FetchInv, FetchTypeOK
  <2>3. IndexNamesWaiters' BY <1>8, <2>1, AnswersKeepIndex DEF FetchInv
  <2> QED BY <2>2, <2>3 DEF FetchInv
<1>9. ASSUME NEW c \in Call, HandlerRetries(c) PROVE FetchInv'
  <2>1. FetchTypeOK' BY <1>9 DEF HandlerRetries, FetchInv, FetchTypeOK
  <2>2. IndexNamesWaiters' BY <1>9, AnswersKeepIndex DEF HandlerRetries, FetchInv
  <2> QED BY <2>1, <2>2 DEF FetchInv
<1>10. ASSUME NEW c \in Call, HandlerResolves(c) \/ HandlerFails(c) \/ Skip(c) PROVE FetchInv'
  BY <1>8, <1>10 DEF HandlerResolves, HandlerFails, Skip, Answers
<1>11. ASSUME CrawlerDies \/ ShutdownRuntime PROVE FetchInv'
  <2>1. RejectAll /\ UNCHANGED <<call, queue, tries, runs>> /\ crawler' \in {"dead", "none"}
    BY <1>11 DEF CrawlerDies, ShutdownRuntime
  <2>2. FetchTypeOK' BY <2>1, RejectAllKeepsIndex DEF FetchInv, FetchTypeOK
  <2>3. IndexNamesWaiters' BY <2>1, RejectAllKeepsIndex
  <2> QED BY <2>2, <2>3 DEF FetchInv
<1>12. CASE UNCHANGED fetchVars
  BY <1>12 DEF fetchVars, FetchInv, FetchTypeOK, IndexNamesWaiters
<1> QED
  BY <1>1, <1>2, <1>3, <1>4, <1>5, <1>6, <1>7, <1>9, <1>10, <1>11, <1>12 DEF FetchNext

(***************************************************************************)
(* However calls end, time out and are skipped, and however often the      *)
(* crawler dies or is shut down under them, the broker's index by URL      *)
(* names exactly the calls that wait (crawler/lifecycle.py).               *)
(***************************************************************************)
THEOREM IndexIsExact == FetchSpec => []IndexNamesWaiters
<1>1. FetchInv => IndexNamesWaiters
  BY DEF FetchInv
<1> QED
  BY FetchInitInv, FetchNextInv, <1>1, PTL DEF FetchSpec

(***************************************************************************)
(* Challenges and inputs of a person (HumanInput).                         *)
(***************************************************************************)
HumanSpec == HumanInit /\ [][HumanNext]_humanVars

\* An input that is with the page, or in a file.
Taken(n)  == page.took = n
Filed(n)  == \E k \in Challenge : file[k].input = n

PageInv ==
    /\ page.at \in {"text", "apply", "click", "act"} => page.on \in Challenge
    /\ page.at \in {"apply", "act"} <=> page.took # Nobody
    /\ page.at = "act" => page.tries < MaxActions

FileInv ==
    /\ \A k \in Challenge :
         /\ file[k].status \in {"pending", "interactive_required"} => Watched(k) \/ k \in cut
         /\ file[k].status \in {"answered", "interaction_queued"} <=> file[k].input # Nobody
    /\ \A n \in Input : sent[n].at = "read" => sent[n].on \in Challenge

InputInv ==
    \A n \in Input :
      /\ applied[n] <= 1
      /\ Taken(n) \/ Filed(n) => applied[n] = 0 /\ sent[n].at = "over" /\ ~(Taken(n) /\ Filed(n))
      /\ sent[n].at # "over" => applied[n] = 0
      /\ \A j, k \in Challenge : file[j].input = n /\ file[k].input = n => j = k

HumanInv == HumanTypeOK /\ PageInv /\ FileInv /\ InputInv

\* At the start there is no challenge.
LEMMA HumanInitInv == HumanInit => HumanInv
BY HumanAssumption DEF HumanInit, HumanInv, HumanTypeOK, PageStates, PageInv, FileInv, InputInv, Absent,
   FreshPage, InputRequest, Requests, Files, Taken, Filed, HumanAssumption

\* A file that is marked gives up its input; the others keep theirs.
LEMMA MarkClears ==
    ASSUME HumanTypeOK, NEW k \in Challenge, NEW status, file' = Mark(k, status)
    PROVE  \A j \in Challenge : file'[j].input = IF j = k THEN Nobody ELSE file[j].input
BY DEF HumanTypeOK, PageStates, Files, Mark

\* A file that is marked stays a file.
LEMMA MarkTyped ==
    ASSUME HumanTypeOK, NEW k \in Challenge, NEW status \in Visible \cup Closed, file' = Mark(k, status)
    PROVE  file' \in [Challenge -> Files]
<1>1. file[k] \in Files /\ file \in [Challenge -> Files]
  BY DEF HumanTypeOK, PageStates
<1>2. [file[k] EXCEPT !.status = status, !.input = Nobody] \in Files
  BY <1>1 DEF Files
<1>3. Mark(k, status) = [file EXCEPT ![k] = [file[k] EXCEPT !.status = status, !.input = Nobody]]
  BY <1>1 DEF Mark
<1> QED
  BY <1>1, <1>2, <1>3

\* An input that is applied was not applied before.
LEMMA AppliedTyped ==
    ASSUME HumanTypeOK, InputInv, page.took \in Input, ApplyInput
    PROVE  applied' \in [Input -> 0 .. 2]
<1>1. applied[page.took] = 0
  BY DEF InputInv, Taken
<1> QED
  BY <1>1 DEF HumanTypeOK, PageStates, ApplyInput

\* Inputs that are dropped, wherever they are, reach the page no more.
LEMMA InputsDropped ==
    ASSUME HumanTypeOK, InputInv, sent' = sent, applied' = applied, page'.took \in {page.took, Nobody},
           \A j \in Challenge : file'[j].input \in {file[j].input, Nobody}
    PROVE  InputInv'
BY HumanAssumption DEF HumanTypeOK, PageStates, InputInv, Taken, Filed, HumanAssumption

\* The input that the page took is the one that is applied.
LEMMA InputReachesPage ==
    ASSUME HumanTypeOK, InputInv, page.took \in Input, ApplyInput, sent' = sent,
           page'.took = Nobody, \A j \in Challenge : file'[j].input \in {file[j].input, Nobody}
    PROVE  InputInv' /\ applied' \in [Input -> 0 .. 2]
BY HumanAssumption DEF HumanTypeOK, PageStates, InputInv, Taken, Filed, HumanAssumption, ApplyInput

\* An input moves from the file of the page to the page.
LEMMA InputIsTaken ==
    ASSUME HumanTypeOK, InputInv, page.on \in Challenge, page.took = Nobody, sent' = sent, applied' = applied,
           page'.took = file[page.on].input,
           \A j \in Challenge : file'[j].input = IF j = page.on THEN Nobody ELSE file[j].input
    PROVE  InputInv'
BY HumanAssumption DEF HumanTypeOK, PageStates, InputInv, Taken, Filed, HumanAssumption

\* No step of the page, of its handler or of a request breaks HumanInv.
LEMMA HumanNextInv == HumanInv /\ [HumanNext]_humanVars => HumanInv'
<1> SUFFICES ASSUME HumanTypeOK, PageInv, FileInv, InputInv, [HumanNext]_humanVars PROVE HumanInv'
  BY DEF HumanInv
<1> USE HumanAssumption
<1>1. ASSUME MeetChallenge PROVE HumanInv'
  <2>1. HumanTypeOK'
    BY <1>1 DEF MeetChallenge, HumanTypeOK, PageStates, PageInv, FileInv, InputInv, Taken, Closed, Visible,
       Files, HumanAssumption
  <2>2. PageInv' BY <1>1 DEF MeetChallenge, HumanTypeOK, PageStates, PageInv, FileInv, HumanAssumption
  <2>3. FileInv'
    BY <1>1 DEF MeetChallenge, HumanTypeOK, PageStates, PageInv, FileInv, Watched, Files, HumanAssumption
  <2>4. InputInv'
    <3>3. \A j \in Challenge : file'[j].input \in {file[j].input, Nobody}
      BY <1>1 DEF MeetChallenge
    <3>4. page'.took \in {page.took, Nobody} /\ sent' = sent /\ applied' = applied
      BY <1>1 DEF MeetChallenge, HumanTypeOK, PageStates
    <3> QED BY <3>3, <3>4, InputsDropped
  <2> QED BY <2>1, <2>2, <2>3, <2>4 DEF HumanInv
<1>2. ASSUME GiveUp PROVE HumanInv'
  <2>1. HumanTypeOK'
    BY <1>2 DEF GiveUp, HumanTypeOK, PageStates, PageInv, FileInv, InputInv, Taken, Closed, Visible, Files,
       HumanAssumption
  <2>2. PageInv' BY <1>2 DEF GiveUp, HumanTypeOK, PageStates, PageInv, FileInv, HumanAssumption
  <2>3. FileInv'
    BY <1>2 DEF GiveUp, HumanTypeOK, PageStates, PageInv, FileInv, Watched, Files, HumanAssumption
  <2>4. InputInv'
    <3>3. \A j \in Challenge : file'[j].input \in {file[j].input, Nobody} BY <1>2 DEF GiveUp
    <3>4. page'.took \in {page.took, Nobody} /\ sent' = sent /\ applied' = applied
      BY <1>2 DEF GiveUp, HumanTypeOK, PageStates
    <3> QED BY <3>3, <3>4, InputsDropped
  <2> QED BY <2>1, <2>2, <2>3, <2>4 DEF HumanInv
<1>3. ASSUME TakeAnswer PROVE HumanInv'
  <2>1. HumanTypeOK'
    <3>1. page.on \in Challenge BY <1>3 DEF TakeAnswer, PageInv
    <3>2. PICK status \in Visible \cup Closed : file' = Mark(page.on, status)
      BY <1>3 DEF TakeAnswer, Visible, Closed
    <3>3. file' \in [Challenge -> Files] BY <3>1, <3>2, MarkTyped
    <3>4. page' \in PageStates
      BY <1>3, <3>1 DEF TakeAnswer, HumanTypeOK, PageStates, Files, PageInv, HumanAssumption
    <3>5. applied' \in [Input -> 0 .. 2] BY <1>3 DEF TakeAnswer, HumanTypeOK, PageStates
    <3> QED BY <1>3, <3>3, <3>4, <3>5 DEF TakeAnswer, HumanTypeOK, PageStates
  <2>2. PageInv' BY <1>3 DEF TakeAnswer, Mark, HumanTypeOK, PageStates, PageInv, FileInv, HumanAssumption
  <2>3. FileInv'
    BY <1>3 DEF TakeAnswer, Mark, HumanTypeOK, PageStates, PageInv, FileInv, Watched, Files, HumanAssumption
  <2>4. InputInv'
    <3>1. page.on \in Challenge BY <1>3 DEF TakeAnswer, PageInv
    <3>2. PICK status : file' = Mark(page.on, status) BY <1>3 DEF TakeAnswer
    <3>3. \A j \in Challenge : file'[j].input = IF j = page.on THEN Nobody ELSE file[j].input
      BY <3>1, <3>2, MarkClears
    <3>4. page.took = Nobody /\ page'.took = file[page.on].input /\ sent' = sent /\ applied' = applied
      BY <1>3 DEF TakeAnswer, HumanTypeOK, PageStates, PageInv
    <3> QED BY <3>1, <3>3, <3>4, InputIsTaken
  <2> QED BY <2>1, <2>2, <2>3, <2>4 DEF HumanInv
<1>4. ASSUME TakeInteraction PROVE HumanInv'
  <2>1. HumanTypeOK'
    <3>1. page.on \in Challenge BY <1>4 DEF TakeInteraction, PageInv
    <3>2. PICK status \in Visible \cup Closed : file' = Mark(page.on, status)
      BY <1>4 DEF TakeInteraction, Visible, Closed
    <3>3. file' \in [Challenge -> Files] BY <3>1, <3>2, MarkTyped
    <3>4. page' \in PageStates
      BY <1>4, <3>1 DEF TakeInteraction, HumanTypeOK, PageStates, Files, PageInv, HumanAssumption
    <3>5. applied' \in [Input -> 0 .. 2] BY <1>4 DEF TakeInteraction, HumanTypeOK, PageStates
    <3> QED BY <1>4, <3>3, <3>4, <3>5 DEF TakeInteraction, HumanTypeOK, PageStates
  <2>2. PageInv'
    BY <1>4 DEF TakeInteraction, Mark, HumanTypeOK, PageStates, PageInv, FileInv, HumanAssumption
  <2>3. FileInv'
    BY <1>4 DEF TakeInteraction, Mark, HumanTypeOK, PageStates, PageInv, FileInv, Watched, Files,
       HumanAssumption
  <2>4. InputInv'
    <3>1. page.on \in Challenge BY <1>4 DEF TakeInteraction, PageInv
    <3>2. PICK status : file' = Mark(page.on, status) BY <1>4 DEF TakeInteraction
    <3>3. \A j \in Challenge : file'[j].input = IF j = page.on THEN Nobody ELSE file[j].input
      BY <3>1, <3>2, MarkClears
    <3>4. page.took = Nobody /\ page'.took = file[page.on].input /\ sent' = sent /\ applied' = applied
      BY <1>4 DEF TakeInteraction, HumanTypeOK, PageStates, PageInv
    <3> QED BY <3>1, <3>3, <3>4, InputIsTaken
  <2> QED BY <2>1, <2>2, <2>3, <2>4 DEF HumanInv
<1>5. ASSUME AnswerAccepted PROVE HumanInv'
  <2>1. HumanTypeOK'
    <3>1. page.on \in Challenge BY <1>5 DEF AnswerAccepted, PageInv
    <3>2. PICK status \in Visible \cup Closed : file' = Mark(page.on, status)
      BY <1>5 DEF AnswerAccepted, Visible, Closed
    <3>3. file' \in [Challenge -> Files] BY <3>1, <3>2, MarkTyped
    <3>4. page' \in PageStates
      BY <1>5, <3>1 DEF AnswerAccepted, HumanTypeOK, PageStates, Files, PageInv, HumanAssumption
    <3>6. page.took \in Input BY <1>5 DEF AnswerAccepted, HumanTypeOK, PageStates, PageInv
    <3>5. applied' \in [Input -> 0 .. 2]
      BY <1>5, <3>6, AppliedTyped DEF AnswerAccepted, HumanTypeOK, PageStates
    <3> QED BY <1>5, <3>3, <3>4, <3>5 DEF AnswerAccepted, HumanTypeOK, PageStates
  <2>2. PageInv'
    BY <1>5 DEF AnswerAccepted, ApplyInput, Mark, HumanTypeOK, PageStates, PageInv, FileInv, HumanAssumption
  <2>3. FileInv'
    BY <1>5 DEF AnswerAccepted, ApplyInput, Mark, HumanTypeOK, PageStates, PageInv, FileInv, Watched, Files,
       HumanAssumption
  <2>4. InputInv'
    <3>1. page.on \in Challenge BY <1>5 DEF AnswerAccepted, PageInv
    <3>2. PICK status : file' = Mark(page.on, status) BY <1>5 DEF AnswerAccepted
    <3>3. \A j \in Challenge : file'[j].input = IF j = page.on THEN Nobody ELSE file[j].input
      BY <3>1, <3>2, MarkClears
    <3>4. page.took \in Input /\ page'.took = Nobody /\ sent' = sent
      BY <1>5 DEF AnswerAccepted, HumanTypeOK, PageStates, PageInv
    <3>5. ApplyInput BY <1>5 DEF AnswerAccepted
    <3> QED BY <3>1, <3>3, <3>4, <3>5, InputReachesPage
  <2> QED BY <2>1, <2>2, <2>3, <2>4 DEF HumanInv
<1>6. ASSUME AnswerRefused PROVE HumanInv'
  <2>1. HumanTypeOK'
    <3>1. page.on \in Challenge BY <1>6 DEF AnswerRefused, PageInv
    <3>2. PICK status \in Visible \cup Closed : file' = Mark(page.on, status)
      BY <1>6 DEF AnswerRefused, Visible, Closed
    <3>3. file' \in [Challenge -> Files] BY <3>1, <3>2, MarkTyped
    <3>4. page' \in PageStates
      BY <1>6, <3>1 DEF AnswerRefused, HumanTypeOK, PageStates, Files, PageInv, HumanAssumption
    <3>6. page.took \in Input BY <1>6 DEF AnswerRefused, HumanTypeOK, PageStates, PageInv
    <3>5. applied' \in [Input -> 0 .. 2]
      BY <1>6, <3>6, AppliedTyped DEF AnswerRefused, HumanTypeOK, PageStates
    <3> QED BY <1>6, <3>3, <3>4, <3>5 DEF AnswerRefused, HumanTypeOK, PageStates
  <2>2. PageInv'
    BY <1>6 DEF AnswerRefused, ApplyInput, Mark, HumanTypeOK, PageStates, PageInv, FileInv, HumanAssumption
  <2>3. FileInv'
    BY <1>6 DEF AnswerRefused, ApplyInput, Mark, HumanTypeOK, PageStates, PageInv, FileInv, Watched, Files,
       HumanAssumption
  <2>4. InputInv'
    <3>1. page.on \in Challenge BY <1>6 DEF AnswerRefused, PageInv
    <3>2. PICK status : file' = Mark(page.on, status) BY <1>6 DEF AnswerRefused
    <3>3. \A j \in Challenge : file'[j].input = IF j = page.on THEN Nobody ELSE file[j].input
      BY <3>1, <3>2, MarkClears
    <3>4. page.took \in Input /\ page'.took = Nobody /\ sent' = sent
      BY <1>6 DEF AnswerRefused, HumanTypeOK, PageStates, PageInv
    <3>5. ApplyInput BY <1>6 DEF AnswerRefused
    <3> QED BY <3>1, <3>3, <3>4, <3>5, InputReachesPage
  <2> QED BY <2>1, <2>2, <2>3, <2>4 DEF HumanInv
<1>7. ASSUME ClickClears PROVE HumanInv'
  <2>1. HumanTypeOK'
    <3>1. page.on \in Challenge BY <1>7 DEF ClickClears, PageInv
    <3>2. PICK status \in Visible \cup Closed : file' = Mark(page.on, status)
      BY <1>7 DEF ClickClears, Visible, Closed
    <3>3. file' \in [Challenge -> Files] BY <3>1, <3>2, MarkTyped
    <3>4. page' \in PageStates
      BY <1>7, <3>1 DEF ClickClears, HumanTypeOK, PageStates, Files, PageInv, HumanAssumption
    <3>6. page.took \in Input BY <1>7 DEF ClickClears, HumanTypeOK, PageStates, PageInv
    <3>5. applied' \in [Input -> 0 .. 2]
      BY <1>7, <3>6, AppliedTyped DEF ClickClears, HumanTypeOK, PageStates
    <3> QED BY <1>7, <3>3, <3>4, <3>5 DEF ClickClears, HumanTypeOK, PageStates
  <2>2. PageInv'
    BY <1>7 DEF ClickClears, ApplyInput, Mark, HumanTypeOK, PageStates, PageInv, FileInv, HumanAssumption
  <2>3. FileInv'
    BY <1>7 DEF ClickClears, ApplyInput, Mark, HumanTypeOK, PageStates, PageInv, FileInv, Watched, Files,
       HumanAssumption
  <2>4. InputInv'
    <3>1. page.on \in Challenge BY <1>7 DEF ClickClears, PageInv
    <3>2. PICK status : file' = Mark(page.on, status) BY <1>7 DEF ClickClears
    <3>3. \A j \in Challenge : file'[j].input = IF j = page.on THEN Nobody ELSE file[j].input
      BY <3>1, <3>2, MarkClears
    <3>4. page.took \in Input /\ page'.took = Nobody /\ sent' = sent
      BY <1>7 DEF ClickClears, HumanTypeOK, PageStates, PageInv
    <3>5. ApplyInput BY <1>7 DEF ClickClears
    <3> QED BY <3>1, <3>3, <3>4, <3>5, InputReachesPage
  <2> QED BY <2>1, <2>2, <2>3, <2>4 DEF HumanInv
<1>8. ASSUME ClickGoesOn PROVE HumanInv'
  <2>1. HumanTypeOK'
    <3>1. page.on \in Challenge BY <1>8 DEF ClickGoesOn, PageInv
    <3>2. PICK status \in Visible \cup Closed : file' = Mark(page.on, status)
      BY <1>8 DEF ClickGoesOn, Visible, Closed
    <3>3. file' \in [Challenge -> Files] BY <3>1, <3>2, MarkTyped
    <3>7. page.tries + 1 \in 0 .. MaxAttempts + MaxActions
      BY <1>8 DEF ClickGoesOn, HumanTypeOK, PageStates, PageInv, HumanAssumption
    <3>4. page' \in PageStates
      BY <1>8, <3>1, <3>7 DEF ClickGoesOn, HumanTypeOK, PageStates, Files, PageInv, HumanAssumption
    <3>6. page.took \in Input BY <1>8 DEF ClickGoesOn, HumanTypeOK, PageStates, PageInv
    <3>5. applied' \in [Input -> 0 .. 2]
      BY <1>8, <3>6, AppliedTyped DEF ClickGoesOn, HumanTypeOK, PageStates
    <3> QED BY <1>8, <3>3, <3>4, <3>5 DEF ClickGoesOn, HumanTypeOK, PageStates
  <2>2. PageInv'
    BY <1>8 DEF ClickGoesOn, ApplyInput, Mark, HumanTypeOK, PageStates, PageInv, FileInv, HumanAssumption
  <2>3. FileInv'
    BY <1>8 DEF ClickGoesOn, ApplyInput, Mark, HumanTypeOK, PageStates, PageInv, FileInv, Watched, Files,
       HumanAssumption
  <2>4. InputInv'
    <3>1. page.on \in Challenge BY <1>8 DEF ClickGoesOn, PageInv
    <3>2. PICK status : file' = Mark(page.on, status) BY <1>8 DEF ClickGoesOn
    <3>3. \A j \in Challenge : file'[j].input = IF j = page.on THEN Nobody ELSE file[j].input
      BY <3>1, <3>2, MarkClears
    <3>4. page.took \in Input /\ page'.took = Nobody /\ sent' = sent
      BY <1>8 DEF ClickGoesOn, HumanTypeOK, PageStates, PageInv
    <3>5. ApplyInput BY <1>8 DEF ClickGoesOn
    <3> QED BY <3>1, <3>3, <3>4, <3>5, InputReachesPage
  <2> QED BY <2>1, <2>2, <2>3, <2>4 DEF HumanInv
<1>9. ASSUME BrowserFails PROVE HumanInv'
  <2>1. HumanTypeOK'
    <3>1. page.on \in Challenge BY <1>9 DEF BrowserFails, PageInv
    <3>2. PICK status \in Visible \cup Closed : file' = Mark(page.on, status)
      BY <1>9 DEF BrowserFails, Visible, Closed
    <3>3. file' \in [Challenge -> Files] BY <3>1, <3>2, MarkTyped
    <3>4. page' \in PageStates
      BY <1>9, <3>1 DEF BrowserFails, HumanTypeOK, PageStates, Files, PageInv, HumanAssumption
    <3>6. page.took \in Input BY <1>9 DEF BrowserFails, HumanTypeOK, PageStates, PageInv
    <3>5. applied' \in [Input -> 0 .. 2]
      BY <1>9, <3>6, AppliedTyped DEF BrowserFails, HumanTypeOK, PageStates
    <3> QED BY <1>9, <3>3, <3>4, <3>5 DEF BrowserFails, HumanTypeOK, PageStates
  <2>2. PageInv'
    BY <1>9 DEF BrowserFails, ApplyInput, Mark, HumanTypeOK, PageStates, PageInv, FileInv, HumanAssumption
  <2>3. FileInv'
    BY <1>9 DEF BrowserFails, ApplyInput, Mark, HumanTypeOK, PageStates, PageInv, FileInv, Watched, Files,
       HumanAssumption
  <2>4. InputInv'
    <3>1. page.on \in Challenge BY <1>9 DEF BrowserFails, PageInv
    <3>2. PICK status : file' = Mark(page.on, status) BY <1>9 DEF BrowserFails
    <3>3. \A j \in Challenge : file'[j].input = IF j = page.on THEN Nobody ELSE file[j].input
      BY <3>1, <3>2, MarkClears
    <3>4. page.took \in Input /\ page'.took = Nobody /\ sent' = sent
      BY <1>9 DEF BrowserFails, HumanTypeOK, PageStates, PageInv
    <3>5. CASE ApplyInput BY <3>1, <3>3, <3>4, <3>5, InputReachesPage
    <3>6. CASE applied' = applied BY <3>1, <3>3, <3>4, <3>6, InputsDropped
    <3> QED BY <1>9, <3>5, <3>6 DEF BrowserFails
  <2> QED BY <2>1, <2>2, <2>3, <2>4 DEF HumanInv
<1>10. ASSUME WaitExpires PROVE HumanInv'
  <2>1. HumanTypeOK'
    <3>1. page.on \in Challenge BY <1>10 DEF WaitExpires, PageInv
    <3>2. PICK status \in Visible \cup Closed : file' = Mark(page.on, status)
      BY <1>10 DEF WaitExpires, Visible, Closed
    <3>3. file' \in [Challenge -> Files] BY <3>1, <3>2, MarkTyped
    <3>4. page' \in PageStates
      BY <1>10, <3>1 DEF WaitExpires, HumanTypeOK, PageStates, Files, PageInv, HumanAssumption
    <3>5. applied' \in [Input -> 0 .. 2] BY <1>10 DEF WaitExpires, HumanTypeOK, PageStates
    <3> QED BY <1>10, <3>3, <3>4, <3>5 DEF WaitExpires, HumanTypeOK, PageStates
  <2>2. PageInv' BY <1>10 DEF WaitExpires, Mark, HumanTypeOK, PageStates, PageInv, FileInv, HumanAssumption
  <2>3. FileInv'
    BY <1>10
       DEF WaitExpires, Mark, HumanTypeOK, PageStates, PageInv, FileInv, Watched, Files, HumanAssumption
  <2>4. InputInv'
    <3>1. page.on \in Challenge BY <1>10 DEF WaitExpires, PageInv
    <3>2. PICK status : file' = Mark(page.on, status) BY <1>10 DEF WaitExpires
    <3>3. \A j \in Challenge : file'[j].input = IF j = page.on THEN Nobody ELSE file[j].input
      BY <3>1, <3>2, MarkClears
    <3>4. page'.took \in {page.took, Nobody} /\ sent' = sent /\ applied' = applied
      BY <1>10 DEF WaitExpires, HumanTypeOK, PageStates
    <3> QED BY <3>1, <3>3, <3>4, InputsDropped
  <2> QED BY <2>1, <2>2, <2>3, <2>4 DEF HumanInv
<1>11. ASSUME ActionLimit PROVE HumanInv'
  <2>1. HumanTypeOK'
    <3>1. page.on \in Challenge BY <1>11 DEF ActionLimit, PageInv
    <3>2. PICK status \in Visible \cup Closed : file' = Mark(page.on, status)
      BY <1>11 DEF ActionLimit, Visible, Closed
    <3>3. file' \in [Challenge -> Files] BY <3>1, <3>2, MarkTyped
    <3>4. page' \in PageStates
      BY <1>11, <3>1 DEF ActionLimit, HumanTypeOK, PageStates, Files, PageInv, HumanAssumption
    <3>5. applied' \in [Input -> 0 .. 2] BY <1>11 DEF ActionLimit, HumanTypeOK, PageStates
    <3> QED BY <1>11, <3>3, <3>4, <3>5 DEF ActionLimit, HumanTypeOK, PageStates
  <2>2. PageInv' BY <1>11 DEF ActionLimit, Mark, HumanTypeOK, PageStates, PageInv, FileInv, HumanAssumption
  <2>3. FileInv'
    BY <1>11
       DEF ActionLimit, Mark, HumanTypeOK, PageStates, PageInv, FileInv, Watched, Files, HumanAssumption
  <2>4. InputInv'
    <3>1. page.on \in Challenge BY <1>11 DEF ActionLimit, PageInv
    <3>2. PICK status : file' = Mark(page.on, status) BY <1>11 DEF ActionLimit
    <3>3. \A j \in Challenge : file'[j].input = IF j = page.on THEN Nobody ELSE file[j].input
      BY <3>1, <3>2, MarkClears
    <3>4. page'.took \in {page.took, Nobody} /\ sent' = sent /\ applied' = applied
      BY <1>11 DEF ActionLimit, HumanTypeOK, PageStates
    <3> QED BY <3>1, <3>3, <3>4, InputsDropped
  <2> QED BY <2>1, <2>2, <2>3, <2>4 DEF HumanInv
<1>12. ASSUME CutOff PROVE HumanInv'
  <2>1. HumanTypeOK'
    BY <1>12 DEF CutOff, HumanTypeOK, PageStates, PageInv, FileInv, InputInv, Taken, Closed, Visible, Files,
       HumanAssumption
  <2>2. PageInv' BY <1>12 DEF CutOff, HumanTypeOK, PageStates, PageInv, FileInv, HumanAssumption
  <2>3. FileInv'
    BY <1>12 DEF CutOff, HumanTypeOK, PageStates, PageInv, FileInv, Watched, Files, HumanAssumption
  <2>4. InputInv'
    <3>3. \A j \in Challenge : file'[j].input \in {file[j].input, Nobody} BY <1>12 DEF CutOff
    <3>4. page'.took \in {page.took, Nobody} /\ sent' = sent /\ applied' = applied
      BY <1>12 DEF CutOff, HumanTypeOK, PageStates
    <3> QED BY <3>3, <3>4, InputsDropped
  <2> QED BY <2>1, <2>2, <2>3, <2>4 DEF HumanInv
<1>13. ASSUME NEW kind \in {"text", "interactive"}, CreateChallenge(kind) PROVE HumanInv'
  <2>1. HumanTypeOK'
    <3>1. page.on + 1 \in Challenge /\ page.tries \in 0 .. MaxAttempts - 1
      BY <1>13 DEF CreateChallenge, HumanTypeOK, PageStates, HumanAssumption
    <3>2. page.tries + 1 \in 0 .. MaxAttempts + MaxActions /\ 0 \in 0 .. MaxAttempts + MaxActions
      BY <3>1 DEF HumanAssumption
    <3>3. page' \in PageStates
      BY <1>13, <3>1, <3>2 DEF CreateChallenge, HumanTypeOK, PageStates
    <3>4. [status |-> IF kind = "text" THEN "pending" ELSE "interactive_required", kind |-> kind,
           input |-> Nobody] \in Files
      BY DEF Files, Visible
    <3>5. file' \in [Challenge -> Files]
      BY <1>13, <3>1, <3>4 DEF CreateChallenge, HumanTypeOK, PageStates
    <3> QED BY <1>13, <3>3, <3>5 DEF CreateChallenge, HumanTypeOK, PageStates
  <2>2. PageInv' BY <1>13 DEF CreateChallenge, HumanTypeOK, PageStates, PageInv, FileInv, HumanAssumption
  <2>3. FileInv'
    BY <1>13 DEF CreateChallenge, HumanTypeOK, PageStates, PageInv, FileInv, Watched, Files, HumanAssumption
  <2>4. InputInv'
    BY <1>13 DEF CreateChallenge, HumanTypeOK, PageStates, PageInv, FileInv, InputInv, Taken, Filed,
       HumanAssumption
  <2> QED BY <2>1, <2>2, <2>3, <2>4 DEF HumanInv
<1>14. ASSUME NEW n \in Input, WriteInput(n) PROVE HumanInv'
  <2>1. HumanTypeOK'
    <3>1. sent[n].on \in Challenge /\ sent[n].read \in Files
      BY <1>14 DEF WriteInput, HumanTypeOK, PageStates, FileInv, Requests
    <3>2. [sent[n].read EXCEPT !.input = n,
                !.status = IF sent[n].read.kind = "text" THEN "answered" ELSE "interaction_queued"] \in Files
      BY <3>1 DEF Files, Visible
    <3>3. file' \in [Challenge -> Files]
      BY <1>14, <3>1, <3>2 DEF WriteInput, HumanTypeOK, PageStates
    <3>4. InputRequest("over", 0, Absent) \in Requests
      BY DEF InputRequest, Requests, Absent, Files
    <3>5. sent' \in [Input -> Requests]
      BY <1>14, <3>4 DEF WriteInput, HumanTypeOK, PageStates
    <3> QED BY <1>14, <3>3, <3>5 DEF WriteInput, HumanTypeOK, PageStates
  <2>2. PageInv'
    BY <1>14 DEF WriteInput, InputRequest, Requests, Wanted, HumanTypeOK, PageStates, PageInv, FileInv,
       HumanAssumption
  <2>3. FileInv'
    BY <1>14 DEF WriteInput, InputRequest, Requests, Wanted, HumanTypeOK, PageStates, PageInv, FileInv, Watched,
       Files, HumanAssumption
  <2>4. InputInv'
    BY <1>14 DEF WriteInput, InputRequest, Requests, Wanted, HumanTypeOK, PageStates, PageInv, FileInv, InputInv,
       Taken, Filed, HumanAssumption
  <2> QED BY <2>1, <2>2, <2>3, <2>4 DEF HumanInv
<1>15. ASSUME NEW n \in Input, NEW k \in Challenge, ReadChallenge(n, k) PROVE HumanInv'
  <2>1. HumanTypeOK'
    <3>1. file[k] \in Files
      BY DEF HumanTypeOK, PageStates
    <3>2. InputRequest("over", 0, Absent) \in Requests /\ InputRequest("read", k, file[k]) \in Requests
      BY <3>1 DEF InputRequest, Requests, Absent, Files
    <3>3. sent' \in [Input -> Requests]
      BY <1>15, <3>2 DEF ReadChallenge, HumanTypeOK, PageStates
    <3> QED BY <1>15, <3>3 DEF ReadChallenge, HumanTypeOK, PageStates
  <2>2. PageInv'
    BY <1>15 DEF ReadChallenge, InputRequest, Requests, Wanted, HumanTypeOK, PageStates, PageInv, FileInv,
       HumanAssumption
  <2>3. FileInv'
    BY <1>15 DEF ReadChallenge, InputRequest, Requests, Wanted, HumanTypeOK, PageStates, PageInv, FileInv,
       Watched, Files, HumanAssumption
  <2>4. InputInv'
    BY <1>15 DEF ReadChallenge, InputRequest, Requests, Wanted, HumanTypeOK, PageStates, PageInv, FileInv,
       InputInv, Taken, Filed, HumanAssumption
  <2> QED BY <2>1, <2>2, <2>3, <2>4 DEF HumanInv
<1>16. CASE UNCHANGED humanVars
  BY <1>16
     DEF humanVars, HumanInv, HumanTypeOK, PageStates, PageInv, FileInv, InputInv, Taken, Filed, Watched
<1> QED
  BY <1>1, <1>2, <1>3, <1>4, <1>5, <1>6, <1>7, <1>8, <1>9, <1>10, <1>11, <1>12, <1>13, <1>14,
     <1>15, <1>16 DEF HumanNext, HandlerStep

(***************************************************************************)
(* For any number of challenges and inputs: what a person has sent reaches *)
(* the page once at most, and a challenge that is pending has its handler  *)
(* (human_interaction.py, crawler/browser/runtime.py).                     *)
(***************************************************************************)
THEOREM InputsAreServedOnce == HumanSpec => []ChallengesAreServed
<1>1. HumanInv => ChallengesAreServed
  BY DEF HumanInv, FileInv, InputInv, ChallengesAreServed
<1> QED
  BY HumanInitInv, HumanNextInv, <1>1, PTL DEF HumanSpec

(***************************************************************************)
(* Recipes of sites (SiteRecipes).                                         *)
(***************************************************************************)
RecipesSpec == RecipesInit /\ [][RecipesNext]_recipeVars

\* A page task at any time; ids and versions are not counted here.
Afters    == {"plain", "number", "judge drafts", "over"}
AnyVisits == [at : Phases \cup {"save", "prune"}, then : Afters, held : AnyRecipe \cup {NoRecipe},
              page : Nat \cup {NoPage, Plain}, replayed : Nat \cup {NoPage},
              draft : AnyRecipe \cup {NoRecipe}, pending : AnyRecipe \cup {NoRecipe}, asked : Nat,
              backed : SUBSET Nat]

RecipeShapes ==
    /\ recipes \in [Versions -> AnyRecipe \cup {NoRecipe}]
    /\ minted \in Nat
    /\ visit \in [PageTask -> AnyVisits]

\* Every recipe that has its id: rows, copies in use, and candidates.
Copies == ({recipes[v] : v \in Versions} \cup {visit[t].held : t \in PageTask}
             \cup {visit[t].pending : t \in PageTask}
             \cup {visit[t].draft : t \in {u \in PageTask : At(u, "verify")}}) \ {NoRecipe}

\* An id stands for the same fills wherever its recipe is.
IdsTellFills ==
    /\ \A r \in Copies : r.id <= minted
    /\ \A r, s \in Copies : r.id = s.id => r.fills = s.fills
    /\ \A t \in PageTask :
         /\ visit[t].page <= minted
         /\ \A r \in Copies : r.id = visit[t].page => r.fills \subseteq AllowedOf[t]

\* What is stored, or may be, has been proved by its page.
HeldAreProved ==
    /\ \A v \in Versions : recipes[v] # NoRecipe => recipes[v].id \in proved
    /\ \A t \in PageTask :
         /\ visit[t].held # NoRecipe => visit[t].held.id \in proved
         /\ At(t, "replay") \/ At(t, "save") => visit[t].held # NoRecipe
         /\ visit[t].backed \subseteq proved

\* An agent's steps are on their way to the page.
Drafting(w) == \/ w.at \in {"agent", "number", "verify"}
               \/ w.at \in {"save", "prune"} /\ w.then = "number"

FillsAreAllowed ==
    \A t \in PageTask :
      /\ At(t, "replay") => visit[t].held.fills \subseteq AllowedOf[t]
      /\ Drafting(visit[t]) => visit[t].draft # NoRecipe /\ visit[t].draft.fills \subseteq AllowedOf[t]

RecipesInv == RecipeShapes /\ IdsTellFills /\ HeldAreProved /\ FillsAreAllowed

--------------------------------------------------------------------------------
Same(r, s) == s.id = r.id /\ s.fills = r.fills
Traced(r)  == \E s \in Copies : Same(r, s)

\* What has an id is a recipe.
LEMMA CopiesAreRecipes == RecipeShapes => Copies \subseteq AnyRecipe
BY DEF RecipeShapes, Copies, AnyVisits

\* A stored version has an id.
LEMMA RowsAreCopies ==
    ASSUME NEW v \in Versions, recipes[v] # NoRecipe
    PROVE  recipes[v] \in Copies
BY DEF Copies

\* So has a recipe in use.
LEMMA UsedAreCopies ==
    ASSUME NEW t \in PageTask
    PROVE  /\ visit[t].held # NoRecipe => visit[t].held \in Copies
           /\ visit[t].pending # NoRecipe => visit[t].pending \in Copies
           /\ At(t, "verify") /\ visit[t].draft # NoRecipe => visit[t].draft \in Copies
BY DEF Copies

\* Ids go on telling fills while every copy has the id and the fills of an older one.
LEMMA CopiesStay ==
    ASSUME RecipeShapes, RecipeShapes', IdsTellFills, minted' = minted,
           \A r \in Copies' : Traced(r),
           \A t \in PageTask : \/ visit'[t].page \in {visit[t].page, Plain, NoPage}
                               \/ \E s \in Copies : s.id = visit'[t].page /\ s.fills \subseteq AllowedOf[t]
    PROVE  IdsTellFills'
<1> Copies \subseteq AnyRecipe /\ Copies' \subseteq AnyRecipe
  <2>1. (RecipeShapes => Copies \subseteq AnyRecipe)'
    BY CopiesAreRecipes, PTL
  <2> QED BY <2>1, CopiesAreRecipes
<1>1. \A r \in Copies' : r.id <= minted'
  BY DEF Traced, Same, IdsTellFills
<1>2. \A r, s \in Copies' : r.id = s.id => r.fills = s.fills
  BY DEF Traced, Same, IdsTellFills
<1>3. ASSUME NEW t \in PageTask, NEW r \in Copies'
      PROVE  visit'[t].page <= minted' /\ (r.id = visit'[t].page => r.fills \subseteq AllowedOf[t])
  <2>1. PICK s \in Copies : s.id = r.id /\ s.fills = r.fills
    BY DEF Traced, Same
  <2>2. s.id \in Nat /\ minted \in Nat /\ visit[t].page <= minted
    BY DEF AnyRecipe, RecipeShapes, IdsTellFills
  <2>3. CASE visit'[t].page \in {visit[t].page, Plain, NoPage}
    BY <2>1, <2>2, <2>3 DEF IdsTellFills, Plain, NoPage
  <2>4. CASE \E u \in Copies : u.id = visit'[t].page /\ u.fills \subseteq AllowedOf[t]
    BY <2>1, <2>4 DEF IdsTellFills
  <2> QED BY <2>3, <2>4
<1>4. ASSUME NEW t \in PageTask PROVE visit'[t].page <= minted'
  BY DEF IdsTellFills, RecipeShapes, AnyVisits, Plain, NoPage
<1> QED BY <1>1, <1>2, <1>3, <1>4 DEF IdsTellFills

\* A step of one task that leaves the store alone: what its new state has to be.
Sound(t, new) ==
    /\ new \in AnyVisits
    /\ new.held # NoRecipe => Traced(new.held) /\ new.held.id \in proved
    /\ new.pending # NoRecipe => Traced(new.pending)
    /\ new.at = "verify" => Traced(new.draft)
    /\ \/ new.page \in {visit[t].page, Plain, NoPage}
       \/ \E s \in Copies : s.id = new.page /\ s.fills \subseteq AllowedOf[t]
    /\ new.at \in {"replay", "save"} => new.held # NoRecipe
    /\ new.at = "replay" => new.held.fills \subseteq AllowedOf[t]
    /\ new.backed \subseteq proved
    /\ Drafting(new) => new.draft # NoRecipe /\ new.draft.fills \subseteq AllowedOf[t]

\* A page task that goes on with copies of known recipes, and stores nothing, keeps RecipesInv.
LEMMA VisitGoesOn ==
    ASSUME RecipesInv, NEW t \in PageTask, NEW new, Sound(t, new), Go(t, new),
     recipes' = recipes, minted' = minted, proved' = proved
    PROVE  RecipesInv'
<1>0. visit \in [PageTask -> AnyVisits] /\ visit' = [visit EXCEPT ![t] = new]
  BY DEF RecipesInv, RecipeShapes, Go
<1>1. visit' \in [PageTask -> AnyVisits] /\ visit'[t] = new /\ \A u \in PageTask \ {t} : visit'[u] = visit[u]
  BY <1>0 DEF Sound
<1>2. RecipeShapes'
  BY <1>1 DEF RecipesInv, RecipeShapes
<1>3. \A r \in Copies' : Traced(r)
  <2>1. \A r \in Copies : Traced(r)
    BY DEF Traced, Same
  <2>2. ASSUME NEW r \in Copies' PROVE Traced(r)
    <3>1. CASE \E v \in Versions : r = recipes[v]
      BY <2>1, <3>1, <2>2 DEF Copies
    <3>2. CASE \E u \in PageTask : r = visit'[u].held \/ r = visit'[u].pending
             \/ (visit'[u].at = "verify" /\ r = visit'[u].draft)
      <4>1. PICK u \in PageTask : r = visit'[u].held \/ r = visit'[u].pending
               \/ (visit'[u].at = "verify" /\ r = visit'[u].draft)
        BY <3>2
      <4>2. r # NoRecipe
        BY DEF Copies
      <4>3. CASE u = t
        BY <4>1, <4>2, <4>3, <1>1 DEF Sound
      <4>4. CASE u # t
        BY <4>1, <4>2, <4>4, <1>1, <2>1, UsedAreCopies DEF At
      <4> QED BY <4>3, <4>4
    <3> QED BY <3>1, <3>2 DEF Copies, At
  <2> QED BY <2>2
<1>4. IdsTellFills'
  BY <1>1, <1>2, <1>3, CopiesStay DEF RecipesInv, Sound
<1>5. HeldAreProved'
  BY <1>1 DEF RecipesInv, HeldAreProved, Sound, At
<1>6. FillsAreAllowed'
  BY <1>1 DEF RecipesInv, FillsAreAllowed, Sound, At
<1> QED BY <1>2, <1>4, <1>5, <1>6 DEF RecipesInv

\* Among versions there is always a newest one.
LEMMA NewestOf ==
    ASSUME NEW S, S \subseteq Versions, S # {}
    PROVE  LET newest == CHOOSE v \in S : \A w \in S : w <= v
           IN newest \in S /\ \A w \in S : w <= newest
<1>1. Cardinality(PageTask) \in Nat
  BY RecipeAssumption, FS_CardinalityType
<1>2. S \subseteq 0 .. Cardinality(PageTask) + 1 /\ Cardinality(PageTask) + 1 \in Nat
  BY <1>1 DEF Versions
<1>3. \E v \in S : \A w \in S : w <= v
  BY <1>2, NatMax
<1> QED BY <1>3

\* The newest version is a stored one.
LEMMA NewestIsStored == StoredVersions # {} => Newest \in StoredVersions /\ Newest \in Versions /\ \A w \in StoredVersions : w <= Newest
<1>1. StoredVersions \subseteq Versions
  BY DEF StoredVersions
<1> QED BY <1>1, NewestOf DEF Newest

\* The newest recipe is one of the rows.
LEMMA LatestIsProved ==
    ASSUME RecipesInv, Latest # NoRecipe
    PROVE  Latest \in Copies /\ Latest \in AnyRecipe /\ Latest.id \in proved
<1>1. Newest \in Versions /\ Latest = recipes[Newest]
  BY NewestIsStored DEF Latest
<1> QED BY <1>1, CopiesAreRecipes, RowsAreCopies DEF RecipesInv, HeldAreProved

\* What is done to a copy leaves its id and its fills.
LEMMA CopiesAreDerived ==
    ASSUME NEW r \in AnyRecipe, r \in Copies
    PROVE  \A s \in {r, Invalidated(r), Succeeded(r), Failed(r)} : s \in AnyRecipe /\ s # NoRecipe
       /\ s.id = r.id /\ Traced(s)
<1> DEFINE Like(s) == s \in AnyRecipe /\ s.id = r.id /\ s.fills = r.fills
<1>a. Like(r) /\ Like(Invalidated(r))
  BY DEF AnyRecipe, Invalidated
<1>b. Like(Succeeded(r))
  BY DEF AnyRecipe, Succeeded
<1>c. Like(Failed(r))
  <2>1. CASE r.status = "invalidated"
    BY <1>a, <2>1 DEF Failed
  <2>2. CASE r.status # "invalidated"
    <3> DEFINE st == IF r.failures + 1 >= Threshold THEN "invalidated" ELSE r.status
    <3>1. st \in {"active", "invalidated"} /\ r.failures + 1 \in Nat
      BY DEF AnyRecipe
    <3>2. Failed(r) = [r EXCEPT !.failures = r.failures + 1, !.status = st]
      BY <2>2 DEF Failed
    <3> HIDE DEF st
    <3> QED BY <3>1, <3>2 DEF AnyRecipe
  <2> QED BY <2>1, <2>2
<1>1. \A s \in {r, Invalidated(r), Succeeded(r), Failed(r)} : s \in AnyRecipe /\ s.id = r.id
         /\ s.fills = r.fills
  BY <1>a, <1>b, <1>c
<1> QED BY <1>1, RecipeAssumption DEF Traced, Same

\* What holds of a task between its steps.
LEMMA VisitIsSound ==
    ASSUME RecipesInv, NEW t \in PageTask
    PROVE  /\ visit[t] \in AnyVisits
           /\ visit[t].held # NoRecipe => Traced(visit[t].held) /\ visit[t].held.id \in proved
           /\ visit[t].pending # NoRecipe => Traced(visit[t].pending)
           /\ visit[t].backed \subseteq proved
<1>1. visit[t] \in AnyVisits
  BY DEF RecipesInv, RecipeShapes
<1>2. \A r \in Copies : Traced(r)
  BY DEF Traced, Same
<1> QED BY <1>1, <1>2, UsedAreCopies DEF RecipesInv, HeldAreProved

\* A page task that moves on is a page task.
LEMMA MovedIsVisit ==
    ASSUME RecipesInv, NEW t \in PageTask, NEW to \in Phases \cup {"save", "prune"}
    PROVE  /\ Moved(t, to) \in AnyVisits
           /\ [Moved(t, to) EXCEPT !.draft = NoRecipe] \in AnyVisits
           /\ [Moved(t, to) EXCEPT !.page = Plain, !.draft = NoRecipe] \in AnyVisits
<1>1. visit[t] \in AnyVisits
  BY VisitIsSound
<1>2. Visit("over") \in AnyVisits
  BY DEF Visit, AnyVisits, Afters, Phases
<1>3. Moved(t, to) \in AnyVisits
  BY <1>1, <1>2 DEF Moved, AnyVisits
<1> QED BY <1>3 DEF AnyVisits

\* So is one whose candidate is dropped.
LEMMA NoCandidateIsVisit ==
    ASSUME RecipesInv, NEW t \in PageTask
    PROVE  NoCandidate(t) \in AnyVisits
BY MovedIsVisit DEF NoCandidate, Phases

\* A step that brings no recipe along.
LEMMA PlainStepIsSound ==
    ASSUME RecipesInv, NEW t \in PageTask, NEW new \in AnyVisits,
           new.held \in {visit[t].held, NoRecipe}, new.pending \in {visit[t].pending, NoRecipe},
           new.backed \in {visit[t].backed, {}}, new.page \in {visit[t].page, Plain, NoPage},
           new.at \notin {"replay", "save", "verify"}, ~Drafting(new)
    PROVE  Sound(t, new)
BY VisitIsSound DEF Sound

\* One lemma for each action: it keeps RecipesInv.
LEMMA PlainPageKeeps == ASSUME RecipesInv, NEW t \in PageTask, PlainPage(t) PROVE RecipesInv'
<1> DEFINE new == [Moved(t, "page") EXCEPT !.page = Plain]
<1>0. visit[t] \in AnyVisits
  BY VisitIsSound
<1>1. Sound(t, new)
  <2>1. new \in AnyVisits
    BY ZenonT(30), <1>0 DEF PlainPage, Moved, Visit, AnyVisits, Afters, Phases
  <2>2. /\ new.held \in {visit[t].held, NoRecipe} /\ new.pending \in {visit[t].pending, NoRecipe}
        /\ new.backed \in {visit[t].backed, {}} /\ new.page \in {visit[t].page, Plain, NoPage}
        /\ new.at \notin {"replay", "save", "verify"} /\ ~Drafting(new)
    BY <1>0 DEF PlainPage, At, Moved, NoCandidate, Visit, AnyVisits, Drafting
  <2> HIDE DEF new
  <2> QED BY <2>1, <2>2, PlainStepIsSound
<1>2. Go(t, new) /\ recipes' = recipes /\ minted' = minted /\ proved' = proved
  BY DEF PlainPage
<1> HIDE DEF new
<1> QED BY <1>1, <1>2, VisitGoesOn

LEMMA PlainFailsKeeps == ASSUME RecipesInv, NEW t \in PageTask, PlainFails(t) PROVE RecipesInv'
<1> DEFINE new == Moved(t, "over")
<1>0. visit[t] \in AnyVisits
  BY VisitIsSound
<1>1. Sound(t, new)
  <2>1. new \in AnyVisits
    BY <1>0 DEF PlainFails, Moved, Visit, AnyVisits, Afters, Phases
  <2>2. /\ new.held \in {visit[t].held, NoRecipe} /\ new.pending \in {visit[t].pending, NoRecipe}
        /\ new.backed \in {visit[t].backed, {}} /\ new.page \in {visit[t].page, Plain, NoPage}
        /\ new.at \notin {"replay", "save", "verify"} /\ ~Drafting(new)
    BY <1>0 DEF PlainFails, At, Moved, NoCandidate, Visit, AnyVisits, Drafting
  <2> HIDE DEF new
  <2> QED BY <2>1, <2>2, PlainStepIsSound
<1>2. Go(t, new) /\ recipes' = recipes /\ minted' = minted /\ proved' = proved
  BY DEF PlainFails
<1> HIDE DEF new
<1> QED BY <1>1, <1>2, VisitGoesOn

LEMMA SaveFailsKeeps == ASSUME RecipesInv, NEW t \in PageTask, SaveFails(t) PROVE RecipesInv'
<1> DEFINE new == Moved(t, "over")
<1>0. visit[t] \in AnyVisits
  BY VisitIsSound
<1>1. Sound(t, new)
  <2>1. new \in AnyVisits
    BY <1>0 DEF SaveFails, Moved, Visit, AnyVisits, Afters, Phases
  <2>2. /\ new.held \in {visit[t].held, NoRecipe} /\ new.pending \in {visit[t].pending, NoRecipe}
        /\ new.backed \in {visit[t].backed, {}} /\ new.page \in {visit[t].page, Plain, NoPage}
        /\ new.at \notin {"replay", "save", "verify"} /\ ~Drafting(new)
    BY <1>0 DEF SaveFails, At, Moved, NoCandidate, Visit, AnyVisits, Drafting
  <2> HIDE DEF new
  <2> QED BY <2>1, <2>2, PlainStepIsSound
<1>2. Go(t, new) /\ recipes' = recipes /\ minted' = minted /\ proved' = proved
  BY DEF SaveFails
<1> HIDE DEF new
<1> QED BY <1>1, <1>2, VisitGoesOn

LEMMA NoPathKeeps == ASSUME RecipesInv, NEW t \in PageTask, NEW b \in BOOLEAN, NoPath(t, b) PROVE RecipesInv'
<1> DEFINE new == IF b THEN [Moved(t, "page") EXCEPT !.page = Plain, !.draft = NoRecipe] ELSE NoCandidate(t)
<1>0. visit[t] \in AnyVisits
  BY VisitIsSound
<1>1. Sound(t, new)
  <2>1. new \in AnyVisits
    BY MovedIsVisit, NoCandidateIsVisit DEF Phases
  <2>2. /\ new.held \in {visit[t].held, NoRecipe} /\ new.pending \in {visit[t].pending, NoRecipe}
        /\ new.backed \in {visit[t].backed, {}} /\ new.page \in {visit[t].page, Plain, NoPage}
        /\ new.at \notin {"replay", "save", "verify"} /\ ~Drafting(new)
    BY <1>0 DEF NoPath, At, Moved, NoCandidate, Visit, AnyVisits, Drafting
  <2> HIDE DEF new
  <2> QED BY <2>1, <2>2, PlainStepIsSound
<1>2. Go(t, new) /\ recipes' = recipes /\ minted' = minted /\ proved' = proved
  BY DEF NoPath
<1> HIDE DEF new
<1> QED BY <1>1, <1>2, VisitGoesOn

LEMMA CandidateFailsKeeps ==
    ASSUME RecipesInv, NEW t \in PageTask, NEW b \in BOOLEAN, CandidateFails(t, b)
    PROVE  RecipesInv'
<1> DEFINE new == IF b THEN [Moved(t, "page") EXCEPT !.page = Plain, !.draft = NoRecipe] ELSE NoCandidate(t)
<1>0. visit[t] \in AnyVisits
  BY VisitIsSound
<1>1. Sound(t, new)
  <2>1. new \in AnyVisits
    BY MovedIsVisit, NoCandidateIsVisit DEF Phases
  <2>2. /\ new.held \in {visit[t].held, NoRecipe} /\ new.pending \in {visit[t].pending, NoRecipe}
        /\ new.backed \in {visit[t].backed, {}} /\ new.page \in {visit[t].page, Plain, NoPage}
        /\ new.at \notin {"replay", "save", "verify"} /\ ~Drafting(new)
    BY <1>0 DEF CandidateFails, At, Moved, NoCandidate, Visit, AnyVisits, Drafting
  <2> HIDE DEF new
  <2> QED BY <2>1, <2>2, PlainStepIsSound
<1>2. Go(t, new) /\ recipes' = recipes /\ minted' = minted /\ proved' = proved
  BY DEF CandidateFails
<1> HIDE DEF new
<1> QED BY <1>1, <1>2, VisitGoesOn

LEMMA ForgetCandidateKeeps == ASSUME RecipesInv, NEW t \in PageTask, ForgetCandidate(t) PROVE RecipesInv'
<1> DEFINE new == [visit[t] EXCEPT !.pending = NoRecipe]
<1>0. visit[t] \in AnyVisits
  BY VisitIsSound
<1>1. Sound(t, new)
  <2>1. new \in AnyVisits
    BY <1>0 DEF ForgetCandidate, Moved, Visit, AnyVisits, Afters, Phases
  <2>2. /\ new.held \in {visit[t].held, NoRecipe} /\ new.pending \in {visit[t].pending, NoRecipe}
        /\ new.backed \in {visit[t].backed, {}} /\ new.page \in {visit[t].page, Plain, NoPage}
        /\ new.at \notin {"replay", "save", "verify"} /\ ~Drafting(new)
    BY <1>0 DEF ForgetCandidate, At, Moved, NoCandidate, Visit, AnyVisits, Drafting
  <2> HIDE DEF new
  <2> QED BY <2>1, <2>2, PlainStepIsSound
<1>2. Go(t, new) /\ recipes' = recipes /\ minted' = minted /\ proved' = proved
  BY DEF ForgetCandidate
<1> HIDE DEF new
<1> QED BY <1>1, <1>2, VisitGoesOn

\* A task may store a copy of what is proved.
LEMMA StoringIsSound ==
    ASSUME RecipesInv, NEW t \in PageTask, NEW copy \in AnyRecipe, Traced(copy), copy.id \in proved,
           NEW next \in Afters,
           next = "number" => visit[t].draft # NoRecipe /\ visit[t].draft.fills \subseteq AllowedOf[t]
    PROVE  Sound(t, Storing(t, copy, next))
<1> DEFINE new == Storing(t, copy, next)
<1> SUFFICES Sound(t, new)
  OBVIOUS
<1>1. visit[t] \in AnyVisits
  BY VisitIsSound
<1>2. /\ new.at = "save" /\ new.then = next /\ new.held = copy /\ new.pending = visit[t].pending
      /\ new.backed = visit[t].backed /\ new.page = visit[t].page /\ new.draft = visit[t].draft
  BY <1>1 DEF Storing, AnyVisits
<1>3. new \in AnyVisits
  BY <1>1 DEF Storing, AnyVisits, Phases
<1> HIDE DEF new
<1>4. copy # NoRecipe /\ (new.pending # NoRecipe => Traced(new.pending)) /\ new.backed \subseteq proved
  BY <1>2, VisitIsSound, RecipeAssumption
<1>5. Drafting(new) => next = "number"
  BY <1>2 DEF Drafting
<1> QED BY <1>2, <1>3, <1>4, <1>5 DEF Sound

LEMMA LookUpKeeps == ASSUME RecipesInv, NEW t \in PageTask, NEW e \in BOOLEAN, LookUp(t, e) PROVE RecipesInv'
<1> DEFINE new == IF e THEN Storing(t, Invalidated(Latest), "plain")
                  ELSE IF Got(e) # NoRecipe
                     /\ Compatible(t, Got(e)) THEN [Moved(t, "replay") EXCEPT !.held = Got(e)]
                  ELSE Moved(t, "plain")
<1>0. visit[t] \in AnyVisits
  BY VisitIsSound
<1>1. CASE e
  <2>1. Latest # NoRecipe
    BY <1>1 DEF LookUp, MayExpire
  <2>2. Sound(t, Storing(t, Invalidated(Latest), "plain"))
    BY <2>1, LatestIsProved, CopiesAreDerived, StoringIsSound DEF Afters
  <2> QED BY <1>1, <2>2, VisitGoesOn DEF LookUp
<1>2. CASE ~e /\ Got(e) # NoRecipe /\ Compatible(t, Got(e))
  <2>1. Got(e) = Latest /\ Latest # NoRecipe
    BY <1>2 DEF Got
  <2>2. Latest \in AnyRecipe /\ Latest.id \in proved /\ Traced(Latest)
    BY <2>1, LatestIsProved, CopiesAreDerived
  <2> DEFINE w == [Moved(t, "replay") EXCEPT !.held = Latest]
  <2>3. w \in AnyVisits
    BY <1>0, <2>2 DEF Moved, AnyVisits, Phases
  <2>4. /\ w.at = "replay" /\ w.held = Latest /\ w.pending = visit[t].pending
        /\ w.backed = visit[t].backed /\ w.page = visit[t].page
    BY <1>0 DEF Moved, AnyVisits
  <2>5. Go(t, w) /\ recipes' = recipes /\ minted' = minted /\ proved' = proved
    BY <1>2, <2>1 DEF LookUp
  <2> HIDE DEF w
  <2>6. Sound(t, w)
    BY <1>2, <2>1, <2>2, <2>3, <2>4, VisitIsSound DEF Sound, Drafting, Compatible
  <2> QED BY <2>5, <2>6, VisitGoesOn
<1>3. CASE ~e /\ ~(Got(e) # NoRecipe /\ Compatible(t, Got(e)))
  <2> DEFINE w == Moved(t, "plain")
  <2>1. w \in AnyVisits
    BY MovedIsVisit DEF Phases
  <2>2. /\ w.at = "plain" /\ w.held = visit[t].held /\ w.pending = visit[t].pending
        /\ w.backed = visit[t].backed /\ w.page = visit[t].page
    BY <1>0 DEF Moved, AnyVisits
  <2>3. Go(t, w) /\ recipes' = recipes /\ minted' = minted /\ proved' = proved
    BY <1>3 DEF LookUp
  <2> HIDE DEF w
  <2>4. Sound(t, w)
    BY <2>1, <2>2, PlainStepIsSound DEF Drafting
  <2> QED BY <2>3, <2>4, VisitGoesOn
<1> QED BY <1>1, <1>2, <1>3

LEMMA ReplayWorksKeeps == ASSUME RecipesInv, NEW t \in PageTask, ReplayWorks(t) PROVE RecipesInv'
<1> DEFINE w == [Moved(t, "page") EXCEPT !.page = visit[t].held.id,
                                                        !.replayed = visit[t].held.id, !.held = NoRecipe]
<1>0. visit[t] \in AnyVisits
  BY VisitIsSound
<1>1. /\ visit[t].held # NoRecipe /\ visit[t].held \in AnyRecipe /\ visit[t].held \in Copies
      /\ visit[t].held.fills \subseteq AllowedOf[t]
  BY UsedAreCopies, CopiesAreRecipes DEF ReplayWorks, RecipesInv, HeldAreProved, FillsAreAllowed
<1>2. visit[t].held.id \in Nat
  BY <1>1 DEF AnyRecipe
<1>3. w \in AnyVisits
  BY ZenonT(30), <1>0, <1>2 DEF Moved, AnyVisits, Phases
<1>4. /\ w.at = "page" /\ w.held = NoRecipe /\ w.pending = visit[t].pending
      /\ w.backed = visit[t].backed /\ w.page = visit[t].held.id
  BY <1>0 DEF Moved, AnyVisits
<1>5. Go(t, w) /\ recipes' = recipes /\ minted' = minted /\ proved' = proved
  BY DEF ReplayWorks
<1> HIDE DEF w
<1>6. Sound(t, w)
  BY <1>1, <1>3, <1>4, VisitIsSound DEF Sound, Drafting
<1> QED BY <1>5, <1>6, VisitGoesOn

LEMMA ReplayFailsKeeps == ASSUME RecipesInv, NEW t \in PageTask, ReplayFails(t) PROVE RecipesInv'
<1>1. visit[t].held \in AnyRecipe /\ visit[t].held \in Copies /\ visit[t].held.id \in proved
  BY UsedAreCopies, CopiesAreRecipes DEF ReplayFails, RecipesInv, HeldAreProved
<1>2. Sound(t, Storing(t, Failed(visit[t].held), "plain"))
  BY <1>1, CopiesAreDerived, StoringIsSound DEF Afters
<1> QED BY <1>2, VisitGoesOn DEF ReplayFails

LEMMA AskAgentKeeps ==
    ASSUME RecipesInv, NEW t \in PageTask, NEW f \in SUBSET FillValue, AskAgent(t, f)
    PROVE  RecipesInv'
<1> DEFINE d == [id |-> 0, version |-> 1, fills |-> f, steps |-> 1, failures |-> 0, status |-> "active"]
           n == IF visit[t].page >= 0 THEN MaxRounds ELSE visit[t].asked + 1
           w == [Moved(t, "agent") EXCEPT !.asked = n, !.draft = d]
<1>0. visit[t] \in AnyVisits
  BY VisitIsSound
<1>1. d \in AnyRecipe /\ d.fills = f
  BY DEF AnyRecipe
<1>2. n \in Nat
  BY <1>0, RecipeAssumption DEF AnyVisits
<1> HIDE DEF d, n
<1>3. w \in AnyVisits
  BY <1>0, <1>1, <1>2 DEF Moved, AnyVisits, Phases
<1>4. /\ w.at = "agent" /\ w.held = visit[t].held /\ w.pending = visit[t].pending
      /\ w.backed = visit[t].backed /\ w.page = visit[t].page /\ w.draft = d
  BY <1>0 DEF Moved, AnyVisits
<1>5. Go(t, w) /\ recipes' = recipes /\ minted' = minted /\ proved' = proved
  <2>1. Moved(t, "agent").asked = visit[t].asked
    BY <1>0 DEF Moved, AnyVisits
  <2> QED BY <2>1 DEF AskAgent, n, d
<1>6. f \subseteq AllowedOf[t]
  BY DEF AskAgent
<1> HIDE DEF w
<1>7. Sound(t, w)
  BY <1>1, <1>3, <1>4, <1>6, VisitIsSound, RecipeAssumption DEF Sound, Drafting
<1> QED BY <1>5, <1>7, VisitGoesOn

LEMMA CandidateWorksKeeps == ASSUME RecipesInv, NEW t \in PageTask, CandidateWorks(t) PROVE RecipesInv'
<1> DEFINE w == [Moved(t, "page") EXCEPT !.page = visit[t].draft.id, !.draft = NoRecipe,
                                                        !.pending = visit[t].draft]
<1>0. visit[t] \in AnyVisits
  BY VisitIsSound
<1>1. /\ visit[t].draft # NoRecipe /\ visit[t].draft \in AnyRecipe /\ visit[t].draft \in Copies
      /\ visit[t].draft.fills \subseteq AllowedOf[t]
  BY UsedAreCopies, CopiesAreRecipes
     DEF CandidateWorks, RecipesInv, FillsAreAllowed, Drafting, At
<1>2. visit[t].draft.id \in Nat
  BY <1>1 DEF AnyRecipe
<1>3. w \in AnyVisits
  BY <1>0, <1>1, <1>2 DEF Moved, AnyVisits, Phases
<1>4. /\ w.at = "page" /\ w.held = visit[t].held /\ w.pending = visit[t].draft
      /\ w.backed = visit[t].backed /\ w.page = visit[t].draft.id
  BY <1>0 DEF Moved, AnyVisits
<1>5. Go(t, w) /\ recipes' = recipes /\ minted' = minted /\ proved' = proved
  BY DEF CandidateWorks
<1> HIDE DEF w
<1>6. Traced(visit[t].draft)
  BY <1>1 DEF Traced, Same
<1>7. Sound(t, w)
  BY <1>1, <1>3, <1>4, <1>6, VisitIsSound DEF Sound, Drafting
<1> QED BY <1>5, <1>7, VisitGoesOn

LEMMA JudgeActiveKeeps ==
    ASSUME RecipesInv, NEW t \in PageTask, NEW e \in BOOLEAN, JudgeActive(t, e)
    PROVE  RecipesInv'
<1>0. visit[t] \in AnyVisits
  BY VisitIsSound
<1>1. CASE e
  <2>1. Latest # NoRecipe
    BY <1>1 DEF JudgeActive, MayExpire
  <2>2. Sound(t, Storing(t, Invalidated(Latest), "judge drafts"))
    BY <2>1, LatestIsProved, CopiesAreDerived, StoringIsSound DEF Afters
  <2> QED BY <1>1, <2>2, VisitGoesOn DEF JudgeActive
<1>2. CASE ~e /\ (Got(e) = NoRecipe \/ Got(e).id # visit[t].replayed)
  <2> DEFINE w == Moved(t, "judge drafts")
  <2>1. w \in AnyVisits
    BY MovedIsVisit DEF Phases
  <2>2. /\ w.at = "judge drafts" /\ w.held = visit[t].held /\ w.pending = visit[t].pending
        /\ w.backed = visit[t].backed /\ w.page = visit[t].page
    BY <1>0 DEF Moved, AnyVisits
  <2>3. Go(t, w) /\ recipes' = recipes /\ minted' = minted /\ proved' = proved
    BY <1>2 DEF JudgeActive
  <2> HIDE DEF w
  <2>4. Sound(t, w)
    BY <2>1, <2>2, PlainStepIsSound DEF Drafting
  <2> QED BY <2>3, <2>4, VisitGoesOn
<1>3. CASE ~e /\ Got(e) # NoRecipe /\ Got(e).id = visit[t].replayed
  <2>1. Got(e) = Latest /\ Latest # NoRecipe
    BY <1>3 DEF Got
  <2> DEFINE r == IF Latest.id \in visit[t].backed THEN Succeeded(Latest) ELSE Failed(Latest)
  <2>2. r \in AnyRecipe /\ Traced(r) /\ r.id \in proved
    BY <2>1, LatestIsProved, CopiesAreDerived
  <2>3. Go(t, Storing(t, r, "judge drafts")) /\ recipes' = recipes /\ minted' = minted /\ proved' = proved
    BY <1>3, <2>1 DEF JudgeActive
  <2> HIDE DEF r
  <2>4. Sound(t, Storing(t, r, "judge drafts"))
    BY <2>2, StoringIsSound DEF Afters
  <2> QED BY <2>3, <2>4, VisitGoesOn
<1> QED BY <1>1, <1>2, <1>3

LEMMA JudgeDraftsKeeps == ASSUME RecipesInv, NEW t \in PageTask, JudgeDrafts(t) PROVE RecipesInv'
<1>0. visit[t] \in AnyVisits
  BY VisitIsSound
<1>1. CASE visit[t].pending # NoRecipe /\ visit[t].pending.id \in visit[t].backed
  <2>1. visit[t].pending \in AnyRecipe /\ Traced(visit[t].pending) /\ visit[t].pending.id \in proved
    BY <1>0, <1>1, VisitIsSound DEF AnyVisits
  <2>2. Sound(t, Storing(t, visit[t].pending, "over"))
    BY <2>1, StoringIsSound DEF Afters
  <2> QED BY <1>1, <2>2, VisitGoesOn DEF JudgeDrafts
<1>2. CASE ~(visit[t].pending # NoRecipe /\ visit[t].pending.id \in visit[t].backed)
  <2>1. Moved(t, "over") \in AnyVisits
    BY MovedIsVisit DEF Phases
  <2>2. Sound(t, Moved(t, "over"))
    BY <2>1, PlainStepIsSound DEF Moved, Visit, Drafting
  <2> QED BY <1>2, <2>2, VisitGoesOn DEF JudgeDrafts
<1> QED BY <1>1, <1>2

LEMMA ExtendKeeps == ASSUME RecipesInv, NEW t \in PageTask, NEW e \in BOOLEAN, Extend(t, e) PROVE RecipesInv'
<1> DEFINE drafted == visit[t].draft
           steps == Got(e).steps + drafted.steps
<1>0. visit[t] \in AnyVisits
  BY VisitIsSound
<1>1. drafted # NoRecipe /\ drafted \in AnyRecipe /\ drafted.fills \subseteq AllowedOf[t]
  BY <1>0 DEF Extend, At, RecipesInv, FillsAreAllowed, Drafting, AnyVisits
<1>2. CASE e
  <2>1. Latest # NoRecipe
    BY <1>2 DEF Extend, MayExpire
  <2>2. Sound(t, Storing(t, Invalidated(Latest), "number"))
    BY <1>1, <2>1, LatestIsProved, CopiesAreDerived, StoringIsSound DEF Afters
  <2> QED BY <1>2, <2>2, VisitGoesOn DEF Extend
<1>3. CASE ~e /\ ~Extends(t, Got(e))
  <2> DEFINE w == Moved(t, "number")
  <2>1. w \in AnyVisits
    BY MovedIsVisit DEF Phases
  <2>2. /\ w.at = "number" /\ w.held = visit[t].held /\ w.pending = visit[t].pending
        /\ w.backed = visit[t].backed /\ w.page = visit[t].page /\ w.draft = drafted
    BY <1>0 DEF Moved, AnyVisits
  <2>3. Go(t, w) /\ recipes' = recipes /\ minted' = minted /\ proved' = proved
    BY <1>3 DEF Extend
  <2> HIDE DEF w
  <2>4. Sound(t, w)
    BY <1>1, <2>1, <2>2, VisitIsSound DEF Sound, Drafting
  <2> QED BY <2>3, <2>4, VisitGoesOn
<1>4. CASE ~e /\ Extends(t, Got(e)) /\ steps > MaxSteps
  <2> DEFINE w == NoCandidate(t)
  <2>1. w \in AnyVisits
    BY NoCandidateIsVisit
  <2>2. /\ w.held \in {visit[t].held, NoRecipe} /\ w.pending \in {visit[t].pending, NoRecipe}
        /\ w.backed \in {visit[t].backed, {}} /\ w.page \in {visit[t].page, Plain, NoPage}
        /\ w.at \notin {"replay", "save", "verify"} /\ ~Drafting(w)
    BY <1>0 DEF Moved, NoCandidate, Visit, AnyVisits, Drafting
  <2>3. Go(t, w) /\ recipes' = recipes /\ minted' = minted /\ proved' = proved
    BY <1>4 DEF Extend
  <2> HIDE DEF w
  <2>4. Sound(t, w)
    BY <2>1, <2>2, PlainStepIsSound
  <2> QED BY <2>3, <2>4, VisitGoesOn
<1>5. CASE ~e /\ Extends(t, Got(e)) /\ ~(steps > MaxSteps)
  <2>1. Got(e) = Latest /\ Latest # NoRecipe /\ Latest.id = visit[t].page
    BY <1>5 DEF Extends, Got
  <2>2. Latest \in AnyRecipe /\ Latest.fills \subseteq AllowedOf[t]
    BY <2>1, LatestIsProved DEF RecipesInv, IdsTellFills
  <2> DEFINE d == [drafted EXCEPT !.fills = @ \cup Got(e).fills, !.steps = steps]
             w == [Moved(t, "number") EXCEPT !.draft = d]
  <2>3. drafted.fills \cup Latest.fills \in SUBSET FillValue /\ steps \in Nat
    BY <1>1, <2>1, <2>2 DEF AnyRecipe
  <2> DEFINE more == drafted.fills \cup Latest.fills
  <2>f. d = [drafted EXCEPT !.fills = more, !.steps = steps] /\ more \in SUBSET FillValue
        /\ more \subseteq AllowedOf[t]
    BY <1>1, <2>1, <2>2, <2>3
  <2> HIDE DEF steps, more, d
  <2>4. d \in AnyRecipe /\ d.fills \subseteq AllowedOf[t]
    BY <1>1, <2>3, <2>f DEF AnyRecipe
  <2>5. Go(t, w) /\ recipes' = recipes /\ minted' = minted /\ proved' = proved
    BY <1>5 DEF Extend, steps, d
  <2>6. w \in AnyVisits
    BY <1>0, <2>4 DEF Moved, AnyVisits, Phases
  <2>7. /\ w.at = "number" /\ w.held = visit[t].held /\ w.pending = visit[t].pending
        /\ w.backed = visit[t].backed /\ w.page = visit[t].page /\ w.draft = d
    BY <1>0 DEF Moved, AnyVisits
  <2> HIDE DEF w
  <2>8. Sound(t, w)
    BY <2>4, <2>6, <2>7, VisitIsSound, RecipeAssumption DEF Sound, Drafting
  <2> QED BY <2>5, <2>8, VisitGoesOn
<1> QED BY <1>2, <1>3, <1>4, <1>5

\* A row that is replaced by the copy of a task, and rows that are dropped.
LEMMA StoreChanges ==
    ASSUME RecipesInv, NEW t \in PageTask, NEW w \in AnyVisits, Go(t, w), minted' = minted, proved' = proved,
           recipes' \in [Versions -> AnyRecipe \cup {NoRecipe}],
           \A v \in Versions : recipes'[v] \in {recipes[v], visit[t].held, NoRecipe},
           w.held \in {visit[t].held, NoRecipe}, w.pending \in {visit[t].pending, NoRecipe},
           w.backed \in {visit[t].backed, {}}, w.page \in {visit[t].page, NoPage},
           w.at \notin {"replay", "save", "verify"},
           Drafting(w) => Drafting(visit[t]) /\ w.draft = visit[t].draft
    PROVE  RecipesInv'
<1>1. visit' \in [PageTask -> AnyVisits] /\ visit'[t] = w /\ \A u \in PageTask \ {t} : visit'[u] = visit[u]
  BY DEF RecipesInv, RecipeShapes, Go
<1>2. RecipeShapes'
  BY <1>1 DEF RecipesInv, RecipeShapes
<1>3. ASSUME NEW r \in Copies' PROVE r \in Copies
  <2>1. r # NoRecipe
    BY DEF Copies
  <2>2. CASE \E v \in Versions : r = recipes'[v]
    BY <2>1, <2>2, RowsAreCopies, UsedAreCopies
  <2>3. CASE \E u \in PageTask : r = visit'[u].held \/ r = visit'[u].pending
           \/ (visit'[u].at = "verify" /\ r = visit'[u].draft)
    <3>1. PICK u \in PageTask : r = visit'[u].held \/ r = visit'[u].pending
             \/ (visit'[u].at = "verify" /\ r = visit'[u].draft)
      BY <2>3
    <3>2. CASE u = t
      BY <2>1, <3>1, <3>2, <1>1, UsedAreCopies
    <3>3. CASE u # t
      BY <2>1, <3>1, <3>3, <1>1, UsedAreCopies DEF At
    <3> QED BY <3>2, <3>3
  <2> QED BY <2>2, <2>3 DEF Copies, At
<1>4. \A r \in Copies' : Traced(r)
  BY <1>3 DEF Traced, Same
<1>5. IdsTellFills'
  BY <1>1, <1>2, <1>4, CopiesStay DEF RecipesInv
<1>6. HeldAreProved'
  BY <1>1 DEF RecipesInv, HeldAreProved, At
<1>7. FillsAreAllowed'
  BY <1>1 DEF RecipesInv, FillsAreAllowed, At
<1> QED BY <1>2, <1>5, <1>6, <1>7 DEF RecipesInv

LEMMA SaveRecipeKeeps == ASSUME RecipesInv, NEW t \in PageTask, SaveRecipe(t) PROVE RecipesInv'
<1> DEFINE w == Moved(t, "prune")
<1>0. visit[t] \in AnyVisits
  BY VisitIsSound
<1>1. w \in AnyVisits
  BY MovedIsVisit DEF Phases
<1>2. /\ w.at = "prune" /\ w.held = visit[t].held /\ w.pending = visit[t].pending
      /\ w.then = visit[t].then
      /\ w.backed = visit[t].backed /\ w.page = visit[t].page /\ w.draft = visit[t].draft
  BY <1>0 DEF Moved, AnyVisits
<1>3. visit[t].held \in AnyRecipe
  BY <1>0 DEF SaveRecipe, RecipesInv, HeldAreProved, AnyVisits
<1>4. /\ recipes' \in [Versions -> AnyRecipe \cup {NoRecipe}]
      /\ \A v \in Versions : recipes'[v] \in {recipes[v], visit[t].held, NoRecipe}
  BY <1>3 DEF SaveRecipe, RecipesInv, RecipeShapes
<1>5. Go(t, w) /\ minted' = minted /\ proved' = proved /\ visit[t].at = "save"
  BY DEF SaveRecipe, At
<1> HIDE DEF w
<1> QED BY <1>1, <1>2, <1>4, <1>5, StoreChanges DEF Drafting

LEMMA PruneKeeps == ASSUME RecipesInv, NEW t \in PageTask, Prune(t) PROVE RecipesInv'
<1> DEFINE w == [Moved(t, visit[t].then) EXCEPT !.held = NoRecipe]
<1>0. visit[t] \in AnyVisits /\ visit[t].then \in Afters
  BY VisitIsSound DEF AnyVisits
<1>1. w \in AnyVisits
  <2>1. Moved(t, visit[t].then) \in AnyVisits
    BY <1>0, MovedIsVisit DEF Afters, Phases
  <2> QED BY <2>1 DEF AnyVisits
<1>2. CASE visit[t].then = "over"
  <2>1. /\ w.at = "over" /\ w.held = NoRecipe /\ w.pending = NoRecipe /\ w.backed = {} /\ w.page = NoPage
    BY <1>2 DEF Moved, Visit
  <2>2. /\ recipes' \in [Versions -> AnyRecipe \cup {NoRecipe}]
        /\ \A v \in Versions : recipes'[v] \in {recipes[v], visit[t].held, NoRecipe}
    BY DEF Prune, RecipesInv, RecipeShapes
  <2>3. Go(t, w) /\ minted' = minted /\ proved' = proved
    BY DEF Prune
  <2> HIDE DEF w
  <2> QED BY <1>1, <2>1, <2>2, <2>3, StoreChanges DEF Drafting
<1>3. CASE visit[t].then # "over"
  <2>1. /\ w.at = visit[t].then /\ w.held = NoRecipe /\ w.pending = visit[t].pending
        /\ w.backed = visit[t].backed /\ w.page = visit[t].page /\ w.draft = visit[t].draft
    BY <1>0, <1>3 DEF Moved, AnyVisits
  <2>2. /\ recipes' \in [Versions -> AnyRecipe \cup {NoRecipe}]
        /\ \A v \in Versions : recipes'[v] \in {recipes[v], visit[t].held, NoRecipe}
    BY DEF Prune, RecipesInv, RecipeShapes
  <2>3. Go(t, w) /\ minted' = minted /\ proved' = proved /\ visit[t].at = "prune"
    BY DEF Prune, At
  <2> HIDE DEF w
  <2> QED BY <1>0, <1>1, <2>1, <2>2, <2>3, StoreChanges DEF Drafting, Afters
<1> QED BY <1>2, <1>3

LEMMA NumberCandidateKeeps == ASSUME RecipesInv, NEW t \in PageTask, NumberCandidate(t) PROVE RecipesInv'
<1> DEFINE id == minted + 1
           version == IF StoredVersions = {} THEN 1 ELSE Newest + 1
           d == [visit[t].draft EXCEPT !.id = id, !.version = version]
           w == [Moved(t, "verify") EXCEPT !.draft = d]
<1>0. visit[t] \in AnyVisits
  BY VisitIsSound
<1>1. visit[t].draft # NoRecipe /\ visit[t].draft \in AnyRecipe /\ visit[t].draft.fills \subseteq AllowedOf[t]
  BY <1>0 DEF NumberCandidate, At, RecipesInv, FillsAreAllowed, Drafting, AnyVisits
<1>2. version \in Nat /\ id \in Nat
  BY NewestIsStored, FS_CardinalityType, RecipeAssumption DEF Versions, RecipesInv, RecipeShapes
<1>3. Go(t, w) /\ minted' = id /\ recipes' = recipes /\ proved' = proved
  <2>1. Moved(t, "verify").draft = visit[t].draft
    BY <1>0 DEF Moved, AnyVisits
  <2>2. minted' = id /\ recipes' = recipes /\ proved' = proved
    BY DEF NumberCandidate
  <2>3. Go(t, [Moved(t, "verify") EXCEPT !.draft = [visit[t].draft EXCEPT !.id = id, !.version = version]])
    BY <2>1, <2>2, <1>0 DEF NumberCandidate, Moved, AnyVisits
  <2> QED BY <2>2, <2>3
<1> HIDE DEF id, version
<1>4. d \in AnyRecipe /\ d.id = id /\ d.fills \subseteq AllowedOf[t]
  BY <1>1, <1>2 DEF AnyRecipe
<1> HIDE DEF d
<1>5. w \in AnyVisits
  BY <1>0, <1>4 DEF Moved, AnyVisits, Phases
<1>6. /\ w.at = "verify" /\ w.held = visit[t].held /\ w.pending = visit[t].pending
      /\ w.backed = visit[t].backed /\ w.page = visit[t].page /\ w.draft = d
  BY <1>0 DEF Moved, AnyVisits
<1> HIDE DEF w
<1>7. visit' \in [PageTask -> AnyVisits] /\ visit'[t] = w /\ \A u \in PageTask \ {t} : visit'[u] = visit[u]
  BY <1>3, <1>5 DEF RecipesInv, RecipeShapes, Go
<1>8. RecipeShapes'
  BY <1>2, <1>3, <1>7 DEF RecipesInv, RecipeShapes
<1>9. ASSUME NEW r \in Copies' PROVE r \in Copies \/ r = d
  <2>1. r # NoRecipe
    BY DEF Copies
  <2>2. CASE \E v \in Versions : r = recipes'[v]
    BY <2>1, <2>2, <1>3, RowsAreCopies
  <2>3. CASE \E u \in PageTask : r = visit'[u].held \/ r = visit'[u].pending
           \/ (visit'[u].at = "verify" /\ r = visit'[u].draft)
    <3>1. PICK u \in PageTask : r = visit'[u].held \/ r = visit'[u].pending
             \/ (visit'[u].at = "verify" /\ r = visit'[u].draft)
      BY <2>3
    <3>2. CASE u = t
      BY <2>1, <3>1, <3>2, <1>6, <1>7, UsedAreCopies
    <3>3. CASE u # t
      BY <2>1, <3>1, <3>3, <1>7, UsedAreCopies DEF At
    <3> QED BY <3>2, <3>3
  <2> QED BY <2>2, <2>3 DEF Copies, At
<1>10. \A r \in Copies : r.id \in Nat /\ r.id <= minted /\ r.id < id
  BY CopiesAreRecipes DEF AnyRecipe, RecipesInv, RecipeShapes, IdsTellFills, id
<1>11. \A u \in PageTask : visit'[u].page = visit[u].page /\ visit[u].page <= minted /\ visit[u].page < id
  <2>1. \A u \in PageTask : visit'[u].page = visit[u].page
    BY <1>6, <1>7
  <2>2. \A u \in PageTask : visit[u].page \in Int /\ visit[u].page <= minted /\ minted \in Nat
    BY DEF RecipesInv, RecipeShapes, IdsTellFills, AnyVisits, NoPage, Plain
  <2> QED BY <2>1, <2>2 DEF id
<1>12. IdsTellFills'
  <2>1. \A r \in Copies' : r.id <= minted'
    BY <1>2, <1>3, <1>4, <1>9, <1>10 DEF id
  <2>2. \A r, s \in Copies' : r.id = s.id => r.fills = s.fills
    BY <1>4, <1>9, <1>10, <1>2 DEF RecipesInv, IdsTellFills
  <2>3. \A u \in PageTask : visit'[u].page <= minted'
    <3>1. \A u \in PageTask : visit[u].page \in Int /\ minted \in Nat
      BY DEF RecipesInv, RecipeShapes, AnyVisits, NoPage, Plain
    <3> QED BY <3>1, <1>3, <1>11 DEF id
  <2>4. \A u \in PageTask : \A r \in Copies' : r.id = visit'[u].page => r.fills \subseteq AllowedOf[u]
    <3>1. \A u \in PageTask : visit[u].page \in Int
      BY DEF RecipesInv, RecipeShapes, AnyVisits, NoPage, Plain
    <3> QED BY <3>1, <1>2, <1>4, <1>9, <1>11 DEF RecipesInv, IdsTellFills
  <2> QED BY <2>1, <2>2, <2>3, <2>4 DEF IdsTellFills
<1>13. HeldAreProved'
  BY <1>3, <1>6, <1>7 DEF RecipesInv, HeldAreProved, At
<1>14. FillsAreAllowed'
  BY <1>4, <1>6, <1>7, RecipeAssumption DEF RecipesInv, FillsAreAllowed, At
<1> QED BY <1>8, <1>12, <1>13, <1>14 DEF RecipesInv

LEMMA ExtractedKeeps ==
    ASSUME RecipesInv, NEW t \in PageTask, NEW b \in SUBSET Ids, Extracted(t, b)
    PROVE  RecipesInv'
<1> DEFINE to == IF visit[t].replayed = NoPage THEN "judge drafts" ELSE "judge active"
           w  == [Moved(t, to) EXCEPT !.backed = b]
<1>0. visit[t] \in AnyVisits
  BY VisitIsSound
<1>1. to \in {"judge drafts", "judge active"} /\ b \subseteq Nat
  BY FS_CardinalityType, RecipeAssumption DEF Ids
<1>2. Go(t, w) /\ minted' = minted /\ recipes' = recipes /\ proved' = proved \cup b
  BY DEF Extracted
<1> HIDE DEF to
<1>m. w = [visit[t] EXCEPT !.at = to, !.backed = b] /\ to \in Phases
  BY <1>1 DEF Moved, Phases
<1>3. w \in AnyVisits
  BY <1>0, <1>1, <1>m DEF AnyVisits
<1>4. /\ w.at = to /\ w.held = visit[t].held /\ w.pending = visit[t].pending
      /\ w.backed = b /\ w.page = visit[t].page
  BY <1>0, <1>1 DEF Moved, AnyVisits
<1> HIDE DEF w
<1>5. visit' \in [PageTask -> AnyVisits] /\ visit'[t] = w /\ \A u \in PageTask \ {t} : visit'[u] = visit[u]
  BY <1>2, <1>3 DEF RecipesInv, RecipeShapes, Go
<1>6. RecipeShapes'
  BY <1>2, <1>5 DEF RecipesInv, RecipeShapes
<1>7. \A r \in Copies' : r \in Copies
  <2> TAKE r \in Copies'
  <2>1. r # NoRecipe
    BY DEF Copies
  <2>2. CASE \E v \in Versions : r = recipes'[v]
    BY <2>1, <2>2, <1>2, RowsAreCopies
  <2>3. CASE \E u \in PageTask : r = visit'[u].held \/ r = visit'[u].pending
           \/ (visit'[u].at = "verify" /\ r = visit'[u].draft)
    <3>1. PICK u \in PageTask : r = visit'[u].held \/ r = visit'[u].pending
             \/ (visit'[u].at = "verify" /\ r = visit'[u].draft)
      BY <2>3
    <3>2. CASE u = t
      BY <2>1, <3>1, <3>2, <1>1, <1>4, <1>5, UsedAreCopies
    <3>3. CASE u # t
      BY <2>1, <3>1, <3>3, <1>5, UsedAreCopies DEF At
    <3> QED BY <3>2, <3>3
  <2> QED BY <2>2, <2>3 DEF Copies, At
<1>8. IdsTellFills'
  <2>1. \A r \in Copies' : Traced(r)
    BY <1>7 DEF Traced, Same
  <2> QED BY <1>2, <1>4, <1>5, <1>6, <2>1, CopiesStay DEF RecipesInv
<1>9. HeldAreProved'
  BY <1>1, <1>2, <1>4, <1>5 DEF RecipesInv, HeldAreProved, At
<1>10. FillsAreAllowed'
  BY <1>1, <1>4, <1>5 DEF RecipesInv, FillsAreAllowed, At, Drafting
<1> QED BY <1>6, <1>8, <1>9, <1>10 DEF RecipesInv

\* What is stored at the start keeps RecipesInv.
LEMMA RecipesInitInv == RecipesInit => RecipesInv
<1> SUFFICES ASSUME RecipesInit PROVE RecipesInv
  OBVIOUS
<1>1. PICK first \in {NoRecipe} \cup AnyRecipe :
        /\ first # NoRecipe => first.id = 0
        /\ recipes = [v \in Versions |-> IF v = 1 THEN first ELSE NoRecipe]
  <2>1. PICK first \in {NoRecipe} \cup [id : {0}, version : {1},
                                        fills : {{}} \cup {{f} : f \in FillValue}, steps : {1},
                                     failures : {0}, status : {"active"}] :
          recipes = [v \in Versions |-> IF v = 1 THEN first ELSE NoRecipe]
    BY DEF RecipesInit
  <2>2. \A x \in {{}} \cup {{f} : f \in FillValue} : x \in SUBSET FillValue
    OBVIOUS
  <2>3. first # NoRecipe => first \in AnyRecipe /\ first.id = 0
    BY <2>1, <2>2 DEF AnyRecipe
  <2> QED BY <2>1, <2>3
<1>2. minted = 0 /\ proved = {0} /\ visit = [t \in PageTask |-> Visit("start")]
  BY DEF RecipesInit
<1>3. Visit("start") \in AnyVisits
  BY DEF Visit, AnyVisits, Afters, Phases
<1>4. RecipeShapes
  BY <1>1, <1>2, <1>3 DEF RecipeShapes
<1>5. Copies \subseteq {first} /\ NoRecipe \notin Copies
  BY <1>1, <1>2 DEF Copies, Visit, At
<1>6. IdsTellFills
  BY <1>1, <1>2, <1>5 DEF IdsTellFills, Visit, NoPage
<1>7. HeldAreProved
  BY <1>1, <1>2 DEF HeldAreProved, Visit, At
<1>8. FillsAreAllowed
  BY <1>2 DEF FillsAreAllowed, Visit, At, Drafting
<1> QED BY <1>4, <1>6, <1>7, <1>8 DEF RecipesInv

\* No step of the page tasks breaks RecipesInv.
LEMMA RecipesNextInv == RecipesInv /\ [RecipesNext]_recipeVars => RecipesInv'
<1> SUFFICES ASSUME RecipesInv, [RecipesNext]_recipeVars PROVE RecipesInv'
  OBVIOUS
<1>1. CASE UNCHANGED recipeVars
  BY <1>1 DEF recipeVars, RecipesInv, RecipeShapes, IdsTellFills, Copies, HeldAreProved,
     FillsAreAllowed, At
<1>2. ASSUME NEW t \in PageTask,
             \/ SaveRecipe(t) \/ SaveFails(t) \/ Prune(t) \/ ReplayWorks(t) \/ ReplayFails(t) \/ PlainPage(t)
             \/ PlainFails(t) \/ NumberCandidate(t) \/ CandidateWorks(t) \/ JudgeDrafts(t) \/ ForgetCandidate(t)
      PROVE  RecipesInv'
  BY <1>2, SaveRecipeKeeps, SaveFailsKeeps, PruneKeeps, ReplayWorksKeeps, ReplayFailsKeeps,
     PlainPageKeeps,
     PlainFailsKeeps, NumberCandidateKeeps, CandidateWorksKeeps, JudgeDraftsKeeps,
     ForgetCandidateKeeps
<1>3. ASSUME NEW t \in PageTask, NEW b \in BOOLEAN,
             \/ LookUp(t, b) \/ Extend(t, b) \/ JudgeActive(t, b) \/ NoPath(t, b) \/ CandidateFails(t, b)
      PROVE  RecipesInv'
  BY <1>3, LookUpKeeps, ExtendKeeps, JudgeActiveKeeps, NoPathKeeps, CandidateFailsKeeps
<1>4. ASSUME NEW t \in PageTask, NEW b \in SUBSET Ids, Extracted(t, b) PROVE RecipesInv'
  BY <1>4, ExtractedKeeps
<1>5. ASSUME NEW t \in PageTask, NEW f \in SUBSET FillValue, AskAgent(t, f) PROVE RecipesInv'
  BY <1>5, AskAgentKeeps
<1> QED BY <1>1, <1>2, <1>3, <1>4, <1>5 DEF RecipesNext

\* RecipesInv always holds.
LEMMA RecipesAlwaysInv == RecipesSpec => []RecipesInv
BY RecipesInitInv, RecipesNextInv, PTL DEF RecipesSpec

(***************************************************************************)
(* For any number of page tasks, versions and ids: what is stored as a     *)
(* recipe was proved on a page and fills what its page allows, whichever   *)
(* copy was saved, and no two stored versions are told apart by less than  *)
(* their ids (recipes/service.py, sources/recipe_web.py).                  *)
(***************************************************************************)
THEOREM RecipesStaySound == RecipesSpec => []RecipesAreSound
<1>1. RecipesInv => RecipesAreSound
  BY DEF RecipesInv, HeldAreProved, FillsAreAllowed, Drafting, At, StoredVersions, RecipesAreSound
<1> QED BY RecipesAlwaysInv, <1>1, PTL

\* A step of a page task, or pruning, leaves a version that is not older than the newest.
LEMMA NewestStep ==
    ASSUME RecipesInv, [RecipesNext]_recipeVars, StoredVersions # {}
    PROVE  StoredVersions' # {} /\ Newest' >= Newest
<1>0. Newest \in StoredVersions /\ Newest \in Nat /\ Newest \in Versions /\ \A v \in StoredVersions : v \in Nat /\ v <= Newest
  BY NewestIsStored DEF Versions, StoredVersions
<1>1. Newest \in StoredVersions'
  <2>1. CASE \E t \in PageTask : SaveRecipe(t)
    <3>1. PICK t \in PageTask : SaveRecipe(t)
      BY <2>1
    <3>2. visit[t].held # NoRecipe
      BY <3>1 DEF RecipesInv, HeldAreProved, SaveRecipe
    <3>3. recipes'[Newest] \in {recipes[Newest], visit[t].held}
      BY <1>0, <3>1 DEF SaveRecipe, RecipesInv, RecipeShapes
    <3> QED BY <1>0, <3>2, <3>3 DEF StoredVersions
  <2>2. CASE \E t \in PageTask : Prune(t)
    <3>0. \A w \in StoredVersions : ~ (w > Newest)
      BY <1>0
    <3>1. {w \in StoredVersions : w > Newest} = {}
      BY <3>0
    <3>2. Newest \in Kept
      BY <1>0, <3>1, FS_EmptySet, RecipeAssumption DEF Kept
    <3> QED BY <1>0, <2>2, <3>2 DEF Prune, StoredVersions
  <2>3. CASE recipes' = recipes
    BY <1>0, <2>3 DEF StoredVersions
  <2> QED
    BY ZenonT(30), <2>1, <2>2, <2>3 DEF RecipesNext, recipeVars, SaveFails, LookUp, Extend,
       JudgeActive, NoPath, CandidateFails,
       Extracted, ReplayWorks, ReplayFails, PlainPage, PlainFails, NumberCandidate,
       CandidateWorks, JudgeDrafts,
       ForgetCandidate, AskAgent
<1>2. StoredVersions' \subseteq Versions
  BY DEF StoredVersions
<1>3. Newest' \in StoredVersions' /\ \A w \in StoredVersions' : w <= Newest'
  BY <1>1, <1>2, NewestOf DEF Newest
<1> QED BY <1>0, <1>1, <1>2, <1>3

(***************************************************************************)
(* No step of a page task or of pruning takes the newest version away      *)
(* (storage/sqlite.py, storage/content_postgres.py).                       *)
(***************************************************************************)
THEOREM NewestIsKept == RecipesSpec => NewestStays
<1>1. RecipesInv /\ [RecipesNext]_recipeVars => [StoredVersions # {} => StoredVersions' # {} /\ Newest' >= Newest]_recipeVars
  BY NewestStep
<1> QED BY RecipesAlwaysInv, <1>1, PTL DEF RecipesSpec, NewestStays

(***************************************************************************)
(* The types of the recipes count: how many ids and versions there are.    *)
(***************************************************************************)
\* The last step of a task: it stores its candidate, or is over.
Storer(w) == w.at = "over" \/ (w.at \in {"save", "prune"} /\ w.then = "over")

\* A proposal of an agent has no id yet.
Numbering(w) == w.at \in {"agent", "number"} \/ (w.at \in {"save", "prune"} /\ w.then = "number")

\* Ids that a task has asked for, at most.
Spent(w) == IF w.at = "over" THEN 2 ELSE IF Numbering(w) THEN w.asked - 1 ELSE w.asked

Storers == {t \in PageTask : Storer(visit[t])}
OneId    == {t \in PageTask : Spent(visit[t]) >= 1}
TwoIds   == {t \in PageTask : Spent(visit[t]) >= 2}
High    == 1 + Cardinality(Storers)

\* A recipe as the store keeps it, with a version up to high.
Fit(r, high) == r # NoRecipe => /\ r.steps \in 1 .. MaxSteps /\ r.failures \in 0 .. Threshold
                                /\ r.status = "active" => r.failures < Threshold
                                /\ r.version \in 1 .. high

\* A task holds stored versions; what it proposes is at most one above them, until it is stored.
FitVisit(w, high, ids) ==
    /\ w.asked \in 0 .. MaxRounds /\ (Numbering(w) => w.asked >= 1)
    /\ Fit(w.held, high)
    /\ Fit(w.draft, high + 1) /\ Fit(w.pending, high + 1)
    /\ Storer(w) => Fit(w.draft, high) /\ Fit(w.pending, high)
    /\ w.replayed <= ids
    /\ w.draft # NoRecipe => w.draft.id <= ids

TypesFit ==
    /\ minted <= Cardinality(OneId) + Cardinality(TwoIds)
    /\ proved \subseteq 0 .. minted
    /\ \A v \in Versions : recipes[v] # NoRecipe => Fit(recipes[v], High) /\ v <= High
    /\ \A t \in PageTask : FitVisit(visit[t], High, minted)

\* The same limits hold among more versions.
LEMMA FitsBelow == ASSUME NEW r, NEW high \in Nat, NEW higher \in Nat, high <= higher, Fit(r, high) PROVE Fit(r, higher)
BY DEF Fit

LEMMA FitsVisitBelow ==
    ASSUME NEW w, NEW high \in Nat, NEW higher \in Nat, high <= higher, NEW ids \in Nat, NEW more \in Nat, ids <= more,
           w \in AnyVisits, FitVisit(w, high, ids)
    PROVE  FitVisit(w, higher, more)
<1>1. Fit(w.held, higher) /\ Fit(w.draft, higher + 1) /\ Fit(w.pending, higher + 1)
  BY FitsBelow DEF FitVisit
<1>2. Storer(w) => Fit(w.draft, higher) /\ Fit(w.pending, higher)
  BY FitsBelow DEF FitVisit
<1>3. w.replayed <= more
  BY DEF FitVisit, AnyVisits, NoPage
<1>4. w.draft # NoRecipe => w.draft.id <= more
  BY DEF FitVisit, AnyVisits, AnyRecipe
<1> QED BY <1>1, <1>2, <1>3, <1>4 DEF FitVisit

\* What is counted are tasks: there is a finite number of them.
LEMMA CountsAreNumbers ==
    /\ Cardinality(PageTask) \in Nat
    /\ Cardinality(Storers) \in 0 .. Cardinality(PageTask) /\ Cardinality(OneId) \in 0 .. Cardinality(PageTask)
    /\ Cardinality(TwoIds) \in 0 .. Cardinality(PageTask)
    /\ High \in 1 .. Cardinality(PageTask) + 1
    /\ \A t \in PageTask : ~Storer(visit[t]) => High <= Cardinality(PageTask)
<1>1. IsFiniteSet(PageTask)
  BY RecipeAssumption
<1>2. Storers \subseteq PageTask /\ OneId \subseteq PageTask /\ TwoIds \subseteq PageTask
  BY DEF Storers, OneId, TwoIds
<1>3. \A S \in SUBSET PageTask : IsFiniteSet(S) /\ Cardinality(S) \in 0 .. Cardinality(PageTask)
  BY <1>1, FS_Subset, FS_CardinalityType
<1>4. Cardinality(PageTask) \in Nat
  BY <1>1, FS_CardinalityType
<1>5. High \in 1 .. Cardinality(PageTask) + 1
  BY <1>2, <1>3, <1>4 DEF High
<1>6. ASSUME NEW t \in PageTask, ~Storer(visit[t]) PROVE High <= Cardinality(PageTask)
  <2>1. Storers \subseteq PageTask \ {t}
    BY <1>6 DEF Storers
  <2>2. IsFiniteSet(PageTask \ {t}) /\ Cardinality(PageTask \ {t}) = Cardinality(PageTask) - 1
    BY <1>1, FS_RemoveElement
  <2>3. Cardinality(Storers) <= Cardinality(PageTask) - 1
    BY <2>1, <2>2, FS_Subset
  <2> QED BY <1>2, <1>3, <1>4, <2>3 DEF High
<1> QED BY <1>2, <1>3, <1>4, <1>5, <1>6

\* More tasks count, and one that counts newly counts by one.
LEMMA OneMore ==
    ASSUME NEW S \in SUBSET PageTask, NEW T \in SUBSET PageTask, S \subseteq T
    PROVE  /\ Cardinality(S) \in Nat /\ Cardinality(T) \in Nat /\ Cardinality(S) <= Cardinality(T)
           /\ \A t \in PageTask : t \in T /\ t \notin S => Cardinality(S) + 1 <= Cardinality(T)
<1>1. IsFiniteSet(S) /\ IsFiniteSet(T)
  BY RecipeAssumption, FS_Subset
<1>2. Cardinality(S) \in Nat /\ Cardinality(T) \in Nat /\ Cardinality(S) <= Cardinality(T)
  BY <1>1, FS_Subset, FS_CardinalityType
<1>3. ASSUME NEW t \in PageTask, t \in T, t \notin S PROVE Cardinality(S) + 1 <= Cardinality(T)
  <2>1. Cardinality(S \cup {t}) = Cardinality(S) + 1
    BY <1>1, <1>3, FS_AddElement
  <2>2. S \cup {t} \subseteq T
    BY <1>3
  <2>3. Cardinality(S \cup {t}) <= Cardinality(T)
    BY <1>1, <2>2, FS_Subset
  <2> QED BY <2>1, <2>3
<1> QED BY <1>2, <1>3

\* A step of a task only goes forward: it neither unstores nor returns an id.
Forward(w, new) == (Storer(w) => Storer(new)) /\ Spent(w) <= Spent(new) /\ Spent(w) \in Nat /\ Spent(new) \in Nat

\* The versions after a step of w to new.
Above(w, new) == IF Storer(new) /\ ~Storer(w) THEN High + 1 ELSE High

LEMMA CountsGoForward ==
    ASSUME RecipesInv, NEW t \in PageTask, NEW new, Go(t, new), Forward(visit[t], new)
    PROVE  /\ High' >= Above(visit[t], new) /\ High' >= High
           /\ Cardinality(OneId) + Cardinality(TwoIds) <= Cardinality(OneId') + Cardinality(TwoIds')
           /\ Spent(visit[t]) < Spent(new) /\ Spent(new) <= 2
              => Cardinality(OneId) + Cardinality(TwoIds) + 1 <= Cardinality(OneId') + Cardinality(TwoIds')
<1>1. visit' = [visit EXCEPT ![t] = new] /\ visit \in [PageTask -> AnyVisits]
  BY DEF RecipesInv, RecipeShapes, Go
<1>2. visit'[t] = new /\ \A u \in PageTask : u # t => visit'[u] = visit[u]
  BY <1>1
<1>3. /\ Storers \in SUBSET PageTask /\ Storers' \in SUBSET PageTask /\ OneId \in SUBSET PageTask
      /\ OneId' \in SUBSET PageTask /\ TwoIds \in SUBSET PageTask /\ TwoIds' \in SUBSET PageTask
  BY DEF Storers, OneId, TwoIds
<1>4. Storers \subseteq Storers'
  BY <1>2 DEF Storers, Forward
<1>5. OneId \subseteq OneId'
  <2>1. ASSUME NEW u \in OneId PROVE u \in OneId'
    <3>1. CASE u = t
      BY <1>2, <2>1, <3>1 DEF OneId, Forward
    <3>2. CASE u # t
      BY <1>2, <2>1, <3>2 DEF OneId
    <3> QED BY <3>1, <3>2
  <2> QED BY <2>1
<1>6. TwoIds \subseteq TwoIds'
  <2>1. ASSUME NEW u \in TwoIds PROVE u \in TwoIds'
    <3>1. CASE u = t
      BY <1>2, <2>1, <3>1 DEF TwoIds, Forward
    <3>2. CASE u # t
      BY <1>2, <2>1, <3>2 DEF TwoIds
    <3> QED BY <3>1, <3>2
  <2> QED BY <2>1
<1>7. High' = 1 + Cardinality(Storers')
  BY DEF High
<1>8. High' >= High
  BY <1>3, <1>4, <1>7, OneMore DEF High
<1>9. High' >= Above(visit[t], new)
  <2>1. CASE Storer(new) /\ ~Storer(visit[t])
    <3>1. t \in Storers' /\ t \notin Storers
      BY <1>2, <2>1 DEF Storers
    <3>2. Cardinality(Storers) + 1 <= Cardinality(Storers')
      BY <1>3, <1>4, <3>1, OneMore
    <3>3. Cardinality(Storers) \in Nat /\ Cardinality(Storers') \in Nat
      BY <1>3, <1>4, OneMore
    <3> QED BY <1>7, <2>1, <3>2, <3>3 DEF High, Above
  <2>2. CASE ~(Storer(new) /\ ~Storer(visit[t]))
    BY <1>8, <2>2 DEF Above
  <2> QED BY <2>1, <2>2
<1>10. /\ Cardinality(OneId) \in Nat /\ Cardinality(OneId') \in Nat /\ Cardinality(TwoIds) \in Nat
       /\ Cardinality(TwoIds') \in Nat
       /\ Cardinality(OneId) <= Cardinality(OneId') /\ Cardinality(TwoIds) <= Cardinality(TwoIds')
  BY <1>3, <1>5, <1>6, OneMore
<1>11. ASSUME Spent(visit[t]) < Spent(new), Spent(new) <= 2
       PROVE  Cardinality(OneId) + Cardinality(TwoIds) + 1 <= Cardinality(OneId') + Cardinality(TwoIds')
  <2>1. \/ Spent(new) >= 1 /\ ~(Spent(visit[t]) >= 1)
        \/ Spent(new) >= 2 /\ ~(Spent(visit[t]) >= 2)
    BY <1>11 DEF Forward
  <2>2. CASE Spent(new) >= 1 /\ ~(Spent(visit[t]) >= 1)
    <3>1. t \in OneId' /\ t \notin OneId
      BY <1>2, <2>2 DEF OneId
    <3>2. Cardinality(OneId) + 1 <= Cardinality(OneId')
      BY <1>3, <1>5, <3>1, OneMore
    <3> QED BY <1>10, <3>2
  <2>3. CASE Spent(new) >= 2 /\ ~(Spent(visit[t]) >= 2)
    <3>1. t \in TwoIds' /\ t \notin TwoIds
      BY <1>2, <2>3 DEF TwoIds
    <3>2. Cardinality(TwoIds) + 1 <= Cardinality(TwoIds')
      BY <1>3, <1>6, <3>1, OneMore
    <3> QED BY <1>10, <3>2
  <2> QED BY <2>1, <2>2, <2>3
<1> QED BY <1>8, <1>9, <1>10, <1>11

\* A step of one task that fits, and at most writes the row of the version it holds.
LEMMA TaskGoesOn ==
    ASSUME RecipesInv, TypesFit, NEW t \in PageTask, NEW new \in AnyVisits, Go(t, new), Forward(visit[t], new),
           FitVisit(new, Above(visit[t], new), minted'),
           minted' = minted \/ (minted' = minted + 1 /\ Spent(visit[t]) < Spent(new) /\ Spent(new) <= 2),
           proved' \subseteq 0 .. minted',
           \A v \in Versions : \/ recipes'[v] \in {recipes[v], NoRecipe}
                               \/ recipes'[v] = visit[t].held /\ v = visit[t].held.version
    PROVE  TypesFit'
<1>0. /\ minted \in Nat /\ minted' \in Nat /\ minted <= minted'
  BY DEF RecipesInv, RecipeShapes
<1>1. visit' = [visit EXCEPT ![t] = new] /\ visit \in [PageTask -> AnyVisits]
  BY DEF RecipesInv, RecipeShapes, Go
<1>2. visit'[t] = new /\ \A u \in PageTask : u # t => visit'[u] = visit[u]
  BY <1>1
<1>3. High \in Nat /\ High' \in Nat /\ Above(visit[t], new) \in Nat
  <2>1. High \in Nat
    BY CountsAreNumbers
  <2>2. Cardinality(Storers') \in Nat
    BY OneMore DEF Storers
  <2>3. High' \in Nat
    BY <2>2 DEF High
  <2> QED BY <2>1, <2>3 DEF Above
<1>4. /\ High' >= Above(visit[t], new) /\ High' >= High
      /\ Cardinality(OneId) + Cardinality(TwoIds) <= Cardinality(OneId') + Cardinality(TwoIds')
      /\ Spent(visit[t]) < Spent(new) /\ Spent(new) <= 2
         => Cardinality(OneId) + Cardinality(TwoIds) + 1 <= Cardinality(OneId') + Cardinality(TwoIds')
  BY CountsGoForward
<1>5. /\ Cardinality(OneId) \in Nat /\ Cardinality(OneId') \in Nat /\ Cardinality(TwoIds) \in Nat
      /\ Cardinality(TwoIds') \in Nat
  BY OneMore DEF OneId, TwoIds
<1>6. minted' <= Cardinality(OneId') + Cardinality(TwoIds')
  BY <1>0, <1>4, <1>5 DEF TypesFit
<1>7. ASSUME NEW v \in Versions, recipes'[v] # NoRecipe PROVE Fit(recipes'[v], High') /\ v <= High'
  <2>0. v \in Nat
    BY DEF Versions
  <2>1. CASE recipes'[v] = recipes[v]
    <3>1. Fit(recipes[v], High) /\ v <= High
      BY <1>7, <2>1 DEF TypesFit
    <3>2. Fit(recipes[v], High')
      BY <1>3, <1>4, <3>1, FitsBelow
    <3> QED BY <1>3, <1>4, <2>0, <2>1, <3>1, <3>2
  <2>2. CASE recipes'[v] = visit[t].held /\ v = visit[t].held.version
    <3>1. Fit(visit[t].held, High)
      BY DEF TypesFit, FitVisit
    <3>2. Fit(visit[t].held, High')
      BY <1>3, <1>4, <3>1, FitsBelow
    <3>3. v <= High'
      BY <1>7, <2>2, <3>2 DEF Fit
    <3> QED BY <2>2, <3>2, <3>3
  <2> QED BY <1>7, <2>1, <2>2
<1>8. ASSUME NEW u \in PageTask PROVE FitVisit(visit'[u], High', minted')
  <2>1. CASE u = t
    BY <1>0, <1>2, <1>3, <1>4, <2>1, FitsVisitBelow
  <2>2. CASE u # t
    <3>1. FitVisit(visit[u], High, minted) /\ visit[u] \in AnyVisits
      BY <1>1 DEF TypesFit
    <3>2. FitVisit(visit[u], High', minted')
      BY <1>0, <1>3, <1>4, <3>1, FitsVisitBelow
    <3> QED BY <1>2, <2>2, <3>2
  <2> QED BY <2>1, <2>2
<1> QED BY <1>6, <1>7, <1>8 DEF TypesFit

\* What the limits say of a task, with the types of its state.
LEMMA VisitFits ==
    ASSUME RecipesInv, TypesFit, NEW t \in PageTask
    PROVE  /\ visit[t] \in AnyVisits /\ FitVisit(visit[t], High, minted)
           /\ visit[t].asked \in 0 .. 2 /\ minted \in Nat /\ High \in Nat /\ proved \subseteq 0 .. minted
<1>1. visit[t] \in AnyVisits /\ minted \in Nat
  BY DEF RecipesInv, RecipeShapes
<1>2. FitVisit(visit[t], High, minted) /\ proved \subseteq 0 .. minted
  BY DEF TypesFit
<1>3. High \in Nat
  BY CountsAreNumbers
<1>4. visit[t].asked \in 0 .. MaxRounds /\ MaxRounds \in 1 .. 2
  BY <1>2, RecipeAssumption DEF FitVisit
<1> QED BY <1>1, <1>2, <1>3, <1>4

\* A task that is over fits.
LEMMA OverFits ==
    ASSUME RecipesInv, TypesFit, NEW t \in PageTask, NEW new \in AnyVisits,
           new = Visit("over") \/ new = [Visit("over") EXCEPT !.draft = NoRecipe]
                               \/ new = [Visit("over") EXCEPT !.held = NoRecipe]
    PROVE  Forward(visit[t], new) /\ FitVisit(new, Above(visit[t], new), minted)
<1>0. /\ new.at = "over" /\ new.asked = 0 /\ new.held = NoRecipe /\ new.draft = NoRecipe /\ new.pending = NoRecipe
      /\ new.replayed = NoPage
  BY DEF Visit
<1>1. Forward(visit[t], new)
  BY <1>0, VisitFits DEF Forward, Storer, Spent, FitVisit
<1>2. FitVisit(new, Above(visit[t], new), minted)
  BY <1>0, VisitFits, RecipeAssumption DEF FitVisit, Fit, Numbering, NoPage
<1> QED BY <1>1, <1>2

\* So does one that goes on with what it had, and stores nothing yet.
LEMMA QuietFits ==
    ASSUME RecipesInv, TypesFit, NEW t \in PageTask, NEW new \in AnyVisits, ~Storer(visit[t]), ~Storer(new),
           Numbering(new) => Numbering(visit[t]), new.asked = visit[t].asked,
           Fit(new.held, High), new.draft \in {visit[t].draft, NoRecipe},
           new.pending \in {visit[t].pending, visit[t].draft, NoRecipe},
           new.replayed <= minted
    PROVE  Forward(visit[t], new) /\ FitVisit(new, Above(visit[t], new), minted)
<1>0. Fit(NoRecipe, High + 1)
  BY DEF Fit
<1>1. visit[t].at # "over" /\ new.at # "over"
  BY DEF Storer
<1>2. Numbering(visit[t]) => visit[t].asked >= 1
  BY VisitFits DEF FitVisit
<1>3. Forward(visit[t], new)
  BY <1>1, <1>2, VisitFits DEF Forward, Spent
<1>4. Above(visit[t], new) = High
  BY DEF Above
<1>5. FitVisit(new, High, minted)
  BY <1>0, VisitFits DEF FitVisit
<1> QED BY <1>3, <1>4, <1>5

\* The new state of a task is one of a task.
LEMMA NewIsVisit == ASSUME RecipesInv', NEW t \in PageTask, NEW new, Go(t, new), RecipesInv PROVE new \in AnyVisits
<1>1. visit \in [PageTask -> AnyVisits] /\ visit' \in [PageTask -> AnyVisits]
  BY DEF RecipesInv, RecipeShapes
<1> QED BY <1>1 DEF Go

\* A step of a task that leaves the rows alone.
LEMMA TaskFits ==
    ASSUME RecipesInv, RecipesInv', TypesFit, NEW t \in PageTask, NEW new, Go(t, new),
           Forward(visit[t], new), FitVisit(new, Above(visit[t], new), minted),
           recipes' = recipes, minted' = minted, proved' \subseteq 0 .. minted
    PROVE  TypesFit'
BY NewIsVisit, TaskGoesOn

\* What the store reads fits, and what is done to a copy keeps it so.
LEMMA LatestFits ==
    ASSUME RecipesInv, TypesFit, Latest # NoRecipe PROVE Latest \in AnyRecipe /\ Fit(Latest, High)
<1>1. Newest \in Versions /\ Latest = recipes[Newest]
  BY NewestIsStored DEF Latest
<1> QED BY <1>1, LatestIsProved DEF TypesFit

LEMMA CopiesFit ==
    ASSUME NEW r \in AnyRecipe, NEW high \in Nat, Fit(r, high)
    PROVE  \A s \in {r, Invalidated(r), Succeeded(r), Failed(r)} : Fit(s, high)
<1>0. /\ r # NoRecipe /\ r.steps \in 1 .. MaxSteps /\ r.failures \in 0 .. Threshold
      /\ r.status = "active" => r.failures < Threshold
      /\ r.version \in 1 .. high /\ Threshold \in Nat \ {0}
  BY RecipeAssumption DEF Fit
<1>1. Fit(Invalidated(r), high)
  <2>1. /\ Invalidated(r).steps = r.steps /\ Invalidated(r).failures = r.failures
        /\ Invalidated(r).version = r.version /\ Invalidated(r).status = "invalidated"
    BY DEF AnyRecipe, Invalidated
  <2> QED BY <1>0, <2>1 DEF Fit
<1>2. Fit(Succeeded(r), high)
  <2>1. /\ Succeeded(r).steps = r.steps /\ Succeeded(r).failures = 0
        /\ Succeeded(r).version = r.version
    BY DEF AnyRecipe, Succeeded
  <2> QED BY <1>0, <2>1 DEF Fit
<1>3. Fit(Failed(r), high)
  <2>1. CASE r.status = "invalidated"
    BY <2>1 DEF Failed
  <2>2. CASE r.status # "invalidated"
    <3> DEFINE st == IF r.failures + 1 >= Threshold THEN "invalidated" ELSE r.status
    <3>1. Failed(r) = [r EXCEPT !.failures = r.failures + 1, !.status = st]
      BY <2>2 DEF Failed
    <3>2. st = "active" => r.failures + 1 < Threshold
      BY <1>0
    <3>3. r.status = "active"
      BY <2>2 DEF AnyRecipe
    <3> HIDE DEF st
    <3>4. /\ Failed(r).steps = r.steps /\ Failed(r).failures = r.failures + 1
          /\ Failed(r).version = r.version /\ Failed(r).status = st
      BY <3>1 DEF AnyRecipe
    <3> QED BY <1>0, <3>2, <3>3, <3>4 DEF Fit
  <2> QED BY <2>1, <2>2
<1> QED BY <1>1, <1>2, <1>3

\* A task that stores a copy of what it has read, and goes on.
LEMMA StoringFits ==
    ASSUME RecipesInv, RecipesInv', TypesFit, NEW t \in PageTask, NEW copy, Fit(copy, High), ~Storer(visit[t]),
           NEW next, next # "over", next = "number" => Numbering(visit[t]),
           Go(t, Storing(t, copy, next)), recipes' = recipes, minted' = minted, proved' = proved
    PROVE  TypesFit'
<1> DEFINE new == Storing(t, copy, next)
<1>0. visit[t] \in AnyVisits
  BY VisitFits
<1>1. /\ new.at = "save" /\ new.then = next /\ new.held = copy /\ new.pending = visit[t].pending
      /\ new.draft = visit[t].draft /\ new.asked = visit[t].asked /\ new.replayed = visit[t].replayed
  BY <1>0 DEF Storing, AnyVisits
<1>2. Go(t, new) /\ new \in AnyVisits
  BY NewIsVisit
<1> HIDE DEF new
<1>3. ~Storer(new) /\ (Numbering(new) => Numbering(visit[t])) /\ new.replayed <= minted
  BY <1>1, VisitFits DEF Storer, Numbering, FitVisit
<1>4. Forward(visit[t], new) /\ FitVisit(new, Above(visit[t], new), minted)
  BY <1>1, <1>2, <1>3, QuietFits
<1> QED BY <1>2, <1>4, VisitFits, TaskFits

\* A task that goes on to another phase, with no new recipe.
LEMMA MovesFit ==
    ASSUME RecipesInv, RecipesInv', TypesFit, NEW t \in PageTask, NEW new, Go(t, new),
           visit[t].at \notin {"save", "prune", "over"}, new.at \notin {"save", "prune", "over"},
           new.at \in {"agent", "number"} => visit[t].at \in {"agent", "number"}, new.asked = visit[t].asked,
           Fit(new.held, High), new.draft \in {visit[t].draft, NoRecipe},
           new.pending \in {visit[t].pending, visit[t].draft, NoRecipe}, new.replayed <= minted,
           recipes' = recipes, minted' = minted, proved' \subseteq 0 .. minted
    PROVE  TypesFit'
<1>1. ~Storer(visit[t]) /\ ~Storer(new) /\ (Numbering(new) => Numbering(visit[t]))
  BY DEF Storer, Numbering
<1>2. new \in AnyVisits
  BY NewIsVisit
<1>3. Forward(visit[t], new) /\ FitVisit(new, Above(visit[t], new), minted)
  BY <1>1, <1>2, QuietFits
<1> QED BY <1>3, TaskFits

\* A task that ends without storing anything.
LEMMA EndFits ==
    ASSUME RecipesInv, RecipesInv', TypesFit, NEW t \in PageTask, NEW new, Go(t, new),
           new = Visit("over") \/ new = [Visit("over") EXCEPT !.draft = NoRecipe],
           recipes' = recipes, minted' = minted, proved' = proved
    PROVE  TypesFit'
<1>1. new \in AnyVisits
  BY NewIsVisit
<1>2. Forward(visit[t], new) /\ FitVisit(new, Above(visit[t], new), minted)
  BY <1>1, OverFits
<1> QED BY <1>2, VisitFits, TaskFits

\* One lemma for each action: it keeps TypesFit.
LEMMA PlainPageFits == ASSUME RecipesInv, RecipesInv', TypesFit, NEW t \in PageTask, PlainPage(t) PROVE TypesFit'
<1> DEFINE new == [Moved(t, "page") EXCEPT !.page = Plain]
<1>0. visit[t] \in AnyVisits /\ FitVisit(visit[t], High, minted) /\ proved \subseteq 0 .. minted
  BY VisitFits
<1>1. /\ new.at = "page" /\ new.asked = visit[t].asked /\ new.held = visit[t].held /\ new.draft = visit[t].draft
      /\ new.pending = visit[t].pending /\ new.replayed = visit[t].replayed
  BY <1>0 DEF Moved, AnyVisits
<1>2. visit[t].at = "plain" /\ Go(t, new) /\ recipes' = recipes /\ minted' = minted /\ proved' = proved
  BY DEF PlainPage, At
<1> HIDE DEF new
<1> QED BY <1>0, <1>1, <1>2, MovesFit DEF FitVisit

LEMMA PlainFailsFits == ASSUME RecipesInv, RecipesInv', TypesFit, NEW t \in PageTask, PlainFails(t) PROVE TypesFit'
BY EndFits DEF PlainFails, Moved

LEMMA SaveFailsFits == ASSUME RecipesInv, RecipesInv', TypesFit, NEW t \in PageTask, SaveFails(t) PROVE TypesFit'
BY EndFits DEF SaveFails, Moved

\* Without a candidate.
LEMMA NoCandidateFits ==
    ASSUME RecipesInv, RecipesInv', TypesFit, NEW t \in PageTask, Go(t, NoCandidate(t)),
           visit[t].at \in {"agent", "verify"}, recipes' = recipes, minted' = minted, proved' = proved
    PROVE  TypesFit'
<1>0. visit[t] \in AnyVisits /\ FitVisit(visit[t], High, minted) /\ proved \subseteq 0 .. minted
  BY VisitFits
<1>1. CASE visit[t].page = NoPage
  <2>1. NoCandidate(t) = [Visit("over") EXCEPT !.draft = NoRecipe]
    BY <1>1 DEF NoCandidate, Moved
  <2> QED BY <2>1, EndFits
<1>2. CASE visit[t].page # NoPage
  <2> DEFINE new == [Moved(t, "page") EXCEPT !.draft = NoRecipe]
  <2>1. /\ new.at = "page" /\ new.asked = visit[t].asked /\ new.held = visit[t].held /\ new.draft = NoRecipe
        /\ new.pending = visit[t].pending /\ new.replayed = visit[t].replayed
    BY <1>0 DEF Moved, AnyVisits
  <2>2. Go(t, new)
    BY <1>2 DEF NoCandidate
  <2> HIDE DEF new
  <2> QED BY <1>0, <2>1, <2>2, MovesFit DEF FitVisit
<1> QED BY <1>1, <1>2

\* A page that was found without a recipe.
LEMMA PlainFoundFits ==
    ASSUME RecipesInv, RecipesInv', TypesFit, NEW t \in PageTask,
           Go(t, [Moved(t, "page") EXCEPT !.page = Plain, !.draft = NoRecipe]),
           visit[t].at \in {"agent", "verify"}, recipes' = recipes, minted' = minted, proved' = proved
    PROVE  TypesFit'
<1> DEFINE new == [Moved(t, "page") EXCEPT !.page = Plain, !.draft = NoRecipe]
<1>0. visit[t] \in AnyVisits /\ FitVisit(visit[t], High, minted) /\ proved \subseteq 0 .. minted
  BY VisitFits
<1>1. /\ new.at = "page" /\ new.asked = visit[t].asked /\ new.held = visit[t].held /\ new.draft = NoRecipe
      /\ new.pending = visit[t].pending /\ new.replayed = visit[t].replayed
  BY <1>0 DEF Moved, AnyVisits
<1>2. Go(t, new)
  OBVIOUS
<1> HIDE DEF new
<1> QED BY <1>0, <1>1, <1>2, MovesFit DEF FitVisit

LEMMA NoPathFits ==
    ASSUME RecipesInv, RecipesInv', TypesFit, NEW t \in PageTask, NEW b \in BOOLEAN, NoPath(t, b) PROVE TypesFit'
<1>1. visit[t].at = "agent" /\ recipes' = recipes /\ minted' = minted /\ proved' = proved
  BY DEF NoPath, At
<1>2. CASE b
  BY <1>1, <1>2, PlainFoundFits DEF NoPath
<1>3. CASE ~b
  BY <1>1, <1>3, NoCandidateFits DEF NoPath
<1> QED BY <1>2, <1>3

LEMMA CandidateFailsFits ==
    ASSUME RecipesInv, RecipesInv', TypesFit, NEW t \in PageTask, NEW b \in BOOLEAN, CandidateFails(t, b)
    PROVE  TypesFit'
<1>1. visit[t].at = "verify" /\ recipes' = recipes /\ minted' = minted /\ proved' = proved
  BY DEF CandidateFails, At
<1>2. CASE b
  BY <1>1, <1>2, PlainFoundFits DEF CandidateFails
<1>3. CASE ~b
  BY <1>1, <1>3, NoCandidateFits DEF CandidateFails
<1> QED BY <1>2, <1>3

LEMMA ForgetCandidateFits ==
    ASSUME RecipesInv, RecipesInv', TypesFit, NEW t \in PageTask, ForgetCandidate(t) PROVE TypesFit'
<1> DEFINE new == [visit[t] EXCEPT !.pending = NoRecipe]
<1>0. visit[t] \in AnyVisits /\ FitVisit(visit[t], High, minted) /\ proved \subseteq 0 .. minted
  BY VisitFits
<1>1. /\ new.at = visit[t].at /\ new.asked = visit[t].asked /\ new.held = visit[t].held
      /\ new.draft = visit[t].draft /\ new.pending = NoRecipe /\ new.replayed = visit[t].replayed
  BY <1>0 DEF AnyVisits
<1>2. visit[t].at = "page" /\ Go(t, new) /\ recipes' = recipes /\ minted' = minted /\ proved' = proved
  BY DEF ForgetCandidate, At
<1> HIDE DEF new
<1> QED BY <1>0, <1>1, <1>2, MovesFit DEF FitVisit

LEMMA LookUpFits ==
    ASSUME RecipesInv, RecipesInv', TypesFit, NEW t \in PageTask, NEW e \in BOOLEAN, LookUp(t, e) PROVE TypesFit'
<1>0. visit[t] \in AnyVisits /\ FitVisit(visit[t], High, minted) /\ proved \subseteq 0 .. minted /\ High \in Nat
  BY VisitFits
<1>1. visit[t].at = "start" /\ recipes' = recipes /\ minted' = minted /\ proved' = proved
  BY DEF LookUp, At
<1>2. CASE e
  <2>1. Latest # NoRecipe /\ Go(t, Storing(t, Invalidated(Latest), "plain"))
    BY <1>2 DEF LookUp, MayExpire
  <2>2. Fit(Invalidated(Latest), High) /\ ~Storer(visit[t])
    BY <1>0, <1>1, <2>1, LatestFits, CopiesFit DEF Storer
  <2> QED BY <1>1, <2>1, <2>2, StoringFits
<1>3. CASE ~e /\ Got(e) # NoRecipe /\ Compatible(t, Got(e))
  <2>1. Got(e) = Latest /\ Latest # NoRecipe
    BY <1>3 DEF Got
  <2> DEFINE new == [Moved(t, "replay") EXCEPT !.held = Latest]
  <2>2. /\ new.at = "replay" /\ new.asked = visit[t].asked /\ new.held = Latest
        /\ new.draft = visit[t].draft /\ new.pending = visit[t].pending /\ new.replayed = visit[t].replayed
    BY <1>0 DEF Moved, AnyVisits
  <2>3. Go(t, new)
    BY <1>3, <2>1 DEF LookUp
  <2> HIDE DEF new
  <2> QED BY <1>0, <1>1, <2>1, <2>2, <2>3, LatestFits, MovesFit DEF FitVisit
<1>4. CASE ~e /\ ~(Got(e) # NoRecipe /\ Compatible(t, Got(e)))
  <2> DEFINE new == Moved(t, "plain")
  <2>1. /\ new.at = "plain" /\ new.asked = visit[t].asked /\ new.held = visit[t].held
        /\ new.draft = visit[t].draft /\ new.pending = visit[t].pending /\ new.replayed = visit[t].replayed
    BY <1>0 DEF Moved, AnyVisits
  <2>2. Go(t, new)
    BY <1>4 DEF LookUp
  <2> HIDE DEF new
  <2> QED BY <1>0, <1>1, <2>1, <2>2, MovesFit DEF FitVisit
<1> QED BY <1>2, <1>3, <1>4

LEMMA ReplayWorksFits == ASSUME RecipesInv, RecipesInv', TypesFit, NEW t \in PageTask, ReplayWorks(t) PROVE TypesFit'
<1> DEFINE new == [Moved(t, "page") EXCEPT !.page = visit[t].held.id,
                                           !.replayed = visit[t].held.id, !.held = NoRecipe]
<1>0. visit[t] \in AnyVisits /\ FitVisit(visit[t], High, minted) /\ proved \subseteq 0 .. minted
  BY VisitFits
<1>1. visit[t].held.id <= minted
  BY UsedAreCopies DEF ReplayWorks, RecipesInv, HeldAreProved, IdsTellFills
<1>2. /\ new.at = "page" /\ new.asked = visit[t].asked /\ new.held = NoRecipe /\ new.draft = visit[t].draft
      /\ new.pending = visit[t].pending /\ new.replayed = visit[t].held.id
  BY <1>0 DEF Moved, AnyVisits
<1>3. visit[t].at = "replay" /\ Go(t, new) /\ recipes' = recipes /\ minted' = minted /\ proved' = proved
  BY DEF ReplayWorks, At
<1> HIDE DEF new
<1>4. Fit(NoRecipe, High)
  BY DEF Fit
<1> QED BY <1>0, <1>1, <1>2, <1>3, <1>4, MovesFit

LEMMA ReplayFailsFits == ASSUME RecipesInv, RecipesInv', TypesFit, NEW t \in PageTask, ReplayFails(t) PROVE TypesFit'
<1>0. visit[t] \in AnyVisits /\ FitVisit(visit[t], High, minted) /\ High \in Nat
  BY VisitFits
<1>1. visit[t].at = "replay" /\ recipes' = recipes /\ minted' = minted /\ proved' = proved
  BY DEF ReplayFails, At
<1>2. visit[t].held \in AnyRecipe
  BY <1>0 DEF ReplayFails, RecipesInv, HeldAreProved, AnyVisits
<1>3. Fit(Failed(visit[t].held), High) /\ ~Storer(visit[t])
  BY <1>0, <1>1, <1>2, CopiesFit DEF Storer, FitVisit
<1> QED BY <1>1, <1>3, StoringFits DEF ReplayFails

LEMMA CandidateWorksFits ==
    ASSUME RecipesInv, RecipesInv', TypesFit, NEW t \in PageTask, CandidateWorks(t) PROVE TypesFit'
<1> DEFINE new == [Moved(t, "page") EXCEPT !.page = visit[t].draft.id, !.draft = NoRecipe,
                                           !.pending = visit[t].draft]
<1>0. visit[t] \in AnyVisits /\ FitVisit(visit[t], High, minted) /\ proved \subseteq 0 .. minted
  BY VisitFits
<1>1. /\ new.at = "page" /\ new.asked = visit[t].asked /\ new.held = visit[t].held /\ new.draft = NoRecipe
      /\ new.pending = visit[t].draft /\ new.replayed = visit[t].replayed
  BY <1>0 DEF Moved, AnyVisits
<1>2. visit[t].at = "verify" /\ Go(t, new) /\ recipes' = recipes /\ minted' = minted /\ proved' = proved
  BY DEF CandidateWorks, At
<1> HIDE DEF new
<1> QED BY <1>0, <1>1, <1>2, MovesFit DEF FitVisit

LEMMA ExtractedFits ==
    ASSUME RecipesInv, RecipesInv', TypesFit, NEW t \in PageTask, NEW b \in SUBSET Ids, Extracted(t, b)
    PROVE  TypesFit'
<1> DEFINE to == IF visit[t].replayed = NoPage THEN "judge drafts" ELSE "judge active"
           new == [Moved(t, to) EXCEPT !.backed = b]
<1>0. visit[t] \in AnyVisits /\ FitVisit(visit[t], High, minted) /\ proved \subseteq 0 .. minted /\ minted \in Nat
  BY VisitFits
<1>1. to \in {"judge drafts", "judge active"}
  OBVIOUS
<1>2. visit[t].at = "page" /\ Go(t, new) /\ recipes' = recipes /\ minted' = minted
  BY DEF Extracted, At
<1> HIDE DEF to
<1>3. /\ new.at = to /\ new.asked = visit[t].asked /\ new.held = visit[t].held /\ new.draft = visit[t].draft
      /\ new.pending = visit[t].pending /\ new.replayed = visit[t].replayed
  BY <1>0, <1>1 DEF Moved, AnyVisits
<1> HIDE DEF new
<1>4. ASSUME NEW i \in b PROVE i \in 0 .. minted
  <2>1. i # NoPage /\ (i = visit[t].replayed \/ (visit[t].pending # NoRecipe /\ i = visit[t].pending.id))
    <3>1. b \subseteq {visit[t].replayed} \cup (IF visit[t].pending = NoRecipe THEN {} ELSE {visit[t].pending.id})
      BY DEF Extracted
    <3>2. NoPage \notin b
      BY DEF Extracted
    <3> QED BY <1>4, <3>1, <3>2
  <2>2. CASE i = visit[t].replayed
    BY <1>0, <2>1, <2>2 DEF FitVisit, AnyVisits
  <2>3. CASE visit[t].pending # NoRecipe /\ i = visit[t].pending.id
    <3>1. visit[t].pending.id <= minted
      BY <2>3, UsedAreCopies DEF RecipesInv, IdsTellFills
    <3>2. visit[t].pending.id \in Nat
      BY <1>0, <2>3 DEF AnyVisits, AnyRecipe
    <3> QED BY <1>0, <2>3, <3>1, <3>2
  <2> QED BY <2>1, <2>2, <2>3
<1>5. proved' \subseteq 0 .. minted
  BY <1>0, <1>4 DEF Extracted
<1> QED BY <1>0, <1>1, <1>2, <1>3, <1>5, MovesFit DEF FitVisit

LEMMA JudgeActiveFits ==
    ASSUME RecipesInv, RecipesInv', TypesFit, NEW t \in PageTask, NEW e \in BOOLEAN, JudgeActive(t, e)
    PROVE  TypesFit'
<1>0. visit[t] \in AnyVisits /\ FitVisit(visit[t], High, minted) /\ proved \subseteq 0 .. minted /\ High \in Nat
  BY VisitFits
<1>1. visit[t].at = "judge active" /\ recipes' = recipes /\ minted' = minted /\ proved' = proved
  BY DEF JudgeActive, At
<1>2. ~Storer(visit[t])
  BY <1>1 DEF Storer
<1>3. CASE e
  <2>1. Latest # NoRecipe /\ Go(t, Storing(t, Invalidated(Latest), "judge drafts"))
    BY <1>3 DEF JudgeActive, MayExpire
  <2>2. Fit(Invalidated(Latest), High)
    BY <1>0, <2>1, LatestFits, CopiesFit
  <2> QED BY <1>1, <1>2, <2>1, <2>2, StoringFits
<1>4. CASE ~e /\ (Got(e) = NoRecipe \/ Got(e).id # visit[t].replayed)
  <2> DEFINE new == Moved(t, "judge drafts")
  <2>1. /\ new.at = "judge drafts" /\ new.asked = visit[t].asked /\ new.held = visit[t].held
        /\ new.draft = visit[t].draft /\ new.pending = visit[t].pending /\ new.replayed = visit[t].replayed
    BY <1>0 DEF Moved, AnyVisits
  <2>2. Go(t, new)
    BY <1>4 DEF JudgeActive
  <2> HIDE DEF new
  <2> QED BY <1>0, <1>1, <2>1, <2>2, MovesFit DEF FitVisit
<1>5. CASE ~e /\ Got(e) # NoRecipe /\ Got(e).id = visit[t].replayed
  <2>1. Got(e) = Latest /\ Latest # NoRecipe
    BY <1>5 DEF Got
  <2> DEFINE r == IF Latest.id \in visit[t].backed THEN Succeeded(Latest) ELSE Failed(Latest)
  <2>2. Fit(r, High)
    BY <1>0, <2>1, LatestFits, CopiesFit
  <2>3. Go(t, Storing(t, r, "judge drafts"))
    BY <1>5, <2>1 DEF JudgeActive
  <2> HIDE DEF r
  <2> QED BY <1>1, <1>2, <2>2, <2>3, StoringFits
<1> QED BY <1>3, <1>4, <1>5

LEMMA JudgeDraftsFits == ASSUME RecipesInv, RecipesInv', TypesFit, NEW t \in PageTask, JudgeDrafts(t) PROVE TypesFit'
<1>0. /\ visit[t] \in AnyVisits /\ FitVisit(visit[t], High, minted) /\ proved \subseteq 0 .. minted /\ High \in Nat
      /\ visit[t].asked \in 0 .. 2
  BY VisitFits
<1>1. visit[t].at = "judge drafts" /\ recipes' = recipes /\ minted' = minted /\ proved' = proved
  BY DEF JudgeDrafts, At
<1>2. CASE visit[t].pending # NoRecipe /\ visit[t].pending.id \in visit[t].backed
  <2> DEFINE new == Storing(t, visit[t].pending, "over")
  <2>1. /\ new.at = "save" /\ new.then = "over" /\ new.held = visit[t].pending /\ new.pending = visit[t].pending
        /\ new.draft = visit[t].draft /\ new.asked = visit[t].asked /\ new.replayed = visit[t].replayed
    BY <1>0 DEF Storing, AnyVisits
  <2>2. Go(t, new)
    BY <1>2 DEF JudgeDrafts
  <2> HIDE DEF new
  <2>3. Storer(new) /\ ~Storer(visit[t]) /\ ~Numbering(new) /\ ~Numbering(visit[t])
    BY <1>1, <2>1 DEF Storer, Numbering
  <2>4. Above(visit[t], new) = High + 1
    BY <2>3 DEF Above
  <2>5. Forward(visit[t], new)
    <3>1. Spent(visit[t]) = visit[t].asked /\ Spent(new) = visit[t].asked
      BY <1>1, <2>1, <2>3 DEF Spent
    <3>2. visit[t].asked \in Nat
      BY <1>0
    <3> QED BY <2>3, <3>1, <3>2 DEF Forward
  <2>6. Fit(visit[t].draft, High + 2) /\ Fit(visit[t].pending, High + 2)
    BY <1>0, FitsBelow DEF FitVisit
  <2>7. FitVisit(new, High + 1, minted)
    BY <1>0, <2>1, <2>3, <2>6 DEF FitVisit
  <2> QED BY <1>0, <1>1, <2>2, <2>4, <2>5, <2>7, TaskFits
<1>3. CASE ~(visit[t].pending # NoRecipe /\ visit[t].pending.id \in visit[t].backed)
  BY <1>1, <1>3, EndFits DEF JudgeDrafts, Moved
<1> QED BY <1>2, <1>3

LEMMA AskAgentFits ==
    ASSUME RecipesInv, RecipesInv', TypesFit, NEW t \in PageTask, NEW f \in SUBSET FillValue, AskAgent(t, f)
    PROVE  TypesFit'
<1> DEFINE d == [id |-> 0, version |-> 1, fills |-> f, steps |-> 1, failures |-> 0, status |-> "active"]
           n == IF visit[t].page >= 0 THEN MaxRounds ELSE visit[t].asked + 1
           new == [Moved(t, "agent") EXCEPT !.asked = n, !.draft = d]
<1>0. /\ visit[t] \in AnyVisits /\ FitVisit(visit[t], High, minted) /\ proved \subseteq 0 .. minted /\ High \in Nat
      /\ visit[t].asked \in 0 .. 2 /\ minted \in Nat
  BY VisitFits
<1>1. visit[t].at \in {"plain", "page"} /\ visit[t].asked < MaxRounds /\ MaxRounds \in 1 .. 2
  BY RecipeAssumption DEF AskAgent, At
<1>2. n \in visit[t].asked + 1 .. MaxRounds
  BY <1>0, <1>1
<1>3. Fit(d, High) /\ Fit(d, High + 1) /\ d.id = 0
  <2>1. High >= 1
    BY CountsAreNumbers
  <2> QED BY <1>0, <2>1, RecipeAssumption DEF Fit
<1>4. Go(t, new) /\ recipes' = recipes /\ minted' = minted /\ proved' = proved
  <2>1. Moved(t, "agent").asked = visit[t].asked
    BY <1>0 DEF Moved, AnyVisits
  <2> QED BY <2>1 DEF AskAgent
<1> HIDE DEF d, n
<1>5. /\ new.at = "agent" /\ new.asked = n /\ new.held = visit[t].held /\ new.draft = d
      /\ new.pending = visit[t].pending /\ new.replayed = visit[t].replayed
  BY <1>0 DEF Moved, AnyVisits
<1> HIDE DEF new
<1>6. ~Storer(new) /\ ~Storer(visit[t]) /\ Numbering(new) /\ ~Numbering(visit[t])
  BY <1>1, <1>5 DEF Storer, Numbering
<1>7. Above(visit[t], new) = High
  BY <1>6 DEF Above
<1>8. Forward(visit[t], new)
  BY <1>0, <1>1, <1>2, <1>5, <1>6 DEF Forward, Spent
<1>9. FitVisit(new, High, minted)
  BY <1>0, <1>1, <1>2, <1>3, <1>5, <1>6 DEF FitVisit
<1> QED BY <1>0, <1>4, <1>7, <1>8, <1>9, TaskFits

LEMMA ExtendFits ==
    ASSUME RecipesInv, RecipesInv', TypesFit, NEW t \in PageTask, NEW e \in BOOLEAN, Extend(t, e) PROVE TypesFit'
<1> DEFINE drafted == visit[t].draft
           steps == Got(e).steps + drafted.steps
<1>0. /\ visit[t] \in AnyVisits /\ FitVisit(visit[t], High, minted) /\ proved \subseteq 0 .. minted /\ High \in Nat
      /\ visit[t].asked \in 0 .. 2 /\ minted \in Nat
  BY VisitFits
<1>1. visit[t].at = "agent" /\ recipes' = recipes /\ minted' = minted /\ proved' = proved
  BY DEF Extend, At
<1>2. ~Storer(visit[t]) /\ Numbering(visit[t])
  BY <1>1 DEF Storer, Numbering
<1>3. CASE e
  <2>1. Latest # NoRecipe /\ Go(t, Storing(t, Invalidated(Latest), "number"))
    BY <1>3 DEF Extend, MayExpire
  <2>2. Fit(Invalidated(Latest), High)
    BY <1>0, <2>1, LatestFits, CopiesFit
  <2> QED BY <1>1, <1>2, <2>1, <2>2, StoringFits
<1>4. CASE ~e /\ ~Extends(t, Got(e))
  <2> DEFINE new == Moved(t, "number")
  <2>1. /\ new.at = "number" /\ new.asked = visit[t].asked /\ new.held = visit[t].held
        /\ new.draft = visit[t].draft /\ new.pending = visit[t].pending /\ new.replayed = visit[t].replayed
    BY <1>0 DEF Moved, AnyVisits
  <2>2. Go(t, new)
    BY <1>4 DEF Extend
  <2> HIDE DEF new
  <2> QED BY <1>0, <1>1, <2>1, <2>2, MovesFit DEF FitVisit
<1>5. CASE ~e /\ Extends(t, Got(e)) /\ steps > MaxSteps
  <2>1. Go(t, NoCandidate(t))
    BY <1>5 DEF Extend
  <2> QED BY <1>1, <2>1, NoCandidateFits
<1>6. CASE ~e /\ Extends(t, Got(e)) /\ ~(steps > MaxSteps)
  <2>1. Got(e) = Latest /\ Latest # NoRecipe
    BY <1>6 DEF Extends, Got
  <2>2. Latest \in AnyRecipe /\ Fit(Latest, High)
    BY <2>1, LatestFits
  <2>3. drafted \in AnyRecipe /\ drafted # NoRecipe
    BY <1>0 DEF Extend, At, RecipesInv, FillsAreAllowed, Drafting, AnyVisits
  <2> DEFINE d == [drafted EXCEPT !.fills = @ \cup Got(e).fills, !.steps = steps]
             new == [Moved(t, "number") EXCEPT !.draft = d]
  <2>4. /\ d.version = drafted.version /\ d.steps = steps /\ d.failures = drafted.failures
        /\ d.status = drafted.status /\ d.id = drafted.id
    BY <2>3 DEF AnyRecipe
  <2>5. steps \in 1 .. MaxSteps
    BY <1>0, <1>6, <2>1, <2>2, <2>3, RecipeAssumption DEF Fit, FitVisit
  <2>6. Go(t, new)
    BY <1>6 DEF Extend
  <2> HIDE DEF d, steps
  <2>7. Fit(d, High + 1) /\ d.id <= minted
    BY <1>0, <2>3, <2>4, <2>5 DEF Fit, FitVisit
  <2>8. /\ new.at = "number" /\ new.asked = visit[t].asked /\ new.held = visit[t].held /\ new.draft = d
        /\ new.pending = visit[t].pending /\ new.replayed = visit[t].replayed
    BY <1>0 DEF Moved, AnyVisits
  <2> HIDE DEF new
  <2>9. ~Storer(new) /\ Numbering(new) /\ new.at # "over" /\ visit[t].at # "over"
    BY <1>1, <2>8 DEF Storer, Numbering
  <2>10. Above(visit[t], new) = High
    BY <2>9 DEF Above
  <2>11. Forward(visit[t], new)
    BY <1>0, <1>2, <2>8, <2>9 DEF Forward, Spent, FitVisit
  <2>12. FitVisit(new, High, minted)
    BY <1>0, <1>2, <2>7, <2>8, <2>9 DEF FitVisit
  <2> QED BY <1>0, <1>1, <2>6, <2>10, <2>11, <2>12, TaskFits
<1> QED BY <1>3, <1>4, <1>5, <1>6

LEMMA NumberCandidateFits ==
    ASSUME RecipesInv, RecipesInv', TypesFit, NEW t \in PageTask, NumberCandidate(t) PROVE TypesFit'
<1> DEFINE id == minted + 1
           version == IF StoredVersions = {} THEN 1 ELSE Newest + 1
           d == [visit[t].draft EXCEPT !.id = id, !.version = version]
           new == [Moved(t, "verify") EXCEPT !.draft = d]
<1>0. /\ visit[t] \in AnyVisits /\ FitVisit(visit[t], High, minted) /\ proved \subseteq 0 .. minted /\ High \in Nat
      /\ visit[t].asked \in 0 .. 2 /\ minted \in Nat
  BY VisitFits
<1>1. visit[t].at = "number" /\ recipes' = recipes /\ minted' = id /\ proved' = proved
  BY DEF NumberCandidate, At
<1>2. visit[t].draft # NoRecipe /\ visit[t].draft \in AnyRecipe
  BY <1>0, <1>1 DEF RecipesInv, FillsAreAllowed, Drafting, AnyVisits
<1>3. version \in 1 .. High + 1
  <2>1. High >= 1
    BY CountsAreNumbers
  <2>2. CASE StoredVersions = {}
    BY <1>0, <2>1, <2>2
  <2>3. CASE StoredVersions # {}
    <3>1. Newest \in Versions /\ recipes[Newest] # NoRecipe
      BY <2>3, NewestIsStored DEF StoredVersions
    <3>2. Newest <= High /\ Newest \in Nat /\ Newest >= 1
      BY <3>1 DEF TypesFit, Versions
    <3> QED BY <1>0, <2>3, <3>2
  <2> QED BY <2>2, <2>3
<1>4. Moved(t, "verify").draft = visit[t].draft
  BY <1>0 DEF Moved, AnyVisits
<1>5. Go(t, new)
  BY <1>1, <1>4 DEF NumberCandidate
<1> HIDE DEF version
<1>6. /\ d.version = version /\ d.id = id /\ d.steps = visit[t].draft.steps
      /\ d.failures = visit[t].draft.failures /\ d.status = visit[t].draft.status
  BY <1>2 DEF AnyRecipe
<1> HIDE DEF d
<1>7. /\ new.at = "verify" /\ new.asked = visit[t].asked /\ new.held = visit[t].held /\ new.draft = d
      /\ new.pending = visit[t].pending /\ new.replayed = visit[t].replayed
  BY <1>0 DEF Moved, AnyVisits
<1> HIDE DEF new
<1>8. Fit(d, High + 1)
  BY <1>0, <1>2, <1>3, <1>6 DEF Fit, FitVisit
<1>9. ~Storer(visit[t]) /\ ~Storer(new) /\ Numbering(visit[t]) /\ ~Numbering(new)
  BY <1>1, <1>7 DEF Storer, Numbering
<1>10. Above(visit[t], new) = High
  BY <1>9 DEF Above
<1>11. Forward(visit[t], new) /\ Spent(visit[t]) < Spent(new) /\ Spent(new) <= 2
  BY <1>0, <1>1, <1>7, <1>9 DEF Forward, Spent, FitVisit
<1>12. new.replayed <= id
  BY <1>0, <1>7 DEF FitVisit, AnyVisits, NoPage
<1>13. FitVisit(new, High, id)
  BY <1>0, <1>6, <1>7, <1>8, <1>9, <1>12 DEF FitVisit
<1>14. proved' \subseteq 0 .. id /\ new \in AnyVisits
  BY <1>0, <1>1, <1>5, NewIsVisit
<1> HIDE DEF id
<1>15. minted' = minted + 1
  BY <1>1 DEF id
<1> QED BY <1>1, <1>5, <1>10, <1>11, <1>13, <1>14, <1>15, TaskGoesOn

LEMMA SaveRecipeFits == ASSUME RecipesInv, RecipesInv', TypesFit, NEW t \in PageTask, SaveRecipe(t) PROVE TypesFit'
<1> DEFINE new == Moved(t, "prune")
<1>0. /\ visit[t] \in AnyVisits /\ FitVisit(visit[t], High, minted) /\ proved \subseteq 0 .. minted /\ High \in Nat
      /\ visit[t].asked \in 0 .. 2 /\ minted \in Nat
  BY VisitFits
<1>1. visit[t].at = "save" /\ Go(t, new) /\ minted' = minted /\ proved' = proved
  BY DEF SaveRecipe, At
<1>2. \A v \in Versions : \/ recipes'[v] \in {recipes[v], NoRecipe}
                          \/ recipes'[v] = visit[t].held /\ v = visit[t].held.version
  BY DEF SaveRecipe, RecipesInv, RecipeShapes
<1>3. new \in AnyVisits
  BY <1>1, NewIsVisit
<1>4. /\ new.at = "prune" /\ new.then = visit[t].then /\ new.asked = visit[t].asked /\ new.held = visit[t].held
      /\ new.draft = visit[t].draft /\ new.pending = visit[t].pending /\ new.replayed = visit[t].replayed
  BY <1>0 DEF Moved, AnyVisits
<1> HIDE DEF new
<1>5. (Storer(new) <=> Storer(visit[t])) /\ (Numbering(new) <=> Numbering(visit[t]))
  BY <1>1, <1>4 DEF Storer, Numbering
<1>6. Above(visit[t], new) = High
  BY <1>5 DEF Above
<1>7. Forward(visit[t], new)
  BY <1>0, <1>1, <1>4, <1>5 DEF Forward, Spent, FitVisit
<1>8. FitVisit(new, High, minted)
  BY <1>0, <1>4, <1>5 DEF FitVisit
<1> QED BY <1>0, <1>1, <1>2, <1>3, <1>6, <1>7, <1>8, TaskGoesOn

LEMMA PruneFits == ASSUME RecipesInv, RecipesInv', TypesFit, NEW t \in PageTask, Prune(t) PROVE TypesFit'
<1> DEFINE new == [Moved(t, visit[t].then) EXCEPT !.held = NoRecipe]
<1>0. /\ visit[t] \in AnyVisits /\ FitVisit(visit[t], High, minted) /\ proved \subseteq 0 .. minted /\ High \in Nat
      /\ visit[t].asked \in 0 .. 2 /\ minted \in Nat
  BY VisitFits
<1>1. visit[t].at = "prune" /\ Go(t, new) /\ minted' = minted /\ proved' = proved
  BY DEF Prune, At
<1>2. \A v \in Versions : \/ recipes'[v] \in {recipes[v], NoRecipe}
                          \/ recipes'[v] = visit[t].held /\ v = visit[t].held.version
  BY DEF Prune
<1>3. new \in AnyVisits
  BY <1>1, NewIsVisit
<1>4. Forward(visit[t], new) /\ FitVisit(new, Above(visit[t], new), minted)
  <2>1. CASE visit[t].then = "over"
    <3>1. new = [Visit("over") EXCEPT !.held = NoRecipe]
      BY <2>1 DEF Moved
    <3> HIDE DEF new
    <3> QED BY <1>3, <3>1, OverFits
  <2>2. CASE visit[t].then # "over"
    <3>1. /\ new.at = visit[t].then /\ new.asked = visit[t].asked /\ new.held = NoRecipe
          /\ new.draft = visit[t].draft /\ new.pending = visit[t].pending /\ new.replayed = visit[t].replayed
      BY <1>0, <2>2 DEF Moved, AnyVisits
    <3>2. visit[t].then \in Afters
      BY <1>0 DEF AnyVisits
    <3> HIDE DEF new
    <3>3. ~Storer(visit[t]) /\ ~Storer(new) /\ (Numbering(new) => Numbering(visit[t]))
      BY <1>1, <2>2, <3>1, <3>2 DEF Storer, Numbering, Afters
    <3>4. Fit(new.held, High) /\ new.replayed <= minted
      BY <1>0, <3>1 DEF Fit, FitVisit
    <3> QED BY <1>3, <3>1, <3>3, <3>4, QuietFits
  <2> QED BY <2>1, <2>2
<1> QED BY <1>0, <1>1, <1>2, <1>3, <1>4, TaskGoesOn

LEMMA TypesFitInit == RecipesInit => TypesFit
<1> SUFFICES ASSUME RecipesInit PROVE TypesFit
  OBVIOUS
<1>1. minted = 0 /\ proved = {0} /\ \A t \in PageTask : visit[t] = Visit("start")
  BY DEF RecipesInit
<1>2. High \in Nat /\ High >= 1 /\ Cardinality(OneId) \in Nat /\ Cardinality(TwoIds) \in Nat
  BY CountsAreNumbers
<1>3. minted <= Cardinality(OneId) + Cardinality(TwoIds) /\ proved \subseteq 0 .. minted
  BY <1>1, <1>2
<1>4. ASSUME NEW v \in Versions, recipes[v] # NoRecipe PROVE Fit(recipes[v], High) /\ v <= High
  <2>1. v = 1 /\ recipes[v] \in [id : {0}, version : {1}, fills : {{}} \cup {{f} : f \in FillValue}, steps : {1},
                                 failures : {0}, status : {"active"}]
    BY <1>4 DEF RecipesInit
  <2> QED BY <1>2, <2>1, RecipeAssumption DEF Fit
<1>5. ASSUME NEW t \in PageTask PROVE FitVisit(visit[t], High, minted)
  <2>1. /\ visit[t].at = "start" /\ visit[t].asked = 0 /\ visit[t].held = NoRecipe /\ visit[t].draft = NoRecipe
        /\ visit[t].pending = NoRecipe /\ visit[t].replayed = NoPage
    BY <1>1 DEF Visit
  <2> QED BY <1>1, <2>1, RecipeAssumption DEF FitVisit, Fit, Storer, Numbering, NoPage
<1> QED BY <1>3, <1>4, <1>5 DEF TypesFit

\* No step of a page task breaks TypesFit.
LEMMA TypesFitNext == ASSUME RecipesInv, RecipesInv', TypesFit, [RecipesNext]_recipeVars PROVE TypesFit'
<1>1. CASE \E t \in PageTask : SaveRecipe(t) \/ SaveFails(t) \/ Prune(t)
  BY <1>1, SaveRecipeFits, SaveFailsFits, PruneFits
<1>2. CASE \E t \in PageTask : \E e \in BOOLEAN : LookUp(t, e) \/ Extend(t, e) \/ JudgeActive(t, e)
  BY <1>2, LookUpFits, ExtendFits, JudgeActiveFits
<1>3. CASE \E t \in PageTask : \E b \in BOOLEAN : NoPath(t, b) \/ CandidateFails(t, b)
  BY <1>3, NoPathFits, CandidateFailsFits
<1>4. CASE \E t \in PageTask : \E b \in SUBSET Ids : Extracted(t, b)
  BY <1>4, ExtractedFits
<1>5. CASE \E t \in PageTask : ReplayWorks(t) \/ ReplayFails(t) \/ PlainPage(t) \/ PlainFails(t)
  BY <1>5, ReplayWorksFits, ReplayFailsFits, PlainPageFits, PlainFailsFits
<1>6. CASE \E t \in PageTask : NumberCandidate(t) \/ CandidateWorks(t) \/ JudgeDrafts(t) \/ ForgetCandidate(t)
  BY <1>6, NumberCandidateFits, CandidateWorksFits, JudgeDraftsFits, ForgetCandidateFits
<1>7. CASE \E t \in PageTask : \E f \in SUBSET FillValue : AskAgent(t, f)
  BY <1>7, AskAgentFits
<1>8. CASE UNCHANGED recipeVars
  <2>1. UNCHANGED <<recipes, minted, proved, visit>>
    BY <1>8 DEF recipeVars
  <2>2. High' = High /\ OneId' = OneId /\ TwoIds' = TwoIds
    BY <2>1 DEF High, Storers, OneId, TwoIds
  <2> QED BY <2>1, <2>2 DEF TypesFit
<1> QED BY <1>1, <1>2, <1>3, <1>4, <1>5, <1>6, <1>7, <1>8 DEF RecipesNext

\* What is counted bounds ids and versions.
LEMMA TypesFitBounds == RecipesInv /\ TypesFit => RecipesTypeOK
<1> SUFFICES ASSUME RecipesInv, TypesFit PROVE RecipesTypeOK
  OBVIOUS
<1> DEFINE N == Cardinality(PageTask)
<1>0. /\ N \in Nat /\ Cardinality(OneId) \in 0 .. N /\ Cardinality(TwoIds) \in 0 .. N /\ High \in 1 .. N + 1
      /\ \A t \in PageTask : ~Storer(visit[t]) => High <= N
  BY CountsAreNumbers
<1> HIDE DEF N
<1>1. minted \in 0 .. 2 * N /\ minted \in Nat
  BY <1>0 DEF RecipesInv, RecipeShapes, TypesFit
<1>2. Ids = 0 .. 2 * N /\ Versions = 1 .. N + 1
  BY DEF Ids, Versions, N
<1>3. ASSUME NEW i \in 0 .. minted PROVE i \in Ids
  BY <1>0, <1>1, <1>2
<1>4. ASSUME NEW r \in AnyRecipe, NEW high \in 1 .. N + 1, Fit(r, high), r.id <= minted PROVE r \in Recipes
  <2>1. r # NoRecipe /\ r.id \in Nat
    BY RecipeAssumption DEF AnyRecipe
  <2>2. r.id \in Ids
    BY <1>1, <1>3, <1>4, <2>1
  <2>3. r.version \in Versions
    BY <1>0, <1>2, <1>4, <2>1 DEF Fit
  <2> QED BY <1>4, <2>1, <2>2, <2>3 DEF Fit, Recipes
<1>5. recipes \in [Versions -> Recipes \cup {NoRecipe}]
  <2>1. ASSUME NEW v \in Versions, recipes[v] # NoRecipe PROVE recipes[v] \in Recipes
    <3>1. recipes[v] \in AnyRecipe /\ Fit(recipes[v], High)
      BY <2>1 DEF RecipesInv, RecipeShapes, TypesFit
    <3>2. recipes[v].id <= minted
      BY <2>1, RowsAreCopies DEF RecipesInv, IdsTellFills
    <3> QED BY <1>0, <1>4, <3>1, <3>2
  <2> QED BY <2>1 DEF RecipesInv, RecipeShapes
<1>6. ASSUME NEW t \in PageTask PROVE visit[t] \in Visits
  <2>0. visit[t] \in AnyVisits /\ FitVisit(visit[t], High, minted)
    BY VisitFits
  <2>1. visit[t].asked \in 0 .. MaxRounds /\ visit[t].then \in Phases
    BY <2>0 DEF FitVisit, AnyVisits, Afters, Phases
  <2>2. visit[t].page \in Ids \cup {NoPage, Plain}
    <3>1. visit[t].page <= minted
      BY DEF RecipesInv, IdsTellFills
    <3> QED BY <1>1, <1>3, <2>0, <3>1 DEF AnyVisits
  <2>3. visit[t].replayed \in Ids \cup {NoPage}
    BY <1>1, <1>3, <2>0 DEF AnyVisits, FitVisit
  <2>4. visit[t].backed \in SUBSET Ids
    BY <1>3 DEF RecipesInv, HeldAreProved, TypesFit
  <2>5. visit[t].held \in Recipes \cup {NoRecipe}
    <3>1. CASE visit[t].held # NoRecipe
      <4>1. visit[t].held.id <= minted
        BY <3>1, UsedAreCopies DEF RecipesInv, IdsTellFills
      <4> QED BY <1>0, <1>4, <2>0, <3>1, <4>1 DEF AnyVisits, FitVisit
    <3> QED BY <3>1
  <2>6. visit[t].pending \in Recipes \cup {NoRecipe} /\ visit[t].draft \in Recipes \cup {NoRecipe}
    <3>1. PICK high \in 1 .. N + 1 : Fit(visit[t].pending, high) /\ Fit(visit[t].draft, high)
      <4>1. CASE Storer(visit[t])
        BY <1>0, <2>0, <4>1 DEF FitVisit
      <4>2. CASE ~Storer(visit[t])
        <5>1. High + 1 \in 1 .. N + 1
          BY <1>0, <4>2
        <5> QED BY <2>0, <5>1 DEF FitVisit
      <4> QED BY <4>1, <4>2
    <3>2. visit[t].pending = NoRecipe \/ visit[t].pending \in Recipes
      BY <1>4, <2>0, <3>1, UsedAreCopies DEF RecipesInv, IdsTellFills, AnyVisits
    <3>3. visit[t].draft = NoRecipe \/ visit[t].draft \in Recipes
      BY <1>4, <2>0, <3>1 DEF FitVisit, AnyVisits
    <3> QED BY <3>2, <3>3
  <2> QED BY <2>0, <2>1, <2>2, <2>3, <2>4, <2>5, <2>6 DEF AnyVisits, Visits
<1>7. visit \in [PageTask -> Visits]
  BY <1>6 DEF RecipesInv, RecipeShapes
<1>8. minted \in Ids /\ proved \subseteq Ids
  BY <1>1, <1>2, <1>3 DEF TypesFit
<1> QED BY <1>5, <1>7, <1>8 DEF RecipesTypeOK

(***************************************************************************)
(* There are two ids a task and one version more than tasks: a page task   *)
(* mints at most one id for each round of its agent, and stores at most    *)
(* one candidate (sources/recipe_web.py), so that numbers do not run away  *)
(* however the tasks of several collections interleave.                    *)
(***************************************************************************)
THEOREM RecipesAreTyped == RecipesSpec => []RecipesTypeOK
<1>1. RecipesInv /\ TypesFit /\ [RecipesNext]_recipeVars => RecipesInv' /\ TypesFit'
  BY RecipesNextInv, TypesFitNext
<1> QED BY <1>1, RecipesInitInv, TypesFitInit, TypesFitBounds, PTL DEF RecipesSpec

(***************************************************************************)
(* Queries of discovery (Discovery).                                       *)
(***************************************************************************)
DiscoverySpec == DiscoveryInit /\ [][DiscoveryNext]_discoveryVars

OpenIntents(p) == Cardinality(Intent \ p.done)
AskedIntent    == at.step \in {"discover", "merge"} /\ at.intent # 0

\* Between checkpoints the copy of the attempt differs from the stored plan in what is blocked only.
CopyIsStored == draft.queries = plan.queries /\ draft.done = plan.done /\ draft.exhausted = plan.exhausted

StepsInOrder ==
    /\ at.step \in {"idle", "intents", "close"} => ask = NoAsk
    /\ at.step \in {"idle", "ended"} => at.intent = 0
    /\ at.step = "merge" => at.intent # 0 /\ ask.left = 0
    /\ AskedIntent => at.intent \in Intent \ plan.done

\* What is left of the budget is what neither the plan nor the call under way has used.
BudgetAddsUp ==
    /\ plan.queries <= maxQueries
    /\ at.step = "intents" => plan.queries + budget = maxQueries
    /\ AskedIntent => plan.queries + ask.asked + budget = maxQueries

\* With a query for every intent there is always one for every intent that is left.
IntentsAreFunded ==
    maxQueries >= Intents =>
      /\ plan.queries + OpenIntents(plan) <= maxQueries
      /\ AskedIntent => plan.queries + ask.asked + OpenIntents(plan) - 1 <= maxQueries
      /\ ~plan.exhausted

\* What an attempt loses is at most the whole budget.
SpentIsCounted ==
    spent <= plan.queries + (IF at.intent # 0 THEN ask.asked - ask.left ELSE 0) + maxQueries * losses

DiscoveryInv ==
    DiscoveryTypeOK /\ CopyIsStored /\ StepsInOrder /\ BudgetAddsUp /\ IntentsAreFunded /\ SpentIsCounted

\* The next intent is one that is left.
LEMMA CurrentRemains == Remaining # {} => Current \in Remaining
<1> SUFFICES ASSUME Remaining # {} PROVE Current \in Remaining
  OBVIOUS
<1>1. Remaining \subseteq Nat
  BY DEF Remaining, Intent
<1>2. \E i \in Remaining : \A j \in Remaining : i <= j
  BY <1>1, NatMin
<1> QED BY <1>2 DEF Current

\* The intents that are left are counted, and one less is left after each.
LEMMA IntentsAreFinite ==
    ASSUME NEW p \in Plans
    PROVE  /\ OpenIntents(p) \in Nat
           /\ Intent \ p.done # {} => OpenIntents(p) >= 1
           /\ \A i \in Intent \ p.done : OpenIntents([p EXCEPT !.done = @ \cup {i}]) = OpenIntents(p) - 1
           /\ p.done = {} => OpenIntents(p) = Intents
<1>1. IsFiniteSet(Intent) /\ Cardinality(Intent) = Intents
  BY DiscoveryAssumption, FS_Interval DEF Intent
<1>2. IsFiniteSet(Intent \ p.done)
  BY <1>1, FS_Subset
<1>3. OpenIntents(p) \in Nat
  BY <1>2, FS_CardinalityType DEF OpenIntents
<1>4. ASSUME Intent \ p.done # {} PROVE OpenIntents(p) # 0
  BY <1>2, <1>4, FS_EmptySet DEF OpenIntents
<1>5. ASSUME NEW i \in Intent \ p.done
      PROVE  OpenIntents([p EXCEPT !.done = @ \cup {i}]) = OpenIntents(p) - 1
  <2>1. [p EXCEPT !.done = @ \cup {i}].done = p.done \cup {i}
    BY DEF Plans
  <2>2. Intent \ (p.done \cup {i}) = (Intent \ p.done) \ {i}
    OBVIOUS
  <2>3. Cardinality((Intent \ p.done) \ {i}) = Cardinality(Intent \ p.done) - 1
    BY <1>2, FS_RemoveElement
  <2> QED BY <2>1, <2>2, <2>3 DEF OpenIntents
<1>6. ASSUME p.done = {} PROVE OpenIntents(p) = Intents
  BY <1>1, <1>6 DEF OpenIntents
<1> QED BY <1>3, <1>4, <1>5, <1>6

\* A share of the budget leaves a query for each of the others.
LEMMA SharesLeaveRest ==
    ASSUME NEW b \in Nat, NEW n \in Nat, b > 0, n > 0
    PROVE  LET q == Larger(1, b \div n)
           IN q \in 1 .. b /\ (b >= n => b - q >= n - 1)
<1> DEFINE d == b \div n
<1>1. d \in Nat /\ d * n <= b
  OBVIOUS
<1>2. d <= b
  BY <1>1
<1>3. b >= n => d >= 1
  OBVIOUS
<1>4. b >= n => b - d >= n - 1
  <2> SUFFICES ASSUME b >= n PROVE b - d >= n - 1
    OBVIOUS
  <2> HIDE DEF d
  <2>1. (d - 1) * (n - 1) >= 0
    BY <1>1, <1>3
  <2>2. (d - 1) * (n - 1) = d * n - d - n + 1
    BY <1>1
  <2> QED BY <1>1, <2>1, <2>2
<1> HIDE DEF d
<1>5. Larger(1, d) \in 1 .. b /\ (b >= n => b - Larger(1, d) >= n - 1)
  BY <1>1, <1>2, <1>3, <1>4 DEF Larger
<1> QED BY <1>5 DEF d

\* One lemma for each action: it keeps DiscoveryInv.
LEMMA BeginDiscoveryKeeps ==
    ASSUME DiscoveryInv, maxQueries' = maxQueries, BeginDiscovery
    PROVE  DiscoveryInv'
<1>0. budget' = maxQueries - plan.queries /\ budget' \in 0 .. maxQueries
  BY DEF BeginDiscovery, Larger, DiscoveryInv, BudgetAddsUp, DiscoveryTypeOK, Plans
<1>1. DiscoveryTypeOK'
  BY <1>0 DEF BeginDiscovery, Step, DiscoveryInv, DiscoveryTypeOK, Asks
<1>2. CopyIsStored'
  BY DiscoveryAssumption DEF BeginDiscovery, Step, Larger, DiscoveryInv, Asks, DiscoveryTypeOK,
     CopyIsStored, StepsInOrder, BudgetAddsUp, IntentsAreFunded, SpentIsCounted, AskedIntent
<1>3. StepsInOrder'
  BY DiscoveryAssumption DEF BeginDiscovery, Step, Larger, DiscoveryInv, Asks, DiscoveryTypeOK,
     CopyIsStored, StepsInOrder, BudgetAddsUp, IntentsAreFunded, SpentIsCounted, AskedIntent
<1>4. BudgetAddsUp'
  <2>1. plan.queries \in Nat /\ maxQueries \in Nat /\ plan.queries <= maxQueries
    BY DEF DiscoveryInv, DiscoveryTypeOK, BudgetAddsUp, Plans
  <2>2. plan' = plan /\ at'.step = "intents"
    BY DEF BeginDiscovery, Step, DiscoveryInv, DiscoveryTypeOK
  <2> QED BY <1>0, <2>1, <2>2 DEF BudgetAddsUp, AskedIntent
<1>5. IntentsAreFunded'
  BY DiscoveryAssumption DEF BeginDiscovery, Step, Larger, DiscoveryInv, Asks, DiscoveryTypeOK,
     CopyIsStored, StepsInOrder, BudgetAddsUp, IntentsAreFunded, SpentIsCounted, AskedIntent,
     OpenIntents
<1>6. SpentIsCounted'
  BY DiscoveryAssumption DEF BeginDiscovery, Step, Larger, DiscoveryInv, Asks, DiscoveryTypeOK,
     CopyIsStored, StepsInOrder, BudgetAddsUp, IntentsAreFunded, SpentIsCounted, AskedIntent
<1> QED BY <1>1, <1>2, <1>3, <1>4, <1>5, <1>6 DEF DiscoveryInv

LEMMA BudgetExhaustedKeeps ==
    ASSUME DiscoveryInv, maxQueries' = maxQueries, BudgetExhausted
    PROVE  DiscoveryInv'
<1>0. OpenIntents(plan) >= 1
  BY IntentsAreFinite
     DEF BudgetExhausted, Remaining, DiscoveryInv, DiscoveryTypeOK, CopyIsStored
<1>1. DiscoveryTypeOK'
  BY DiscoveryAssumption DEF BudgetExhausted, Step, StoreProgress, Plans, DiscoveryInv, Asks,
     DiscoveryTypeOK, CopyIsStored, StepsInOrder, BudgetAddsUp, IntentsAreFunded,
     SpentIsCounted, AskedIntent
<1>2. CopyIsStored'
  BY DiscoveryAssumption DEF BudgetExhausted, Step, StoreProgress, Plans, DiscoveryInv, Asks,
     DiscoveryTypeOK, CopyIsStored, StepsInOrder, BudgetAddsUp, IntentsAreFunded,
     SpentIsCounted, AskedIntent
<1>3. StepsInOrder'
  BY DiscoveryAssumption DEF BudgetExhausted, Step, StoreProgress, Plans, DiscoveryInv, Asks,
     DiscoveryTypeOK, CopyIsStored, StepsInOrder, BudgetAddsUp, IntentsAreFunded,
     SpentIsCounted, AskedIntent
<1>4. BudgetAddsUp'
  BY DiscoveryAssumption DEF BudgetExhausted, Step, StoreProgress, Plans, DiscoveryInv, Asks,
     DiscoveryTypeOK, CopyIsStored, StepsInOrder, BudgetAddsUp, IntentsAreFunded,
     SpentIsCounted, AskedIntent
<1>5. IntentsAreFunded'
  <2>1. ~ (maxQueries >= Intents)
    BY <1>0, IntentsAreFinite DEF BudgetExhausted, DiscoveryInv, DiscoveryTypeOK, BudgetAddsUp,
       IntentsAreFunded, Plans
  <2> QED BY <2>1 DEF IntentsAreFunded
<1>6. SpentIsCounted'
  BY DiscoveryAssumption DEF BudgetExhausted, Step, StoreProgress, Plans, DiscoveryInv, Asks,
     DiscoveryTypeOK, CopyIsStored, StepsInOrder, BudgetAddsUp, IntentsAreFunded,
     SpentIsCounted, AskedIntent
<1> QED BY <1>1, <1>2, <1>3, <1>4, <1>5, <1>6 DEF DiscoveryInv

LEMMA NothingToAskKeeps ==
    ASSUME DiscoveryInv, maxQueries' = maxQueries, NothingToAsk
    PROVE  DiscoveryInv'
<1>0. Current \in Intent \ draft.done
  BY CurrentRemains DEF NothingToAsk, Remaining
<1> DEFINE p == [draft EXCEPT !.done = @ \cup {Current}, !.tasks = IF Current \in Direct THEN @ + 1 ELSE @]
<1>p. p \in Plans /\ p.queries = draft.queries /\ p.done = draft.done \cup {Current}
         /\ p.exhausted = draft.exhausted
  <2>1. draft \in Plans
    BY DEF DiscoveryInv, DiscoveryTypeOK
  <2>2. draft.done \cup {Current} \in SUBSET Intent
    BY <1>0, <2>1 DEF Plans
  <2> DEFINE tasks == IF Current \in Direct THEN draft.tasks + 1 ELSE draft.tasks
  <2>3. tasks \in Nat
    BY <2>1 DEF Plans
  <2>4. p = [draft EXCEPT !.done = draft.done \cup {Current}, !.tasks = tasks]
    BY <2>1
  <2> HIDE DEF tasks, p
  <2>5. p \in Plans
    BY <2>1, <2>2, <2>3, <2>4 DEF Plans
  <2>6. p.queries = draft.queries /\ p.done = draft.done \cup {Current} /\ p.exhausted = draft.exhausted
    BY <2>1, <2>4 DEF Plans
  <2> QED BY <2>5, <2>6
<1>q. plan' = p /\ draft' = p /\ UNCHANGED <<at, budget, ask, spent, losses>> /\ at.step = "intents"
  BY DEF NothingToAsk, StoreProgress
<1>r. OpenIntents(p) = OpenIntents(plan) - 1 /\ OpenIntents(plan) \in Nat
  <2>1. OpenIntents([plan EXCEPT !.done = @ \cup {Current}]) = OpenIntents(plan) - 1
           /\ OpenIntents(plan) \in Nat
    BY <1>0, IntentsAreFinite DEF DiscoveryInv, DiscoveryTypeOK, CopyIsStored
  <2>2. [plan EXCEPT !.done = @ \cup {Current}].done = p.done
    BY <1>p DEF DiscoveryInv, DiscoveryTypeOK, CopyIsStored, Plans
  <2> QED BY <2>1, <2>2 DEF OpenIntents
<1> HIDE DEF p
<1>1. DiscoveryTypeOK'
  BY <1>p, <1>q DEF DiscoveryInv, DiscoveryTypeOK, Asks
<1>2. CopyIsStored'
  BY DiscoveryAssumption DEF NothingToAsk, StoreProgress, Plans, DiscoveryInv, Asks,
     DiscoveryTypeOK, CopyIsStored, StepsInOrder, BudgetAddsUp, IntentsAreFunded,
     SpentIsCounted, AskedIntent
<1>3. StepsInOrder'
  BY DiscoveryAssumption DEF NothingToAsk, StoreProgress, Plans, DiscoveryInv, Asks,
     DiscoveryTypeOK, CopyIsStored, StepsInOrder, BudgetAddsUp, IntentsAreFunded,
     SpentIsCounted, AskedIntent
<1>4. BudgetAddsUp'
  BY DiscoveryAssumption DEF NothingToAsk, StoreProgress, Plans, DiscoveryInv, Asks,
     DiscoveryTypeOK, CopyIsStored, StepsInOrder, BudgetAddsUp, IntentsAreFunded,
     SpentIsCounted, AskedIntent
<1>5. IntentsAreFunded'
  <2>1. OpenIntents(plan') = OpenIntents(plan) - 1
    BY <1>q, <1>r
  <2>2. plan'.queries = plan.queries /\ plan'.exhausted = plan.exhausted /\ ~AskedIntent'
    BY <1>p, <1>q DEF DiscoveryInv, CopyIsStored, AskedIntent
  <2>3. OpenIntents(plan)' = OpenIntents(plan')
    BY DEF OpenIntents
  <2> QED BY <1>r, <2>1, <2>2, <2>3 DEF DiscoveryInv, DiscoveryTypeOK, IntentsAreFunded, Plans
<1>6. SpentIsCounted'
  BY DiscoveryAssumption DEF NothingToAsk, StoreProgress, Plans, DiscoveryInv, Asks,
     DiscoveryTypeOK, CopyIsStored, StepsInOrder, BudgetAddsUp, IntentsAreFunded,
     SpentIsCounted, AskedIntent
<1> QED BY <1>1, <1>2, <1>3, <1>4, <1>5, <1>6 DEF DiscoveryInv

LEMMA AskIntentKeeps ==
    ASSUME DiscoveryInv, maxQueries' = maxQueries, AskIntent
    PROVE  DiscoveryInv'
<1>0. Current \in Intent \ draft.done /\ OpenIntents(plan) \in Nat /\ OpenIntents(plan) >= 1
  BY CurrentRemains, IntentsAreFinite
     DEF AskIntent, Remaining, DiscoveryInv, DiscoveryTypeOK, CopyIsStored
<1> DEFINE n == Smaller(Planned[Current], Allocation)
<1>n. n \in 1 .. budget /\ (budget >= OpenIntents(plan) => budget - n >= OpenIntents(plan) - 1)
  <2>1. Cardinality(Remaining) = OpenIntents(plan)
    BY DEF Remaining, OpenIntents, DiscoveryInv, CopyIsStored
  <2>2. Allocation \in 1 .. budget
           /\ (budget >= OpenIntents(plan) => budget - Allocation >= OpenIntents(plan) - 1)
    BY <1>0, <2>1, SharesLeaveRest DEF Allocation, AskIntent, DiscoveryInv, DiscoveryTypeOK
  <2>3. Planned[Current] \in Nat /\ Planned[Current] > 0
    BY <1>0, DiscoveryAssumption DEF AskIntent
  <2> QED BY <1>0, <2>2, <2>3 DEF Smaller, DiscoveryInv, DiscoveryTypeOK
<1>q. /\ budget' = budget - n /\ at' = [step |-> "discover", intent |-> Current]
         /\ UNCHANGED <<plan, draft, spent, losses>>
      /\ ask' = [NoAsk EXCEPT !.asked = n, !.left = n, !.several = n > maxQueries]
      /\ at.step = "intents" /\ ask = NoAsk
  BY DEF AskIntent, DiscoveryInv, StepsInOrder
<1> HIDE DEF n
<1>b. budget \in 0 .. maxQueries /\ maxQueries \in Nat /\ plan.queries \in Nat
  BY DEF DiscoveryInv, DiscoveryTypeOK, Plans
<1>a. ask' \in Asks' /\ ask'.left = n /\ ask'.asked = n
  <2>1. Asks' = Asks /\ NoAsk \in Asks /\ n \in Nat
    BY <1>n, <1>b, DiscoveryAssumption DEF Asks, NoAsk
  <2> DEFINE several == n > maxQueries
  <2>0. several \in BOOLEAN
    OBVIOUS
  <2> HIDE DEF several
  <2>2. [NoAsk EXCEPT !.asked = n, !.left = n, !.several = several] \in Asks
    BY <2>0, <2>1 DEF Asks
  <2>3. ask'.left = n /\ ask'.asked = n
    BY <1>q DEF NoAsk
  <2> QED BY <1>q, <2>1, <2>2, <2>3 DEF several
<1>1. DiscoveryTypeOK'
  BY <1>0, <1>n, <1>q, <1>a, <1>b DEF DiscoveryInv, DiscoveryTypeOK, Asks
<1>2. CopyIsStored'
  BY DiscoveryAssumption DEF AskIntent, NoAsk, Smaller, DiscoveryInv, Asks, DiscoveryTypeOK,
     CopyIsStored, StepsInOrder, BudgetAddsUp, IntentsAreFunded, SpentIsCounted, AskedIntent
<1>3. StepsInOrder'
  BY <1>0, <1>q DEF DiscoveryInv, StepsInOrder, AskedIntent, CopyIsStored
<1>4. BudgetAddsUp'
  BY <1>n, <1>q, <1>a, <1>b DEF DiscoveryInv, BudgetAddsUp, AskedIntent
<1>5. IntentsAreFunded'
  <2>1. OpenIntents(plan)' = OpenIntents(plan) /\ plan' = plan
    BY <1>q DEF OpenIntents
  <2>2. plan.queries + budget = maxQueries
    BY <1>q DEF DiscoveryInv, BudgetAddsUp
  <2> QED BY <1>0, <1>n, <1>q, <1>a, <1>b, <2>1, <2>2 DEF DiscoveryInv, IntentsAreFunded
<1>6. SpentIsCounted'
  <2>1. ask.asked = 0 /\ ask.left = 0
    BY <1>q DEF NoAsk
  <2> HIDE DEF n
  <2>2. maxQueries' * losses' = maxQueries * losses
    BY <1>q
  <2>3. spent' <= plan'.queries + 0 + maxQueries * losses
    BY <1>q, <2>1 DEF DiscoveryInv, SpentIsCounted
  <2>4. (IF at'.intent # 0 THEN ask'.asked - ask'.left ELSE 0) = 0
    BY <1>a, <1>n
  <2> QED BY <2>2, <2>3, <2>4 DEF SpentIsCounted
<1> QED BY <1>1, <1>2, <1>3, <1>4, <1>5, <1>6 DEF DiscoveryInv

LEMMA AllAskedKeeps ==
    ASSUME DiscoveryInv, maxQueries' = maxQueries, AllAsked
    PROVE  DiscoveryInv'
<1>1. DiscoveryTypeOK'
  BY DiscoveryAssumption DEF AllAsked, Step, DiscoveryInv, Asks, DiscoveryTypeOK, CopyIsStored,
     StepsInOrder, BudgetAddsUp, IntentsAreFunded, SpentIsCounted, AskedIntent
<1>2. CopyIsStored'
  BY DiscoveryAssumption DEF AllAsked, Step, DiscoveryInv, Asks, DiscoveryTypeOK, CopyIsStored,
     StepsInOrder, BudgetAddsUp, IntentsAreFunded, SpentIsCounted, AskedIntent
<1>3. StepsInOrder'
  BY DiscoveryAssumption DEF AllAsked, Step, DiscoveryInv, Asks, DiscoveryTypeOK, CopyIsStored,
     StepsInOrder, BudgetAddsUp, IntentsAreFunded, SpentIsCounted, AskedIntent
<1>4. BudgetAddsUp'
  BY DiscoveryAssumption DEF AllAsked, Step, DiscoveryInv, Asks, DiscoveryTypeOK, CopyIsStored,
     StepsInOrder, BudgetAddsUp, IntentsAreFunded, SpentIsCounted, AskedIntent
<1>5. IntentsAreFunded'
  BY DiscoveryAssumption DEF AllAsked, Step, DiscoveryInv, Asks, DiscoveryTypeOK, CopyIsStored,
     StepsInOrder, BudgetAddsUp, IntentsAreFunded, SpentIsCounted, AskedIntent, OpenIntents
<1>6. SpentIsCounted'
  BY DiscoveryAssumption DEF AllAsked, Step, DiscoveryInv, Asks, DiscoveryTypeOK, CopyIsStored,
     StepsInOrder, BudgetAddsUp, IntentsAreFunded, SpentIsCounted, AskedIntent
<1> QED BY <1>1, <1>2, <1>3, <1>4, <1>5, <1>6 DEF DiscoveryInv

LEMMA NextBatchKeeps ==
    ASSUME DiscoveryInv, maxQueries' = maxQueries, NextBatch
    PROVE  DiscoveryInv'
<1> DEFINE n == Smaller(ask.left, maxQueries)
<1>n. n \in 1 .. ask.left /\ n <= maxQueries /\ ask.left \in Nat /\ maxQueries \in Nat
         /\ ask \in Asks /\ spent \in Nat
  BY DEF NextBatch, Smaller, DiscoveryInv, DiscoveryTypeOK, Asks
<1>q. /\ ask' = [ask EXCEPT !.batch = n, !.provider = 1, !.left = @ - n]
      /\ UNCHANGED <<plan, draft, at, budget, losses>>
  BY DEF NextBatch
<1>s. spent' = IF at.intent # 0 THEN spent + n ELSE spent
  <2>1. ask'.batch = n
    BY <1>n, <1>q DEF Asks
  <2> QED BY <2>1 DEF NextBatch
<1> HIDE DEF n
<1>a. ask' \in Asks' /\ ask'.left = ask.left - n /\ ask'.asked = ask.asked
  <2>1. Asks' = Asks
    BY DEF Asks
  <2>2. 1 \in 1 .. Providers + 1 /\ n \in 0 .. maxQueries /\ ask.left - n \in Nat
    BY <1>n, DiscoveryAssumption
  <2>3. [ask EXCEPT !.batch = n, !.provider = 1, !.left = ask.left - n] \in Asks
    BY <1>n, <2>2 DEF Asks
  <2>4. ask'.left = ask.left - n /\ ask'.asked = ask.asked
    BY <1>n, <1>q DEF Asks
  <2> QED BY <1>q, <2>1, <2>3, <2>4
<1>1. DiscoveryTypeOK'
  BY <1>n, <1>q, <1>s, <1>a DEF DiscoveryInv, DiscoveryTypeOK, Asks
<1>2. CopyIsStored'
  BY DiscoveryAssumption DEF NextBatch, Smaller, DiscoveryInv, Asks, DiscoveryTypeOK,
     CopyIsStored, StepsInOrder, BudgetAddsUp, IntentsAreFunded, SpentIsCounted, AskedIntent
<1>3. StepsInOrder'
  BY DiscoveryAssumption DEF NextBatch, Smaller, DiscoveryInv, Asks, DiscoveryTypeOK,
     CopyIsStored, StepsInOrder, BudgetAddsUp, IntentsAreFunded, SpentIsCounted, AskedIntent
<1>4. BudgetAddsUp'
  BY DiscoveryAssumption DEF NextBatch, Smaller, DiscoveryInv, Asks, DiscoveryTypeOK,
     CopyIsStored, StepsInOrder, BudgetAddsUp, IntentsAreFunded, SpentIsCounted, AskedIntent
<1>5. IntentsAreFunded'
  BY DiscoveryAssumption DEF NextBatch, Smaller, DiscoveryInv, Asks, DiscoveryTypeOK,
     CopyIsStored, StepsInOrder, BudgetAddsUp, IntentsAreFunded, SpentIsCounted, AskedIntent,
     OpenIntents
<1>6. SpentIsCounted'
  <2>1. maxQueries' * losses' = maxQueries * losses /\ maxQueries * losses \in Nat
           /\ plan.queries \in Nat /\ ask.asked \in Nat
    BY <1>q DEF DiscoveryInv, DiscoveryTypeOK, Plans, Asks
  <2> DEFINE m == maxQueries * losses
  <2> HIDE DEF m
  <2>2. m \in Nat /\ spent <= plan.queries + (IF at.intent # 0 THEN ask.asked - ask.left ELSE 0) + m
    BY <2>1 DEF DiscoveryInv, SpentIsCounted, m
  <2>3. spent' <= plan'.queries + (IF at'.intent # 0 THEN ask'.asked - ask'.left ELSE 0) + m
    BY <1>n, <1>q, <1>s, <1>a, <2>1, <2>2
  <2> QED BY <2>1, <2>3 DEF SpentIsCounted, m
<1> QED BY <1>1, <1>2, <1>3, <1>4, <1>5, <1>6 DEF DiscoveryInv

LEMMA PassProviderKeeps ==
    ASSUME DiscoveryInv, maxQueries' = maxQueries, PassProvider
    PROVE  DiscoveryInv'
<1>1. DiscoveryTypeOK'
  <2>1. ask' \in Asks' /\ ask'.left <= ask'.asked
    BY DiscoveryAssumption DEF PassProvider, Asks, Provider, DiscoveryInv, DiscoveryTypeOK
  <2> QED BY <2>1 DEF PassProvider, DiscoveryInv, DiscoveryTypeOK
<1>2. CopyIsStored'
  BY DiscoveryAssumption DEF PassProvider, DiscoveryInv, Asks, DiscoveryTypeOK, CopyIsStored,
     StepsInOrder, BudgetAddsUp, IntentsAreFunded, SpentIsCounted, AskedIntent
<1>3. StepsInOrder'
  BY DiscoveryAssumption DEF PassProvider, DiscoveryInv, Asks, DiscoveryTypeOK, CopyIsStored,
     StepsInOrder, BudgetAddsUp, IntentsAreFunded, SpentIsCounted, AskedIntent
<1>4. BudgetAddsUp'
  BY DiscoveryAssumption DEF PassProvider, DiscoveryInv, Asks, DiscoveryTypeOK, CopyIsStored,
     StepsInOrder, BudgetAddsUp, IntentsAreFunded, SpentIsCounted, AskedIntent
<1>5. IntentsAreFunded'
  BY DiscoveryAssumption DEF PassProvider, DiscoveryInv, Asks, DiscoveryTypeOK, CopyIsStored,
     StepsInOrder, BudgetAddsUp, IntentsAreFunded, SpentIsCounted, AskedIntent, OpenIntents
<1>6. SpentIsCounted'
  BY DiscoveryAssumption DEF PassProvider, DiscoveryInv, Asks, DiscoveryTypeOK, CopyIsStored,
     StepsInOrder, BudgetAddsUp, IntentsAreFunded, SpentIsCounted, AskedIntent
<1> QED BY <1>1, <1>2, <1>3, <1>4, <1>5, <1>6 DEF DiscoveryInv

LEMMA ProviderBlockedKeeps ==
    ASSUME DiscoveryInv, maxQueries' = maxQueries, ProviderBlocked
    PROVE  DiscoveryInv'
<1>1. DiscoveryTypeOK'
  <2>1. Asks' = Asks /\ ask \in Asks /\ draft \in Plans
    BY DEF Asks, DiscoveryInv, DiscoveryTypeOK
  <2>2. ask.refused \cup {ask.provider} \in SUBSET Provider /\ ask.provider + 1 \in 1 .. Providers + 1
    BY <2>1, DiscoveryAssumption DEF ProviderBlocked, Asking, Provider, Asks
  <2>3. [ask EXCEPT !.refused = ask.refused \cup {ask.provider}, !.provider = ask.provider + 1] \in Asks
    BY <2>1, <2>2 DEF Asks
  <2>4. ask'.left = ask.left /\ ask'.asked = ask.asked
    BY <2>1 DEF ProviderBlocked, Asks
  <2>5. [draft EXCEPT !.blocked = TRUE] \in Plans
    BY <2>1 DEF Plans
  <2> QED BY <2>1, <2>3, <2>4, <2>5 DEF ProviderBlocked, DiscoveryInv, DiscoveryTypeOK
<1>2. CopyIsStored'
  BY DiscoveryAssumption DEF ProviderBlocked, Asking, Plans, DiscoveryInv, Asks,
     DiscoveryTypeOK, CopyIsStored, StepsInOrder, BudgetAddsUp, IntentsAreFunded,
     SpentIsCounted, AskedIntent
<1>3. StepsInOrder'
  BY DiscoveryAssumption DEF ProviderBlocked, Asking, Plans, DiscoveryInv, Asks,
     DiscoveryTypeOK, CopyIsStored, StepsInOrder, BudgetAddsUp, IntentsAreFunded,
     SpentIsCounted, AskedIntent
<1>4. BudgetAddsUp'
  BY DiscoveryAssumption DEF ProviderBlocked, Asking, Plans, DiscoveryInv, Asks,
     DiscoveryTypeOK, CopyIsStored, StepsInOrder, BudgetAddsUp, IntentsAreFunded,
     SpentIsCounted, AskedIntent
<1>5. IntentsAreFunded'
  BY DiscoveryAssumption DEF ProviderBlocked, Asking, Plans, DiscoveryInv, Asks,
     DiscoveryTypeOK, CopyIsStored, StepsInOrder, BudgetAddsUp, IntentsAreFunded,
     SpentIsCounted, AskedIntent, OpenIntents
<1>6. SpentIsCounted'
  BY DiscoveryAssumption DEF ProviderBlocked, Asking, Plans, DiscoveryInv, Asks,
     DiscoveryTypeOK, CopyIsStored, StepsInOrder, BudgetAddsUp, IntentsAreFunded,
     SpentIsCounted, AskedIntent
<1> QED BY <1>1, <1>2, <1>3, <1>4, <1>5, <1>6 DEF DiscoveryInv

LEMMA ProviderEmptyKeeps ==
    ASSUME DiscoveryInv, maxQueries' = maxQueries, ProviderEmpty
    PROVE  DiscoveryInv'
<1>1. DiscoveryTypeOK'
  <2>1. ask' \in Asks' /\ ask'.left <= ask'.asked
    BY DiscoveryAssumption
       DEF ProviderEmpty, Asking, Asks, Provider, DiscoveryInv, DiscoveryTypeOK
  <2> QED BY <2>1 DEF ProviderEmpty, Asking, DiscoveryInv, DiscoveryTypeOK
<1>2. CopyIsStored'
  BY DiscoveryAssumption DEF ProviderEmpty, Asking, DiscoveryInv, Asks, DiscoveryTypeOK,
     CopyIsStored, StepsInOrder, BudgetAddsUp, IntentsAreFunded, SpentIsCounted, AskedIntent
<1>3. StepsInOrder'
  BY DiscoveryAssumption DEF ProviderEmpty, Asking, DiscoveryInv, Asks, DiscoveryTypeOK,
     CopyIsStored, StepsInOrder, BudgetAddsUp, IntentsAreFunded, SpentIsCounted, AskedIntent
<1>4. BudgetAddsUp'
  BY DiscoveryAssumption DEF ProviderEmpty, Asking, DiscoveryInv, Asks, DiscoveryTypeOK,
     CopyIsStored, StepsInOrder, BudgetAddsUp, IntentsAreFunded, SpentIsCounted, AskedIntent
<1>5. IntentsAreFunded'
  BY DiscoveryAssumption DEF ProviderEmpty, Asking, DiscoveryInv, Asks, DiscoveryTypeOK,
     CopyIsStored, StepsInOrder, BudgetAddsUp, IntentsAreFunded, SpentIsCounted, AskedIntent,
     OpenIntents
<1>6. SpentIsCounted'
  BY DiscoveryAssumption DEF ProviderEmpty, Asking, DiscoveryInv, Asks, DiscoveryTypeOK,
     CopyIsStored, StepsInOrder, BudgetAddsUp, IntentsAreFunded, SpentIsCounted, AskedIntent
<1> QED BY <1>1, <1>2, <1>3, <1>4, <1>5, <1>6 DEF DiscoveryInv

LEMMA ProviderAnswersKeeps ==
    ASSUME DiscoveryInv, maxQueries' = maxQueries, NEW hits \in 1 .. MaxHits,
     NEW archives \in BOOLEAN, ProviderAnswers(hits, archives)
    PROVE  DiscoveryInv'
<1> DEFINE room  == MaxPages - ask.tasks
           limit == IF ask.several THEN Smaller(ask.batch, room) ELSE room
           pages == Smaller(hits, limit)
           n     == IF archives THEN Smaller(ask.tasks + 2 * pages, MaxPages) ELSE ask.tasks + pages
<1>0. ask \in Asks /\ MaxPages \in Nat /\ maxQueries \in Nat /\ hits \in Nat
  BY DiscoveryAssumption DEF DiscoveryInv, DiscoveryTypeOK
<1>1a. room \in Nat /\ limit \in 0 .. room /\ pages \in 0 .. limit
  BY <1>0 DEF Smaller, Asks
<1>n. n \in 0 .. MaxPages
  <2> HIDE DEF pages, limit
  <2>1. pages \in 0 .. room
    BY <1>1a
  <2> QED BY <1>0, <2>1 DEF Smaller, Asks
<1>q. ask' = [ask EXCEPT !.batch = 0, !.tasks = n] /\ UNCHANGED <<plan, draft, at, budget, spent, losses>>
  BY DEF ProviderAnswers
<1> HIDE DEF n
<1>a. ask' \in Asks' /\ ask'.left = ask.left /\ ask'.asked = ask.asked
  <2>1. Asks' = Asks
    BY DEF Asks
  <2>0. 0 \in 0 .. maxQueries
    BY <1>0
  <2> HIDE DEF room, limit, pages
  <2>2. [ask EXCEPT !.batch = 0, !.tasks = n] \in Asks
    BY <1>0, <1>n, <2>0 DEF Asks
  <2>3. ask'.left = ask.left /\ ask'.asked = ask.asked
    BY <1>0, <1>q DEF Asks
  <2> QED BY <1>q, <2>1, <2>2, <2>3
<1>1. DiscoveryTypeOK'
  BY <1>q, <1>a DEF DiscoveryInv, DiscoveryTypeOK, Asks
<1>2. CopyIsStored'
  BY DiscoveryAssumption DEF ProviderAnswers, Asking, Smaller, DiscoveryInv, Asks,
     DiscoveryTypeOK, CopyIsStored, StepsInOrder, BudgetAddsUp, IntentsAreFunded,
     SpentIsCounted, AskedIntent
<1>3. StepsInOrder'
  BY DiscoveryAssumption DEF ProviderAnswers, Asking, Smaller, DiscoveryInv, Asks,
     DiscoveryTypeOK, CopyIsStored, StepsInOrder, BudgetAddsUp, IntentsAreFunded,
     SpentIsCounted, AskedIntent
<1>4. BudgetAddsUp'
  BY DiscoveryAssumption DEF ProviderAnswers, Asking, Smaller, DiscoveryInv, Asks,
     DiscoveryTypeOK, CopyIsStored, StepsInOrder, BudgetAddsUp, IntentsAreFunded,
     SpentIsCounted, AskedIntent
<1>5. IntentsAreFunded'
  BY DiscoveryAssumption DEF ProviderAnswers, Asking, Smaller, DiscoveryInv, Asks,
     DiscoveryTypeOK, CopyIsStored, StepsInOrder, BudgetAddsUp, IntentsAreFunded,
     SpentIsCounted, AskedIntent, OpenIntents
<1>6. SpentIsCounted'
  BY DiscoveryAssumption DEF ProviderAnswers, Asking, Smaller, DiscoveryInv, Asks,
     DiscoveryTypeOK, CopyIsStored, StepsInOrder, BudgetAddsUp, IntentsAreFunded,
     SpentIsCounted, AskedIntent
<1> QED BY <1>1, <1>2, <1>3, <1>4, <1>5, <1>6 DEF DiscoveryInv

LEMMA BatchEndsKeeps ==
    ASSUME DiscoveryInv, maxQueries' = maxQueries, BatchEnds
    PROVE  DiscoveryInv'
<1>1. DiscoveryTypeOK'
  BY DiscoveryAssumption DEF BatchEnds, DiscoveryInv, Asks, DiscoveryTypeOK, CopyIsStored,
     StepsInOrder, BudgetAddsUp, IntentsAreFunded, SpentIsCounted, AskedIntent
<1>2. CopyIsStored'
  BY DiscoveryAssumption DEF BatchEnds, DiscoveryInv, Asks, DiscoveryTypeOK, CopyIsStored,
     StepsInOrder, BudgetAddsUp, IntentsAreFunded, SpentIsCounted, AskedIntent
<1>3. StepsInOrder'
  BY DiscoveryAssumption DEF BatchEnds, DiscoveryInv, Asks, DiscoveryTypeOK, CopyIsStored,
     StepsInOrder, BudgetAddsUp, IntentsAreFunded, SpentIsCounted, AskedIntent
<1>4. BudgetAddsUp'
  BY DiscoveryAssumption DEF BatchEnds, DiscoveryInv, Asks, DiscoveryTypeOK, CopyIsStored,
     StepsInOrder, BudgetAddsUp, IntentsAreFunded, SpentIsCounted, AskedIntent
<1>5. IntentsAreFunded'
  BY DiscoveryAssumption DEF BatchEnds, DiscoveryInv, Asks, DiscoveryTypeOK, CopyIsStored,
     StepsInOrder, BudgetAddsUp, IntentsAreFunded, SpentIsCounted, AskedIntent, OpenIntents
<1>6. SpentIsCounted'
  BY DiscoveryAssumption DEF BatchEnds, DiscoveryInv, Asks, DiscoveryTypeOK, CopyIsStored,
     StepsInOrder, BudgetAddsUp, IntentsAreFunded, SpentIsCounted, AskedIntent
<1> QED BY <1>1, <1>2, <1>3, <1>4, <1>5, <1>6 DEF DiscoveryInv

LEMMA DiscoverEndsKeeps ==
    ASSUME DiscoveryInv, maxQueries' = maxQueries, DiscoverEnds
    PROVE  DiscoveryInv'
<1>1. DiscoveryTypeOK'
  BY DiscoveryAssumption DEF DiscoverEnds, Step, DiscoveryInv, Asks, DiscoveryTypeOK,
     CopyIsStored, StepsInOrder, BudgetAddsUp, IntentsAreFunded, SpentIsCounted, AskedIntent
<1>2. CopyIsStored'
  BY DiscoveryAssumption DEF DiscoverEnds, Step, DiscoveryInv, Asks, DiscoveryTypeOK,
     CopyIsStored, StepsInOrder, BudgetAddsUp, IntentsAreFunded, SpentIsCounted, AskedIntent
<1>3. StepsInOrder'
  BY DiscoveryAssumption DEF DiscoverEnds, Step, DiscoveryInv, Asks, DiscoveryTypeOK,
     CopyIsStored, StepsInOrder, BudgetAddsUp, IntentsAreFunded, SpentIsCounted, AskedIntent
<1>4. BudgetAddsUp'
  BY DiscoveryAssumption DEF DiscoverEnds, Step, DiscoveryInv, Asks, DiscoveryTypeOK,
     CopyIsStored, StepsInOrder, BudgetAddsUp, IntentsAreFunded, SpentIsCounted, AskedIntent
<1>5. IntentsAreFunded'
  BY DiscoveryAssumption DEF DiscoverEnds, Step, DiscoveryInv, Asks, DiscoveryTypeOK,
     CopyIsStored, StepsInOrder, BudgetAddsUp, IntentsAreFunded, SpentIsCounted, AskedIntent,
     OpenIntents
<1>6. SpentIsCounted'
  BY DiscoveryAssumption DEF DiscoverEnds, Step, DiscoveryInv, Asks, DiscoveryTypeOK,
     CopyIsStored, StepsInOrder, BudgetAddsUp, IntentsAreFunded, SpentIsCounted, AskedIntent
<1> QED BY <1>1, <1>2, <1>3, <1>4, <1>5, <1>6 DEF DiscoveryInv

LEMMA MergeOutcomeKeeps ==
    ASSUME DiscoveryInv, maxQueries' = maxQueries, MergeOutcome
    PROVE  DiscoveryInv'
<1> DEFINE p == [draft EXCEPT !.queries = @ + ask.asked, !.done = @ \cup {at.intent}, !.tasks = @ + ask.tasks]
<1>0. /\ at.intent \in Intent \ plan.done /\ draft.done = plan.done
      /\ draft.queries = plan.queries /\ ask \in Asks
      /\ plan \in Plans /\ draft \in Plans /\ draft.exhausted = plan.exhausted /\ AskedIntent
  BY DEF MergeOutcome, DiscoveryInv, DiscoveryTypeOK, StepsInOrder, CopyIsStored, AskedIntent
<1>p. /\ p \in Plans /\ p.queries = plan.queries + ask.asked /\ p.done = plan.done \cup {at.intent}
      /\ p.exhausted = plan.exhausted
  <2>1. plan.queries \in Nat /\ draft.tasks \in Nat /\ ask.asked \in Nat /\ ask.tasks \in Nat
    BY <1>0, DiscoveryAssumption DEF Plans, Asks
  <2>2. p = [draft EXCEPT !.queries = draft.queries + ask.asked, !.done = draft.done \cup {at.intent},
                          !.tasks = draft.tasks + ask.tasks]
    OBVIOUS
  <2>3. draft.queries + ask.asked \in Nat /\ draft.tasks + ask.tasks \in Nat
           /\ draft.done \cup {at.intent} \in SUBSET Intent
    BY <1>0, <2>1 DEF Plans
  <2> HIDE DEF p
  <2>4. p \in Plans
    BY <1>0, <2>2, <2>3 DEF Plans
  <2>5. p.queries = plan.queries + ask.asked /\ p.done = plan.done \cup {at.intent}
           /\ p.exhausted = plan.exhausted
    BY <1>0, <2>2 DEF Plans
  <2> QED BY <2>4, <2>5
<1>q. plan' = p /\ draft' = p /\ ask' = NoAsk /\ at' = [at EXCEPT !.step = "intents"]
         /\ UNCHANGED <<budget, spent, losses>>
  BY DEF MergeOutcome, StoreProgress, Step
<1> HIDE DEF p
<1>r. OpenIntents(plan)' = OpenIntents(plan) - 1 /\ OpenIntents(plan) \in Nat
  <2>1. OpenIntents([plan EXCEPT !.done = @ \cup {at.intent}]) = OpenIntents(plan) - 1
           /\ OpenIntents(plan) \in Nat
    BY <1>0, IntentsAreFinite
  <2>2. [plan EXCEPT !.done = @ \cup {at.intent}].done = plan'.done
    BY <1>0, <1>p, <1>q DEF Plans
  <2> QED BY <2>1, <2>2 DEF OpenIntents
<1>1. DiscoveryTypeOK'
  <2>1. NoAsk \in Asks'
    BY DiscoveryAssumption DEF NoAsk, Asks, DiscoveryInv, DiscoveryTypeOK
  <2>2. at' \in [step : {"idle", "intents", "discover", "merge", "close", "ended"}, intent : Intent \cup {0}]
    BY <1>q DEF DiscoveryInv, DiscoveryTypeOK
  <2> QED BY <1>p, <1>q, <2>1, <2>2 DEF DiscoveryInv, DiscoveryTypeOK, NoAsk
<1>2. CopyIsStored'
  BY DiscoveryAssumption DEF MergeOutcome, Step, StoreProgress, NoAsk, Plans, DiscoveryInv,
     Asks, DiscoveryTypeOK, CopyIsStored, StepsInOrder, BudgetAddsUp, IntentsAreFunded,
     SpentIsCounted, AskedIntent
<1>3. StepsInOrder'
  BY DiscoveryAssumption DEF MergeOutcome, Step, StoreProgress, NoAsk, Plans, DiscoveryInv,
     Asks, DiscoveryTypeOK, CopyIsStored, StepsInOrder, BudgetAddsUp, IntentsAreFunded,
     SpentIsCounted, AskedIntent
<1>4. BudgetAddsUp'
  BY DiscoveryAssumption DEF MergeOutcome, Step, StoreProgress, NoAsk, Plans, DiscoveryInv,
     Asks, DiscoveryTypeOK, CopyIsStored, StepsInOrder, BudgetAddsUp, IntentsAreFunded,
     SpentIsCounted, AskedIntent
<1>5. IntentsAreFunded'
  <2>1. ~AskedIntent'
    BY <1>q DEF AskedIntent, DiscoveryInv, DiscoveryTypeOK
  <2>2. plan.queries \in Nat /\ ask.asked \in Nat /\ maxQueries \in Nat
    BY <1>0 DEF Plans, Asks, DiscoveryInv, DiscoveryTypeOK
  <2> QED BY <1>0, <1>p, <1>q, <1>r, <2>1, <2>2 DEF DiscoveryInv, IntentsAreFunded
<1>6. SpentIsCounted'
  BY DiscoveryAssumption DEF MergeOutcome, Step, StoreProgress, NoAsk, Plans, DiscoveryInv,
     Asks, DiscoveryTypeOK, CopyIsStored, StepsInOrder, BudgetAddsUp, IntentsAreFunded,
     SpentIsCounted, AskedIntent
<1> QED BY <1>1, <1>2, <1>3, <1>4, <1>5, <1>6 DEF DiscoveryInv

LEMMA ClosePlanKeeps ==
    ASSUME DiscoveryInv, maxQueries' = maxQueries, ClosePlan
    PROVE  DiscoveryInv'
<1>0. /\ plan'.queries = plan.queries /\ ask.asked = 0 /\ ask.left = 0 /\ plan.queries \in Nat
      /\ at'.intent = 0
      /\ UNCHANGED <<spent, losses>>
  <2>1. plan'.queries = plan.queries /\ plan.queries \in Nat
    BY DEF ClosePlan, DiscoveryInv, DiscoveryTypeOK, CopyIsStored, Plans
  <2>2. ask.asked = 0 /\ ask.left = 0
    <3>1. ask = NoAsk
      BY DEF ClosePlan, DiscoveryInv, StepsInOrder
    <3> QED BY <3>1 DEF NoAsk
  <2>3. at'.intent = 0 /\ UNCHANGED <<spent, losses>>
    BY DEF ClosePlan
  <2> QED BY <2>1, <2>2, <2>3
<1>1. DiscoveryTypeOK'
  BY DiscoveryAssumption DEF ClosePlan, Plans, Verdict, DiscoveryInv, Asks, DiscoveryTypeOK,
     CopyIsStored, StepsInOrder, BudgetAddsUp, IntentsAreFunded, SpentIsCounted, AskedIntent
<1>2. CopyIsStored'
  BY DiscoveryAssumption DEF ClosePlan, Plans, Verdict, DiscoveryInv, Asks, DiscoveryTypeOK,
     CopyIsStored, StepsInOrder, BudgetAddsUp, IntentsAreFunded, SpentIsCounted, AskedIntent
<1>3. StepsInOrder'
  BY DiscoveryAssumption DEF ClosePlan, Plans, Verdict, DiscoveryInv, Asks, DiscoveryTypeOK,
     CopyIsStored, StepsInOrder, BudgetAddsUp, IntentsAreFunded, SpentIsCounted, AskedIntent
<1>4. BudgetAddsUp'
  BY DiscoveryAssumption DEF ClosePlan, Plans, Verdict, DiscoveryInv, Asks, DiscoveryTypeOK,
     CopyIsStored, StepsInOrder, BudgetAddsUp, IntentsAreFunded, SpentIsCounted, AskedIntent
<1>5. IntentsAreFunded'
  BY DiscoveryAssumption DEF ClosePlan, Plans, Verdict, DiscoveryInv, Asks, DiscoveryTypeOK,
     CopyIsStored, StepsInOrder, BudgetAddsUp, IntentsAreFunded, SpentIsCounted, AskedIntent,
     OpenIntents
<1>6. SpentIsCounted'
  <2>1. spent <= plan.queries + 0 + maxQueries * losses
    BY <1>0 DEF DiscoveryInv, SpentIsCounted
  <2> QED BY <1>0, <2>1 DEF SpentIsCounted
<1> QED BY <1>1, <1>2, <1>3, <1>4, <1>5, <1>6 DEF DiscoveryInv

LEMMA AskForLaneKeeps ==
    ASSUME DiscoveryInv, maxQueries' = maxQueries, AskForLane
    PROVE  DiscoveryInv'
<1>1. DiscoveryTypeOK'
  <2>1. Asks' = Asks /\ NoAsk \in Asks
    BY DiscoveryAssumption DEF Asks, NoAsk, DiscoveryInv, DiscoveryTypeOK
  <2> DEFINE several == LaneQueries > maxQueries
  <2>0. several \in BOOLEAN /\ LaneQueries \in Nat
    BY DiscoveryAssumption
  <2> HIDE DEF several
  <2>2. [NoAsk EXCEPT !.asked = LaneQueries, !.left = LaneQueries, !.several = several] \in Asks
    BY <2>0, <2>1 DEF Asks
  <2>3. ask'.left = LaneQueries /\ ask'.asked = LaneQueries
    BY DEF AskForLane, NoAsk
  <2> QED
    BY <2>1, <2>2, <2>3, DiscoveryAssumption
       DEF several, AskForLane, DiscoveryInv, DiscoveryTypeOK
<1>2. CopyIsStored'
  BY DiscoveryAssumption DEF AskForLane, NoAsk, DiscoveryInv, Asks, DiscoveryTypeOK,
     CopyIsStored, StepsInOrder, BudgetAddsUp, IntentsAreFunded, SpentIsCounted, AskedIntent
<1>3. StepsInOrder'
  BY DiscoveryAssumption DEF AskForLane, NoAsk, DiscoveryInv, Asks, DiscoveryTypeOK,
     CopyIsStored, StepsInOrder, BudgetAddsUp, IntentsAreFunded, SpentIsCounted, AskedIntent
<1>4. BudgetAddsUp'
  BY DiscoveryAssumption DEF AskForLane, NoAsk, DiscoveryInv, Asks, DiscoveryTypeOK,
     CopyIsStored, StepsInOrder, BudgetAddsUp, IntentsAreFunded, SpentIsCounted, AskedIntent
<1>5. IntentsAreFunded'
  BY DiscoveryAssumption DEF AskForLane, NoAsk, DiscoveryInv, Asks, DiscoveryTypeOK,
     CopyIsStored, StepsInOrder, BudgetAddsUp, IntentsAreFunded, SpentIsCounted, AskedIntent,
     OpenIntents
<1>6. SpentIsCounted'
  BY DiscoveryAssumption DEF AskForLane, NoAsk, DiscoveryInv, Asks, DiscoveryTypeOK,
     CopyIsStored, StepsInOrder, BudgetAddsUp, IntentsAreFunded, SpentIsCounted, AskedIntent
<1> QED BY <1>1, <1>2, <1>3, <1>4, <1>5, <1>6 DEF DiscoveryInv

LEMMA LoseAttemptKeeps ==
    ASSUME DiscoveryInv, maxQueries' = maxQueries, LoseAttempt
    PROVE  DiscoveryInv'
<1>1. DiscoveryTypeOK'
  BY DiscoveryAssumption DEF LoseAttempt, NoAsk, DiscoveryInv, Asks, DiscoveryTypeOK,
     CopyIsStored, StepsInOrder, BudgetAddsUp, IntentsAreFunded, SpentIsCounted, AskedIntent
<1>2. CopyIsStored'
  BY DiscoveryAssumption DEF LoseAttempt, NoAsk, DiscoveryInv, Asks, DiscoveryTypeOK,
     CopyIsStored, StepsInOrder, BudgetAddsUp, IntentsAreFunded, SpentIsCounted, AskedIntent
<1>3. StepsInOrder'
  BY DiscoveryAssumption DEF LoseAttempt, NoAsk, DiscoveryInv, Asks, DiscoveryTypeOK,
     CopyIsStored, StepsInOrder, BudgetAddsUp, IntentsAreFunded, SpentIsCounted, AskedIntent
<1>4. BudgetAddsUp'
  BY DiscoveryAssumption DEF LoseAttempt, NoAsk, DiscoveryInv, Asks, DiscoveryTypeOK,
     CopyIsStored, StepsInOrder, BudgetAddsUp, IntentsAreFunded, SpentIsCounted, AskedIntent
<1>5. IntentsAreFunded'
  BY DiscoveryAssumption DEF LoseAttempt, NoAsk, DiscoveryInv, Asks, DiscoveryTypeOK,
     CopyIsStored, StepsInOrder, BudgetAddsUp, IntentsAreFunded, SpentIsCounted, AskedIntent,
     OpenIntents
<1>6. SpentIsCounted'
  <2>1. /\ losses' = losses + 1 /\ losses \in Nat /\ maxQueries \in Nat /\ plan' = plan
        /\ at'.intent = 0 /\ spent' = spent
        /\ plan.queries \in Nat /\ spent \in Nat
    BY DEF LoseAttempt, DiscoveryInv, DiscoveryTypeOK, Plans
  <2>2. maxQueries * (losses + 1) = maxQueries * losses + maxQueries /\ maxQueries * losses \in Nat
    BY <2>1
  <2>3. (IF at.intent # 0 THEN ask.asked - ask.left ELSE 0) <= maxQueries
    <3>1. CASE AskedIntent
      BY <3>1 DEF DiscoveryInv, DiscoveryTypeOK, BudgetAddsUp, Asks, Plans
    <3>2. CASE ~AskedIntent
      BY <3>2 DEF DiscoveryInv, DiscoveryTypeOK, StepsInOrder, AskedIntent, NoAsk, LoseAttempt
    <3> QED BY <3>1, <3>2
  <2>4. (IF at.intent # 0 THEN ask.asked - ask.left ELSE 0) \in Int
    BY DEF DiscoveryInv, DiscoveryTypeOK, Asks
  <2> DEFINE m == maxQueries * losses
             k == IF at.intent # 0 THEN ask.asked - ask.left ELSE 0
  <2>5. spent <= plan.queries + k + m
    BY DEF DiscoveryInv, SpentIsCounted
  <2>6. m \in Nat /\ k \in Int /\ k <= maxQueries /\ maxQueries' * losses' = m + maxQueries
    BY <2>1, <2>2, <2>3, <2>4
  <2> HIDE DEF m, k
  <2>7. spent <= plan.queries + 0 + (m + maxQueries)
    BY <2>1, <2>5, <2>6
  <2> QED BY <2>1, <2>6, <2>7 DEF SpentIsCounted
<1> QED BY <1>1, <1>2, <1>3, <1>4, <1>5, <1>6 DEF DiscoveryInv

\* A plan that was not begun keeps DiscoveryInv.
LEMMA DiscoveryInitInv == DiscoveryInit => DiscoveryInv
<1> SUFFICES ASSUME DiscoveryInit PROVE DiscoveryInv
  OBVIOUS
<1>1. NoPlan \in Plans /\ NoPlan.queries = 0 /\ NoPlan.done = {} /\ ~NoPlan.exhausted
  BY DEF NoPlan, Plans, Verdict
<1>2. maxQueries \in Nat /\ maxQueries \in 1 .. MaxBudget
  BY DiscoveryAssumption DEF DiscoveryInit
<1>3. DiscoveryTypeOK
  <2>1. NoAsk \in Asks /\ NoAsk.left <= NoAsk.asked
    BY <1>2, DiscoveryAssumption DEF NoAsk, Asks
  <2> QED BY <1>1, <1>2, <2>1, DiscoveryAssumption DEF DiscoveryInit, DiscoveryTypeOK
<1>4. IntentsAreFunded
  <2>1. OpenIntents(plan) = Intents
    BY <1>1, IntentsAreFinite DEF DiscoveryInit
  <2> QED BY <1>1, <2>1, DiscoveryAssumption DEF DiscoveryInit, IntentsAreFunded, AskedIntent
<1>5. CopyIsStored /\ StepsInOrder /\ BudgetAddsUp
  BY <1>1, <1>2 DEF DiscoveryInit, CopyIsStored, StepsInOrder, BudgetAddsUp, AskedIntent
<1>6. SpentIsCounted
  BY <1>1, <1>2 DEF DiscoveryInit, SpentIsCounted
<1> QED BY <1>3, <1>4, <1>5, <1>6 DEF DiscoveryInv

\* No step of an attempt, nor its loss, breaks DiscoveryInv.
LEMMA DiscoveryNextInv == DiscoveryInv /\ [DiscoveryNext]_discoveryVars => DiscoveryInv'
<1> SUFFICES ASSUME DiscoveryInv, [DiscoveryNext]_discoveryVars PROVE DiscoveryInv'
  OBVIOUS
<1>1. CASE UNCHANGED discoveryVars
  BY <1>1 DEF discoveryVars, DiscoveryInv, DiscoveryTypeOK, Asks, CopyIsStored, StepsInOrder,
     BudgetAddsUp, IntentsAreFunded,
              OpenIntents, SpentIsCounted, AskedIntent
<1>2. CASE DiscoveryNext
  <2>1. maxQueries' = maxQueries
    BY <1>2 DEF DiscoveryNext
  <2> QED
    BY <1>2, <2>1, BeginDiscoveryKeeps, BudgetExhaustedKeeps, NothingToAskKeeps, AskIntentKeeps,
       AllAskedKeeps,
       NextBatchKeeps, PassProviderKeeps, ProviderBlockedKeeps, ProviderEmptyKeeps,
       ProviderAnswersKeeps, BatchEndsKeeps,
       DiscoverEndsKeeps, MergeOutcomeKeeps, ClosePlanKeeps, AskForLaneKeeps, LoseAttemptKeeps
       DEF DiscoveryNext
<1> QED BY <1>1, <1>2

\* What the plan, the call under way and the losses add up to is within the budget.
LEMMA DiscoveryInvSpans == DiscoveryInv => QueryBudgetSpansAttempts
<1> SUFFICES ASSUME DiscoveryInv PROVE QueryBudgetSpansAttempts
  OBVIOUS
<1>1. plan.queries \in Nat /\ ask \in Asks /\ spent \in Nat /\ maxQueries \in Nat
         /\ losses \in Nat /\ ask.left <= ask.asked
  BY DEF DiscoveryInv, DiscoveryTypeOK, Plans
<1>2. maxQueries * losses \in Nat
  BY <1>1
<1> DEFINE m == maxQueries * losses
<1>3. spent <= plan.queries + (IF at.intent # 0 THEN ask.asked - ask.left ELSE 0) + m /\ m \in Nat
  BY <1>2 DEF DiscoveryInv, SpentIsCounted
<1> HIDE DEF m
<1>4. spent <= plan.queries + ask.asked + m
  BY <1>1, <1>3 DEF Asks
<1>5. plan.queries <= maxQueries /\ ask.tasks <= MaxPages
  BY <1>1, DiscoveryAssumption DEF DiscoveryInv, BudgetAddsUp, Asks
<1>6. plan.exhausted => maxQueries < Intents
  BY <1>1, DiscoveryAssumption DEF DiscoveryInv, IntentsAreFunded
<1> QED BY <1>4, <1>5, <1>6 DEF QueryBudgetSpansAttempts, m

(***************************************************************************)
(* However many attempts are lost, discovery asks no more queries than the *)
(* collection may and one lost call each, and has a query for every intent *)
(* when there are enough (orchestrator/service.py, research/discovery.py). *)
(***************************************************************************)
THEOREM QueryBudgetHolds == DiscoverySpec => []QueryBudgetSpansAttempts
BY DiscoveryInitInv, DiscoveryNextInv, DiscoveryInvSpans, PTL DEF DiscoverySpec

(***************************************************************************)
(* The listing of collections (CollectionListing).                         *)
(***************************************************************************)
ListingSpec == ListingInit /\ [][ListingNext]_listingVars

(***************************************************************************)
(* A row has its time of creation before it can be listed.  Between two    *)
(* pages, nothing that was received is behind the cursor, and what stayed  *)
(* is behind the cursor unless it was received.                            *)
(***************************************************************************)
RowsAreStamped ==
    /\ listTime \in Nat \ {0}
    /\ created \in [Listed -> Nat]
    /\ state \in [Listed -> {"new", "deleted"} \cup Statuses]
    /\ \A c \in Listed : state[c] # "new" => created[c] > 0

CursorSplits ==
    /\ received \in Seq(Listed) /\ IsInjective(received)
    /\ staying \in SUBSET Matching(state, reader.filter)
    /\ reader.phase \in {"idle", "reads", "has all"} /\ reader.filter \in Statuses \cup {Anything}
    /\ \A i \in DOMAIN received : created[received[i]] > 0
    /\ reader.phase = "idle" => received = <<>> /\ staying = {}
    /\ reader.phase = "reads" =>
         /\ \E c \in Listed : created[c] > 0 /\ reader.cursor = [at |-> created[c], id |-> c]
         /\ \A i \in DOMAIN received : ~Before(received[i], reader.cursor)
         /\ \A c \in staying : Before(c, reader.cursor) \/ c \in Range(received)
    /\ reader.phase = "has all" => staying \subseteq Range(received)

ListingInv == RowsAreStamped /\ CursorSplits

NewerThan == {p \in Listed \X Listed : Newer(p[1], p[2])}

\* By time of creation and id any two collections are ordered, one way.
LEMMA NewerOrders ==
    ASSUME RowsAreStamped PROVE Orders(NewerThan, Listed)
<1>1. \A x, y \in Listed : <<x, y>> \in NewerThan <=> Newer(x, y)
  BY DEF NewerThan
<1>2. \A x \in Listed : x \in Nat /\ created[x] \in Nat
  BY ListingAssumption DEF ListingAssumption, RowsAreStamped
<1>3. \A x, y \in Listed : x = y \/ Newer(x, y) \/ Newer(y, x)
  BY <1>2 DEF Newer
<1>4. \A x \in Listed : ~Newer(x, x)
  BY <1>2 DEF Newer
<1>5. \A x, y, z \in Listed : Newer(x, y) /\ Newer(y, z) => Newer(x, z)
  BY <1>2 DEF Newer
<1> QED
  BY <1>1, <1>3, <1>4, <1>5 DEF Orders

\* The cursor of a row lets through what is older.
LEMMA CursorIsRow ==
    ASSUME RowsAreStamped, NEW c \in Listed, NEW d \in Listed, created[d] > 0
    PROVE  Before(c, [at |-> created[d], id |-> d]) <=> Newer(d, c)
<1>1. created[d] \in Nat /\ created[c] \in Nat /\ c \in Nat /\ d \in Nat
  BY ListingAssumption DEF ListingAssumption, RowsAreStamped
<1>2. [at |-> created[d], id |-> d] # Start
  BY <1>1 DEF Start
<1> QED
  BY <1>1, <1>2 DEF Before, Newer

\* A page, from wherever it is read, keeps the split of the collections by the cursor.
LEMMA ListPageKeeps ==
    ASSUME ListingInv, NEW size \in PageSizes, NEW filter \in Statuses \cup {Anything}, NEW cursor, NEW stay,
           ListPage(size, filter, cursor), UNCHANGED <<listTime, created, state>>,
           stay \in SUBSET Matching(state, filter), staying' = stay,
           \/ cursor = Start /\ received = <<>>
           \/ /\ \E d \in Listed : created[d] > 0 /\ cursor = [at |-> created[d], id |-> d]
              /\ \A i \in DOMAIN received : ~Before(received[i], cursor)
              /\ \A c \in stay : Before(c, cursor) \/ c \in Range(received)
    PROVE  ListingInv'
<1> DEFINE S == {c \in Matching(state, filter) : Before(c, cursor)}
           rows == InOrder(S, NewerThan)
           n == IF size < Len(rows) THEN size ELSE Len(rows)
           chunk == SubSeq(rows, 1, n)
<1>1. S \subseteq Listed /\ IsFiniteSet(S) /\ Cardinality(S) \in Nat
  <2>1. S \in SUBSET Listed
    BY DEF Matching
  <2> QED
    BY <2>1, ListingAssumption, FS_Subset, FS_CardinalityType DEF ListingAssumption
<1>2. Lists(rows, S, NewerThan) /\ size \in Nat \ {0}
  <2>1. Orders(NewerThan, S)
    BY <1>1, NewerOrders DEF ListingInv, Orders
  <2> QED
    BY <1>1, <2>1, InOrderLists, ListingAssumption DEF ListingAssumption
<1>3. /\ received' = received \o chunk
      /\ reader' = IF Len(rows) > size
                    THEN [phase |-> "reads", filter |-> filter,
                          cursor |-> [at |-> created[Last(chunk)], id |-> Last(chunk)]]
                    ELSE [phase |-> "has all", filter |-> filter, cursor |-> cursor]
  BY DEF ListPage, NewerThan
<1>8. \A c \in S : c \in Listed /\ created[c] > 0 /\ c \in Matching(state, filter)
  <2>1. ASSUME NEW c \in Matching(state, filter) PROVE c \in Listed /\ state[c] # "new"
    BY DEF Matching, Statuses, Anything
  <2> QED
    BY <2>1 DEF ListingInv, RowsAreStamped
<1>9. \A c \in Listed : c \in Nat /\ created[c] \in Nat
  BY ListingAssumption DEF ListingAssumption, ListingInv, RowsAreStamped
<1>10. /\ received \in Seq(Listed) /\ IsInjective(received) /\ Len(received) \in Nat
       /\ DOMAIN received = 1 .. Len(received)
       /\ \A i \in 1 .. Len(received) : received[i] \in Listed /\ created[received[i]] > 0
  <2>1. received \in Seq(Listed) /\ IsInjective(received) /\ \A i \in DOMAIN received : created[received[i]] > 0
    BY DEF ListingInv, CursorSplits
  <2> QED
    BY <2>1
<1>11. \A i \in 1 .. Len(received) : received[i] \notin S
  <2>1. CASE received = <<>>
    BY <2>1
  <2>2. CASE \A i \in DOMAIN received : ~Before(received[i], cursor)
    BY <1>10, <2>2
  <2> QED
    BY <2>1, <2>2
<1>18. \A c \in stay : c \in S \/ c \in Range(received)
  BY DEF Before
<1>1a. \A x, y \in S : <<x, y>> \in NewerThan <=> Newer(x, y)
  BY <1>8 DEF NewerThan
<1> HIDE DEF S, rows
<1>4. /\ rows \in Seq(S) /\ Len(rows) = Cardinality(S) /\ Len(rows) \in Nat
      /\ \A i \in 1 .. Len(rows) : rows[i] \in S
      /\ \A c \in S : \E i \in 1 .. Len(rows) : rows[i] = c
      /\ \A i, j \in 1 .. Len(rows) : i < j <=> <<rows[i], rows[j]>> \in NewerThan
  <2>1. rows \in [1 .. Cardinality(S) -> S]
    BY <1>2 DEF Lists
  <2>2. rows \in Seq(S) /\ Len(rows) = Cardinality(S)
    BY <1>1, <2>1
  <2> QED
    BY <1>1, <1>2, <2>1, <2>2 DEF Lists
<1>5. n \in Nat /\ n <= Len(rows) /\ (Len(rows) > size => n = size /\ n > 0)
         /\ (~(Len(rows) > size) => n = Len(rows))
  BY <1>2, <1>4
<1> HIDE DEF n
<1>6. chunk \in Seq(S) /\ Len(chunk) = n /\ \A i \in 1 .. n : chunk[i] = rows[i] /\ i \in 1 .. Len(rows)
  BY <1>4, <1>5
<1> HIDE DEF chunk
<1>7. ASSUME NEW i \in 1 .. Len(rows), NEW j \in 1 .. Len(rows) PROVE i < j <=> Newer(rows[i], rows[j])
  BY <1>1a, <1>4
<1>12. received' \in Seq(Listed)
  <2>1. chunk \in Seq(Listed)
    BY <1>1, <1>6
  <2>2. received' = received \o chunk
    BY <1>3
  <2>3. received \o chunk \in Seq(Listed)
    BY <1>10, <2>1
  <2> QED
    BY <2>2, <2>3
<1>13. /\ DOMAIN received' = 1 .. Len(received) + n
       /\ \A i \in 1 .. Len(received) : received'[i] = received[i]
       /\ \A i \in 1 .. n : received'[Len(received) + i] = rows[i]
  <2> DEFINE long == received \o chunk
  <2>1. chunk \in Seq(Listed) /\ Len(chunk) = n
    BY <1>1, <1>6
  <2>2. Len(long) = Len(received) + n /\ long \in Seq(Listed)
    BY SMTT(30), <1>10, <2>1
  <2>3. \A i \in 1 .. Len(received) : long[i] = received[i]
    BY <1>5, <1>10, <2>1
  <2>4. \A i \in 1 .. n : long[Len(received) + i] = chunk[i]
    BY <1>5, <1>10, <2>1
  <2> HIDE DEF long
  <2>5. DOMAIN long = 1 .. Len(received) + n
    BY <2>2
  <2>6. received' = long
    BY <1>3 DEF long
  <2> QED
    BY <1>6, <2>3, <2>4, <2>5, <2>6
<1>14. \A i \in DOMAIN received' : i \in 1 .. Len(received) \/ \E k \in 1 .. n : i = Len(received) + k
  <2> TAKE i \in DOMAIN received'
  <2>1. i \in 1 .. Len(received) \/ (i - Len(received) \in 1 .. n /\ i = Len(received) + (i - Len(received)))
    BY <1>5, <1>10, <1>13
  <2> QED
    BY <2>1
<1>15. IsInjective(received')
  <2>1. SUFFICES ASSUME NEW i \in DOMAIN received', NEW j \in DOMAIN received', received'[i] = received'[j]
                 PROVE  i = j
    BY DEF IsInjective
  <2>2. CASE i \in 1 .. Len(received) /\ j \in 1 .. Len(received)
    BY <1>10, <1>13, <2>1, <2>2 DEF IsInjective
  <2>3. ASSUME i \in 1 .. Len(received), NEW k \in 1 .. n, j = Len(received) + k PROVE FALSE
    <3>1. received'[i] = received[i] /\ received'[j] = rows[k] /\ rows[k] \in S /\ received[i] \notin S
      BY <1>4, <1>6, <1>11, <1>13, <2>3
    <3> QED
      BY <2>1, <3>1
  <2>4. ASSUME j \in 1 .. Len(received), NEW k \in 1 .. n, i = Len(received) + k PROVE FALSE
    <3>1. received'[j] = received[j] /\ received'[i] = rows[k] /\ rows[k] \in S /\ received[j] \notin S
      BY <1>4, <1>6, <1>11, <1>13, <2>4
    <3> QED
      BY <2>1, <3>1
  <2>5. ASSUME NEW k \in 1 .. n, i = Len(received) + k, NEW m \in 1 .. n, j = Len(received) + m
        PROVE  i = j
    <3>1. rows[k] = rows[m] /\ k \in 1 .. Len(rows) /\ m \in 1 .. Len(rows)
      BY <1>6, <1>13, <2>1, <2>5
    <3>2. rows[k] \in Listed /\ ~Newer(rows[k], rows[k])
      BY <1>4, <1>8, <1>9, <3>1 DEF Newer
    <3>3. ~(k < m) /\ ~(m < k)
      BY <1>7, <3>1, <3>2
    <3> QED
      BY <1>5, <2>5, <3>3
  <2> QED
    BY <1>14, <2>2, <2>3, <2>4, <2>5
<1>16. \A i \in DOMAIN received' : created'[received'[i]] > 0
  <2> TAKE i \in DOMAIN received'
  <2>1. CASE i \in 1 .. Len(received)
    BY <1>10, <1>13, <2>1
  <2>2. ASSUME NEW k \in 1 .. n, i = Len(received) + k PROVE created'[received'[i]] > 0
    <3>1. received'[i] = rows[k] /\ rows[k] \in S
      BY <1>4, <1>6, <1>13, <2>2
    <3> QED
      BY <1>8, <3>1
  <2> QED
    BY <1>14, <2>1, <2>2
<1>17. /\ Range(received) \subseteq Range(received')
       /\ \A i \in 1 .. n : rows[i] \in Range(received')
  <2>1. \A i \in 1 .. n : Len(received) + i \in 1 .. Len(received) + n
    BY <1>5, <1>10, <1>13
  <2>2. 1 .. Len(received) \subseteq 1 .. Len(received) + n
    BY <1>5, <1>10, <1>13
  <2> QED
    BY <1>10, <1>13, <2>1, <2>2 DEF Range
<1>19. CASE Len(rows) > size
  <2> DEFINE last == rows[n]
             then == [at |-> created[last], id |-> last]
  <2>1. n \in 1 .. n /\ n \in 1 .. Len(rows) /\ Last(chunk) = last /\ last \in S
    BY <1>4, <1>5, <1>6, <1>19 DEF Last
  <2>2. reader' = [phase |-> "reads", filter |-> filter, cursor |-> then]
    BY <1>3, <1>19, <2>1
  <2>3. last \in Listed /\ created[last] > 0
    BY <1>8, <2>1
  <2> HIDE DEF last
  <2>4. \A c \in Listed : Before(c, then) <=> Newer(last, c)
    BY <2>3, CursorIsRow DEF ListingInv
  <2>5. ASSUME NEW i \in DOMAIN received' PROVE ~Before(received'[i], then)
    <3>1. CASE i \in 1 .. Len(received)
      <4>0. received # <<>> /\ i \in DOMAIN received
        BY <1>10, <3>1
      <4>1. /\ \E d \in Listed : created[d] > 0 /\ cursor = [at |-> created[d], id |-> d]
            /\ ~Before(received[i], cursor)
        BY <4>0
      <4>2. PICK d \in Listed : created[d] > 0 /\ cursor = [at |-> created[d], id |-> d]
        BY <4>1
      <4>2a. last \in Listed /\ Before(last, cursor)
        BY <2>1, <2>3 DEF S
      <4>3. \A c \in Listed : Before(c, cursor) <=> Newer(d, c)
        BY <4>2, CursorIsRow DEF ListingInv
      <4>4. Newer(d, last) /\ ~Newer(d, received[i])
        BY <1>10, <3>1, <4>1, <4>2a, <4>3
      <4>5. ~Newer(last, received[i])
        BY SMTT(30), <1>9, <1>10, <2>3, <3>1, <4>4 DEF Newer
      <4> QED
        BY <1>10, <1>13, <2>4, <3>1, <4>5
    <3>2. ASSUME NEW k \in 1 .. n, i = Len(received) + k PROVE ~Before(received'[i], then)
      <4>1. received'[i] = rows[k] /\ k \in 1 .. Len(rows) /\ ~(n < k) /\ rows[k] \in Listed
        BY <1>4, <1>5, <1>6, <1>8, <1>13, <3>2
      <4> QED
        BY <1>7, <2>1, <2>4, <4>1 DEF last
    <3> QED
      BY <1>14, <3>1, <3>2
  <2>6. ASSUME NEW c \in stay PROVE Before(c, then) \/ c \in Range(received')
    <3>1. CASE c \in S
      <4>1. PICK i \in 1 .. Len(rows) : rows[i] = c
        BY <1>4, <3>1
      <4>2. CASE i \in 1 .. n
        BY <1>17, <4>1, <4>2
      <4>3. CASE i \notin 1 .. n
        <5>1. n < i
          BY <1>5, <4>1, <4>3
        <5> QED
          BY <1>7, <1>8, <2>1, <2>4, <3>1, <4>1, <5>1 DEF last
      <4> QED
        BY <4>2, <4>3
    <3>2. CASE c \in Range(received)
      BY <1>17, <3>2
    <3> QED
      BY <1>18, <3>1, <3>2
  <2> HIDE DEF then
  <2>8. reader'.phase = "reads" /\ reader'.filter = filter /\ reader'.cursor = then
    BY <2>2
  <2>9. /\ \A i \in DOMAIN received' : ~Before(received[i], reader.cursor)'
        /\ \A c \in staying' : Before(c, reader.cursor)' \/ c \in Range(received')
    BY <2>5, <2>6, <2>8 DEF Before
  <2>10. \E c \in Listed : created'[c] > 0 /\ reader'.cursor = [at |-> created'[c], id |-> c]
    BY <2>3, <2>8 DEF then
  <2>11. staying' \in SUBSET Matching(state, reader.filter)'
    BY <2>8 DEF Matching
  <2> QED
    BY <1>12, <1>15, <1>16, <2>8, <2>9, <2>10, <2>11
       DEF ListingInv, RowsAreStamped, CursorSplits
<1>20. CASE ~(Len(rows) > size)
  <2>1. reader' = [phase |-> "has all", filter |-> filter, cursor |-> cursor]
    BY <1>3, <1>20
  <2>2. reader'.phase = "has all" /\ reader'.filter = filter
    BY <2>1
  <2>3. staying' \subseteq Range(received')
    <3>1. \A c \in S : c \in Range(received')
      BY <1>4, <1>5, <1>17, <1>20
    <3> QED
      BY <1>17, <1>18, <3>1
  <2>4. staying' \in SUBSET Matching(state, reader.filter)'
    BY <2>2 DEF Matching
  <2> QED
    BY <1>12, <1>15, <1>16, <2>2, <2>3, <2>4 DEF ListingInv, RowsAreStamped, CursorSplits
<1> QED
  BY <1>19, <1>20

\* At the start nothing is listed and nothing received.
LEMMA ListingInitInv == ListingInit => ListingInv
BY DEF ListingInit, ListingInv, RowsAreStamped, CursorSplits, IsInjective, Matching

\* No step of the store or of the reader breaks ListingInv.
LEMMA ListingNextInv == ListingInv /\ [ListingNext]_listingVars => ListingInv'
<1> SUFFICES ASSUME ListingInv, [ListingNext]_listingVars PROVE ListingInv'
  OBVIOUS
<1>1. CASE ClockTicks
  <2>1. listTime' \in Nat \ {0} /\ UNCHANGED <<created, state, reader, received, staying>>
    BY <1>1 DEF ClockTicks, ListingInv, RowsAreStamped
  <2>2. RowsAreStamped'
    BY <2>1 DEF ListingInv, RowsAreStamped
  <2>3. CursorSplits'
    BY <2>1 DEF ListingInv, CursorSplits, Before, Matching
  <2> QED
    BY <2>2, <2>3 DEF ListingInv
<1>2. ASSUME NEW c \in Listed, StampCreation(c) PROVE ListingInv'
  <2>1. /\ created[c] = 0 /\ created' = [created EXCEPT ![c] = listTime] /\ listTime > 0 /\ listTime \in Nat
        /\ UNCHANGED <<listTime, state, reader, received, staying>>
    BY <1>2 DEF StampCreation, ListingInv, RowsAreStamped
  <2>2. RowsAreStamped'
    BY <2>1 DEF ListingInv, RowsAreStamped
  <2>3. created \in [Listed -> Nat] /\ \A d \in Listed : created[d] > 0 => created'[d] = created[d]
    BY <2>1 DEF ListingInv, RowsAreStamped
  <2>4. \A i \in DOMAIN received : received[i] \in Listed /\ created[received[i]] > 0
    <3>1. received \in Seq(Listed) /\ \A i \in DOMAIN received : created[received[i]] > 0
      BY DEF ListingInv, CursorSplits
    <3> QED
      BY <3>1
  <2>5. \A d \in staying : d \in Listed /\ created[d] > 0
    <3>1. staying \subseteq Matching(state, reader.filter) /\ reader.filter \in Statuses \cup {Anything}
      BY DEF ListingInv, CursorSplits
    <3>2. \A d \in Matching(state, reader.filter) : d \in Listed /\ state[d] # "new"
      BY <3>1 DEF Matching, Statuses, Anything
    <3> QED
      BY <3>1, <3>2 DEF ListingInv, RowsAreStamped
  <2>6. CursorSplits'
    BY <2>1, <2>3, <2>4, <2>5 DEF ListingInv, CursorSplits, Before, Matching
  <2> QED
    BY <2>2, <2>6 DEF ListingInv
<1>3. ASSUME NEW c \in Listed, RowChanges(c) PROVE ListingInv'
  <2>1. /\ created[c] > 0 /\ \E to \in {"deleted"} \cup Statuses : state' = [state EXCEPT ![c] = to]
        /\ staying' = staying \cap Matching(state', reader.filter)
        /\ UNCHANGED <<listTime, created, reader, received>>
    BY <1>3 DEF RowChanges, Becomes, Statuses
  <2>2. RowsAreStamped'
    BY <2>1 DEF ListingInv, RowsAreStamped
  <2>3. staying' \in SUBSET Matching(state, reader.filter)' /\ staying' \subseteq staying
    BY <2>1 DEF Matching
  <2>4. CursorSplits'
    BY <2>1, <2>3 DEF ListingInv, CursorSplits, Before
  <2> QED
    BY <2>2, <2>4 DEF ListingInv
<1>4. ASSUME NEW size \in PageSizes, NextPage(size) PROVE ListingInv'
  <2>1. /\ reader.phase = "reads" /\ ListPage(size, reader.filter, reader.cursor)
        /\ UNCHANGED <<listTime, created, state, staying>>
    BY <1>4 DEF NextPage
  <2>2. /\ staying \in SUBSET Matching(state, reader.filter) /\ reader.filter \in Statuses \cup {Anything}
        /\ \E d \in Listed : created[d] > 0 /\ reader.cursor = [at |-> created[d], id |-> d]
        /\ \A i \in DOMAIN received : ~Before(received[i], reader.cursor)
        /\ \A c \in staying : Before(c, reader.cursor) \/ c \in Range(received)
    BY <2>1 DEF ListingInv, CursorSplits
  <2> QED
    BY <2>1, <2>2, ListPageKeeps
<1>5. ASSUME NEW size \in PageSizes, NEW f \in Statuses \cup {Anything}, FirstPage(size, f)
      PROVE  ListingInv'
  <2>1. /\ reader.phase = "idle" /\ ListPage(size, f, Start) /\ staying' = Matching(state, f)
        /\ UNCHANGED <<listTime, created, state>>
    BY <1>5 DEF FirstPage
  <2>2. received = <<>>
    BY <2>1 DEF ListingInv, CursorSplits
  <2> QED
    BY <2>1, <2>2, ListPageKeeps
<1>6. CASE UNCHANGED listingVars
  BY <1>6 DEF listingVars, ListingInv, RowsAreStamped, CursorSplits, Before, Matching
<1> QED
  BY <1>1, <1>2, <1>3, <1>4, <1>5, <1>6 DEF ListingNext

\* ListingInv is what the run checks, and what makes it inductive.
LEMMA ListingInvHolds == ListingInv => ListingIsComplete
BY DEF ListingInv, CursorSplits, ListingIsComplete

(***************************************************************************)
(* For every number of collections and every page size: who follows the    *)
(* cursors receives no collection twice, and every one that matches from   *)
(* the first page to the last (postgres_operations.py, pagination.py).     *)
(***************************************************************************)
THEOREM NothingIsSkipped == ListingSpec => []ListingIsComplete
BY ListingInitInv, ListingNextInv, ListingInvHolds, PTL DEF ListingSpec

\* Times stay within the clock, and a cursor is a row.
ListingShapes ==
    /\ listTime \in 1 .. MaxClock
    /\ created \in [Listed -> 0 .. MaxClock]
    /\ reader.cursor = Start \/ reader.cursor \in [at : 1 .. MaxClock, id : Listed]

\* A page leaves the cursor alone, or puts it on the last row of the page.
LEMMA PageKeepsShapes ==
    ASSUME ListingInv', ListingShapes, UNCHANGED <<listTime, created>>, NEW size, NEW filter, NEW cursor,
           ListPage(size, filter, cursor), cursor = Start \/ cursor = reader.cursor
    PROVE  ListingShapes'
<1>1. \/ reader'.phase = "reads" \/ reader'.cursor = cursor
  BY DEF ListPage
<1>2. CASE reader'.phase = "reads"
  <2>1. PICK c \in Listed : created'[c] > 0 /\ reader'.cursor = [at |-> created'[c], id |-> c]
    BY <1>2 DEF ListingInv, CursorSplits
  <2>2. created'[c] \in 1 .. MaxClock
    BY <2>1 DEF ListingShapes
  <2>3. reader'.cursor \in [at : 1 .. MaxClock, id : Listed]
    BY <2>1, <2>2
  <2> QED BY <2>3 DEF ListingShapes, Start
<1>3. CASE reader'.cursor = cursor
  BY <1>3 DEF ListingShapes, Start
<1> QED BY <1>1, <1>2, <1>3

LEMMA ListingShapesInit == ListingInit => ListingShapes
BY ListingAssumption DEF ListingInit, ListingShapes

\* No step of the store or of the reader breaks ListingShapes.
LEMMA ListingShapesNext == ListingShapes /\ ListingInv' /\ [ListingNext]_listingVars => ListingShapes'
<1> SUFFICES ASSUME ListingShapes, ListingInv', [ListingNext]_listingVars PROVE ListingShapes'
  OBVIOUS
<1>1. CASE ClockTicks
  BY <1>1, ListingAssumption DEF ClockTicks, ListingShapes
<1>2. ASSUME NEW c \in Listed, StampCreation(c) PROVE ListingShapes'
  BY <1>2 DEF StampCreation, ListingShapes
<1>3. ASSUME NEW c \in Listed, RowChanges(c) PROVE ListingShapes'
  BY <1>3 DEF RowChanges, Becomes, ListingShapes
<1>4. ASSUME NEW size \in PageSizes, NextPage(size) PROVE ListingShapes'
  <2>1. ListPage(size, reader.filter, reader.cursor) /\ UNCHANGED <<listTime, created>>
    BY <1>4 DEF NextPage
  <2> QED BY <2>1, PageKeepsShapes
<1>5. ASSUME NEW size \in PageSizes, NEW f \in Statuses \cup {Anything}, FirstPage(size, f) PROVE ListingShapes'
  <2>1. ListPage(size, f, Start) /\ UNCHANGED <<listTime, created>>
    BY <1>5 DEF FirstPage
  <2> QED BY <2>1, PageKeepsShapes
<1>6. CASE UNCHANGED listingVars
  BY <1>6 DEF listingVars, ListingShapes
<1> QED BY <1>1, <1>2, <1>3, <1>4, <1>5, <1>6 DEF ListingNext

\* With ListingInv they are the types of the listing.
LEMMA ListingIsTyped == ListingInv /\ ListingShapes => ListingTypeOK
<1> SUFFICES ASSUME ListingInv, ListingShapes PROVE ListingTypeOK
  OBVIOUS
<1>1. state \in [Listed -> {"new", "deleted"} \cup Statuses]
  BY DEF ListingInv, RowsAreStamped
<1>2. /\ reader.phase \in {"idle", "reads", "has all"} /\ reader.filter \in Statuses \cup {Anything}
      /\ received \in Seq(Listed)
  BY DEF ListingInv, CursorSplits
<1>3. staying \subseteq Listed
  BY DEF ListingInv, CursorSplits, Matching
<1> QED BY <1>1, <1>2, <1>3 DEF ListingShapes, ListingTypeOK

(***************************************************************************)
(* Tasks that grow out of pages (SiteCrawl).                               *)
(***************************************************************************)
CrawlSpec == CrawlInit /\ [][CrawlNext]_crawlVars

\* The tasks a collection may have: what they ask for is of their kind, inside of the request, and
\* what is left to find from them is too.
Fitting ==
    {t \in Tasks :
       /\ t.kind = "get" <=> t.source # "site_discovery"
       /\ t.kind = "get" => t.url \in Page /\ (t.url # t.root => UrlAllowed(t.url))
       /\ t.kind = "robots" => t.url \in Host
       /\ t.kind = "sitemap" => t.url \in Sitemap
       /\ t.depth <= request.maxDepth \/ (t.source = "dedicated" /\ t.depth = 1)
       /\ t.kind # "get" => t.depth < request.maxDepth \/ (t.target = "dedicated" /\ t.depth = 0)
       /\ t.index <= IndexLimit}

\* What a page leads to, outside of a contour and behind an entry of one.
Offered == {t \in Fitting : t.kind = "get" => UrlAllowed(t.url)}
Ordinary == {t \in Offered : ~t.contour}
Leaves  == {t \in Offered : t.kind = "get" /\ t.terminal}

\* A function of 1 .. n is a list.
LEMMA ListOf == ASSUME NEW n \in Nat, NEW T, NEW s \in [1 .. n -> T] PROVE s \in Seq(T) /\ Len(s) = n
OBVIOUS

\* What a task is made of.
LEMMA TaskParts ==
    ASSUME NEW t \in Tasks
    PROVE  /\ t.source \in Sources /\ t.kind \in {"get", "robots", "sitemap"} /\ t.url \in Page \cup Sitemap \cup Host
           /\ t.depth \in Nat /\ t.root \in Page \cup Host /\ t.index \in Nat
           /\ t.contour \in BOOLEAN /\ t.terminal \in BOOLEAN /\ t.noSite \in BOOLEAN
           /\ t.onMap \in BOOLEAN /\ t.archive \in BOOLEAN /\ t.target \in {"generic_web", "dedicated"}
BY DEF Tasks

\* The first n of a list.
LEMMA UptoIsListed ==
    ASSUME NEW T, NEW n \in Nat, NEW s \in Seq(T)
    PROVE  Upto(n, s) \in Seq(T) /\ Len(Upto(n, s)) <= n /\ Len(Upto(n, s)) <= Len(s)
<1> DEFINE m == IF Len(s) < n THEN Len(s) ELSE n
<1>1. m \in Nat /\ m <= n /\ m <= Len(s) /\ Len(s) \in Nat
  OBVIOUS
<1> HIDE DEF m
<1>2. Len(SubSeq(s, 1, m)) = m /\ \A i \in 1 .. m : SubSeq(s, 1, m)[i] = s[i]
  BY <1>1
<1>3. SubSeq(s, 1, m) \in Seq(T)
  BY <1>1
<1> QED BY <1>1, <1>2, <1>3 DEF Upto, m

\* Likely items first.
LEMMA RankedAreListed ==
    ASSUME NEW T, NEW s \in Seq(T)
    PROVE  RankedLinks(s) \in Seq(T)
<1> DEFINE likely == {i \in DOMAIN s : s[i] \in Item}
<1>1. Those(s, likely) \in Seq(T) /\ Those(s, DOMAIN s \ likely) \in Seq(T)
  <2>1. likely \subseteq DOMAIN s /\ DOMAIN s \ likely \subseteq DOMAIN s
    OBVIOUS
  <2> HIDE DEF likely
  <2> QED BY <2>1, ThoseAreListed
<1> QED BY <1>1 DEF RankedLinks

\* Pages of a list that are allowed.
LEMMA AllowedAreListed ==
    ASSUME NEW urls \in Seq(Page), NEW final
    PROVE  AllowedOnly(urls, final) \in Seq({u \in Page : UrlAllowed(u)})
<1> DEFINE P == {i \in DOMAIN urls : DomainAllowed(urls[i], final)}
           those == Those(urls, P)
<1>1. those \in Seq(Page) /\ \A k \in DOMAIN those : \E i \in P : those[k] = urls[i]
  <2>1. P \subseteq DOMAIN urls
    OBVIOUS
  <2> HIDE DEF P
  <2> QED BY <2>1, ThoseAreListed
<1>2. \A i \in P : urls[i] \in Page /\ UrlAllowed(urls[i])
  BY DEF DomainAllowed, UrlAllowed
<1> HIDE DEF P, those
<1>3. those \in Seq({u \in Page : UrlAllowed(u)})
  BY <1>1, <1>2
<1> QED BY <1>3 DEF AllowedOnly, those, P

LEMMA WantedAreListed ==
    ASSUME NEW urls \in Seq(Page)
    PROVE  WantedOnly(urls) \in Seq({u \in Page : UrlAllowed(u)})
<1> DEFINE P == {i \in DOMAIN urls : UrlAllowed(urls[i])}
           those == Those(urls, P)
<1>1. those \in Seq(Page) /\ \A k \in DOMAIN those : \E i \in P : those[k] = urls[i]
  <2>1. P \subseteq DOMAIN urls
    OBVIOUS
  <2> HIDE DEF P
  <2> QED BY <2>1, ThoseAreListed
<1>2. \A i \in P : urls[i] \in Page /\ UrlAllowed(urls[i])
  OBVIOUS
<1> HIDE DEF P, those
<1>3. those \in Seq({u \in Page : UrlAllowed(u)})
  BY <1>1, <1>2
<1> QED BY <1>3 DEF WantedOnly, those, P

LEMMA SameHostAndOthers ==
    ASSUME NEW T, NEW urls \in Seq(T), NEW t
    PROVE  SameHostOnly(urls, t) \in Seq(T) /\ OthersOnly(urls, t) \in Seq(T)
<1> DEFINE P == {i \in DOMAIN urls : SiteOf[urls[i]] = SiteOf[t.url]}
           Q == {i \in DOMAIN urls : urls[i] # t.url}
<1>1. P \subseteq DOMAIN urls /\ Q \subseteq DOMAIN urls
  OBVIOUS
<1> HIDE DEF P, Q
<1>2. Those(urls, P) \in Seq(T) /\ Those(urls, Q) \in Seq(T)
  BY <1>1, ThoseAreListed
<1> QED BY <1>2 DEF SameHostOnly, OthersOnly, P, Q

(***************************************************************************)
(* What a task leads to.                                                   *)
(***************************************************************************)
\* An entry of a collection, and what is found at an allowed URL, are fitting.
LEMMA EntriesFit ==
    ASSUME request \in Limits, NEW url \in Page
    PROVE  Entries(url) \subseteq Fitting
<1>1. request.maxDepth \in Nat /\ IndexLimit \in Nat
  BY CrawlAssumption DEF IndexLimit
<1>2. SiteOf[url] \in Host
  BY CrawlAssumption
<1> DEFINE robots == [Entry(SiteOf[url]) EXCEPT !.source = "site_discovery", !.kind = "robots", !.target = "dedicated"]
<1> DEFINE pages == {Entry(url), [Entry(url) EXCEPT !.contour = TRUE], [Entry(url) EXCEPT !.onMap = TRUE],
                     [Entry(url) EXCEPT !.archive = TRUE]}
<1>3. pages \subseteq Fitting
  <2> SUFFICES ASSUME NEW e \in pages PROVE e \in Fitting
    OBVIOUS
  <2>1. /\ Entry(url) \in Tasks /\ [Entry(url) EXCEPT !.contour = TRUE] \in Tasks
        /\ [Entry(url) EXCEPT !.onMap = TRUE] \in Tasks /\ [Entry(url) EXCEPT !.archive = TRUE] \in Tasks
    BY DEF Entry, Tasks, Sources
  <2>2. e.kind = "get" /\ e.source = "generic_web" /\ e.url = url /\ e.root = url /\ e.depth = 0 /\ e.index = 0
    BY DEF Entry
  <2>3. e \in Tasks
    BY <2>1
  <2> HIDE DEF pages
  <2> QED BY <1>1, <2>2, <2>3 DEF Fitting
<1>4. robots \in Fitting
  <2>1. robots \in Tasks
    BY <1>2 DEF Entry, Tasks, Sources
  <2>2. /\ robots.kind = "robots" /\ robots.source = "site_discovery" /\ robots.url = SiteOf[url]
        /\ robots.depth = 0 /\ robots.index = 0 /\ robots.target = "dedicated"
    BY DEF Entry
  <2> HIDE DEF robots
  <2> QED BY <1>1, <1>2, <2>1, <2>2 DEF Fitting
<1> QED BY <1>3, <1>4 DEF Entries

\* The task of a page that gives rise to others.
Expands(t) == t \in Fitting /\ t.source = "generic_web"

LEMMA FeedTasksFit ==
    ASSUME request \in Limits, NEW t, Expands(t), NEW final \in Page,
           NEW feed \in {"rss_atom", "json_feed"}
    PROVE  FeedTasks(t, final, feed) \in Seq(Ordinary)
<1> DEFINE urls == AllowedOnly(FeedsOf[final][feed], final)
           U == {u \in Page : UrlAllowed(u)}
           Make(u) == [Child(t, u) EXCEPT !.source = feed, !.depth = t.depth]
<1>1. urls \in Seq(U)
  BY AllowedAreListed, CrawlAssumption
<1>2. request.maxDepth \in Nat /\ IndexLimit \in Nat
  BY CrawlAssumption DEF IndexLimit
<1>3. ASSUME NEW u \in U PROVE Make(u) \in Ordinary
  <2> DEFINE c == Make(u)
  <2>1. t \in Tasks /\ t.depth <= request.maxDepth
    BY DEF Expands, Fitting
  <2>2. c \in Tasks
    BY <2>1 DEF Child, Entry, Tasks, Sources
  <2>3. c.kind = "get" /\ c.source = feed /\ c.url = u /\ c.depth = t.depth /\ c.index = 0 /\ ~c.contour
    BY DEF Child, Entry
  <2> HIDE DEF c
  <2>4. c \in Ordinary
    BY <1>2, <2>1, <2>2, <2>3 DEF Fitting, Offered, Ordinary
  <2> QED BY <2>4 DEF c
<1> HIDE DEF U, urls, Make
<1>4. [i \in DOMAIN urls |-> Make(urls[i])] \in Seq(Ordinary)
  <2> DEFINE made == [i \in DOMAIN urls |-> Make(urls[i])]
  <2>1. DOMAIN urls = 1 .. Len(urls) /\ Len(urls) \in Nat /\ \A i \in DOMAIN urls : urls[i] \in U
    BY <1>1
  <2>2. \A i \in 1 .. Len(urls) : made[i] \in Ordinary
    BY <1>3, <2>1
  <2>3. made \in [1 .. Len(urls) -> Ordinary]
    BY <2>1, <2>2
  <2> HIDE DEF made
  <2>4. made \in Seq(Ordinary)
    BY <2>1, <2>3, ListOf
  <2> QED BY <2>4 DEF made
<1> QED BY <1>4 DEF FeedTasks, TasksOf, Make, urls

LEMMA LinkTasksFit ==
    ASSUME request \in Limits, NEW t, Expands(t), NEW final \in Page
    PROVE  LinkTasks(t, final) \in Seq(Ordinary)
<1> DEFINE U == {u \in Page : UrlAllowed(u)}
           urls == Upto(MaxLinks, RankedLinks(AllowedOnly(LinksOf[final], final)))
           Make(u) == [Child(t, u) EXCEPT !.depth = t.depth + 1]
<1>1. urls \in Seq(U)
  BY AllowedAreListed, RankedAreListed, UptoIsListed, CrawlAssumption
<1>2. request.maxDepth \in Nat /\ IndexLimit \in Nat
  BY CrawlAssumption DEF IndexLimit
<1>3. ASSUME NEW u \in U, ~(t.depth >= request.maxDepth) PROVE Make(u) \in Ordinary
  <2> DEFINE c == Make(u)
  <2>1. t \in Tasks /\ t.depth \in Nat /\ t.depth + 1 \in Nat /\ t.root \in Page \cup Host
        /\ t.depth + 1 <= request.maxDepth /\ UrlAllowed(u) /\ u \in Page
    <3>1. t \in Tasks
      BY DEF Expands, Fitting
    <3>2. t.depth \in Nat /\ t.root \in Page \cup Host
      BY <3>1, TaskParts
    <3>3. u \in Page /\ UrlAllowed(u)
      OBVIOUS
    <3>4. t.depth + 1 \in Nat /\ t.depth + 1 <= request.maxDepth
      BY <1>2, <1>3, <3>2
    <3> QED BY <3>1, <3>2, <3>3, <3>4
  <2>2. c \in Tasks
    BY <2>1 DEF Child, Entry, Tasks, Sources
  <2>3. /\ c.kind = "get" /\ c.source = "generic_web" /\ c.url = u /\ c.depth = t.depth + 1
        /\ c.index = 0 /\ ~c.contour
    BY DEF Child, Entry
  <2> HIDE DEF c
  <2>4. c \in Ordinary
    BY <1>2, <2>1, <2>2, <2>3 DEF Fitting, Offered, Ordinary
  <2> QED BY <2>4 DEF c
<1> HIDE DEF U, urls, Make
<1>4. ~(t.depth >= request.maxDepth) => [i \in DOMAIN urls |-> Make(urls[i])] \in Seq(Ordinary)
  <2> SUFFICES ASSUME ~(t.depth >= request.maxDepth) PROVE [i \in DOMAIN urls |-> Make(urls[i])] \in Seq(Ordinary)
    OBVIOUS
  <2> DEFINE made == [i \in DOMAIN urls |-> Make(urls[i])]
  <2>1. DOMAIN urls = 1 .. Len(urls) /\ Len(urls) \in Nat /\ \A i \in DOMAIN urls : urls[i] \in U
    BY <1>1
  <2>2. \A i \in 1 .. Len(urls) : made[i] \in Ordinary
    BY <1>3, <2>1
  <2>3. made \in [1 .. Len(urls) -> Ordinary]
    BY <2>1, <2>2
  <2> HIDE DEF made
  <2>4. made \in Seq(Ordinary)
    BY <2>1, <2>3, ListOf
  <2> QED BY <2>4 DEF made
<1> QED BY <1>4 DEF LinkTasks, TasksOf, Make, urls

LEMMA SiteTaskFits ==
    ASSUME request \in Limits, NEW t, Expands(t), NEW final \in Page
    PROVE  SiteDiscoveryTask(t, final) \in Seq(Ordinary)
<1> DEFINE c == [Child(t, SiteOf[final]) EXCEPT !.source = "site_discovery", !.kind = "robots",
                                                !.depth = t.depth, !.root = t.root]
<1>1. request.maxDepth \in Nat /\ IndexLimit \in Nat /\ SiteOf[final] \in Host
  BY CrawlAssumption DEF IndexLimit
<1>2. ~(t.depth >= request.maxDepth) => c \in Ordinary
  <2>1. t \in Tasks /\ t.depth \in Nat
    BY DEF Expands, Fitting, Tasks
  <2>2. c \in Tasks
    BY <1>1, <2>1 DEF Child, Entry, Tasks, Sources
  <2>3. /\ c.kind = "robots" /\ c.source = "site_discovery" /\ c.url = SiteOf[final] /\ c.depth = t.depth
        /\ c.index = 0 /\ ~c.contour
    BY DEF Child, Entry
  <2> HIDE DEF c
  <2> QED BY <1>1, <2>1, <2>2, <2>3 DEF Fitting, Offered, Ordinary
<1> HIDE DEF c
<1>3. ~(t.depth >= request.maxDepth) => <<c>> \in Seq(Ordinary)
  BY <1>2
<1> QED BY <1>3 DEF SiteDiscoveryTask, c

LEMMA PageTasksFit ==
    ASSUME request \in Limits, NEW t, Expands(t), NEW final \in Page
    PROVE  PageTasks(t, final) \in Seq(Ordinary)
<1>1. FeedTasks(t, final, "rss_atom") \in Seq(Ordinary) /\ FeedTasks(t, final, "json_feed") \in Seq(Ordinary)
  BY FeedTasksFit
<1>2. LinkTasks(t, final) \in Seq(Ordinary) /\ SiteDiscoveryTask(t, final) \in Seq(Ordinary)
  BY LinkTasksFit, SiteTaskFits
<1> QED BY <1>1, <1>2 DEF PageTasks

\* An entry of a contour leads to one page, and this one to nothing.
LEMMA FollowUpFits ==
    ASSUME NEW t, Expands(t), NEW final, NEW children \in Seq(Ordinary)
    PROVE  /\ FollowUp(t, final, children) \in Seq(Offered)
           /\ ~t.contour => FollowUp(t, final, children) \in Seq(Ordinary)
           /\ t.contour /\ t.depth = 0 => /\ FollowUp(t, final, children) \in Seq(Leaves)
                                          /\ Len(FollowUp(t, final, children)) <= 1
<1> DEFINE items  == {i \in DOMAIN children : children[i].source = t.source /\ children[i].url \in Item \ Shell}
           feeds  == {i \in DOMAIN children : children[i].source \in {"rss_atom", "json_feed"}}
           G == {c \in Offered : c.kind = "get"}
           one == Those(children, items)
           other == Those(children, feeds)
           chosen == Upto(1, one \o other)
           leaves == [i \in DOMAIN chosen |-> [chosen[i] EXCEPT !.terminal = TRUE]]
<1>1. items \subseteq DOMAIN children /\ feeds \subseteq DOMAIN children
  OBVIOUS
<1>2. \A i \in items \cup feeds : children[i] \in G
  BY DEF Ordinary, Offered, Fitting, Expands
<1> HIDE DEF items, feeds, G
<1>3. one \in Seq(G) /\ other \in Seq(G)
  <2>1. /\ one \in Seq(Ordinary) /\ \A k \in DOMAIN one : \E i \in items : one[k] = children[i]
        /\ other \in Seq(Ordinary) /\ \A k \in DOMAIN other : \E i \in feeds : other[k] = children[i]
    BY <1>1, ThoseAreListed
  <2>2. \A k \in DOMAIN one : one[k] \in G
    BY <1>2, <2>1
  <2>3. \A k \in DOMAIN other : other[k] \in G
    BY <1>2, <2>1
  <2> HIDE DEF one, other
  <2> QED BY <2>1, <2>2, <2>3
<1>4. one \o other \in Seq(G)
  <2> HIDE DEF one, other
  <2> QED BY <1>3
<1> HIDE DEF one, other
<1>5. chosen \in Seq(G) /\ Len(chosen) <= 1
  <2> DEFINE both == one \o other
  <2>1. both \in Seq(G) /\ 1 \in Nat
    BY <1>4
  <2> HIDE DEF both
  <2>2. Upto(1, both) \in Seq(G) /\ Len(Upto(1, both)) <= 1
    BY <2>1, UptoIsListed
  <2> QED BY <2>2 DEF both
<1>6. \A c \in G : [c EXCEPT !.terminal = TRUE] \in Leaves
  BY DEF G, Leaves, Offered, Fitting, Tasks
<1> HIDE DEF chosen
<1>7. leaves \in Seq(Leaves) /\ Len(leaves) <= 1
  BY <1>5, <1>6
<1>8. <<>> \in Seq(Leaves) /\ Len(<<>>) <= 1 /\ Leaves \subseteq Offered /\ Ordinary \subseteq Offered
  BY DEF Leaves, Ordinary
<1> DEFINE all == FollowUp(t, final, children)
<1>9. /\ ~t.contour \/ t.depth # 0 => all = children
      /\ t.contour /\ t.depth = 0 => all \in Seq(Leaves) /\ Len(all) <= 1
  BY <1>7, <1>8 DEF FollowUp, chosen, one, other, items, feeds
<1>10. children \in Seq(Offered) /\ \A s \in Seq(Leaves) : s \in Seq(Offered)
  BY <1>8
<1> QED BY <1>9, <1>10

\* Renamed tasks stay in any set that is closed under renaming.
Renames(T) == \A c \in T : c.kind = "get" /\ Canonical[c.url] # NoUrl => [c EXCEPT !.url = Canonical[c.url]] \in T

LEMMA CanonicalTasksStay ==
    ASSUME NEW T, Renames(T), NEW children \in Seq(T)
    PROVE  CanonicalTasks(children) \in Seq(T) /\ Len(CanonicalTasks(children)) <= Len(children)
<1> DEFINE fits  == {i \in DOMAIN children : children[i].kind # "get" \/ Canonical[children[i].url] # NoUrl}
           named == Those(children, fits)
           moved == [i \in DOMAIN named |->
                       IF named[i].kind = "get" THEN [named[i] EXCEPT !.url = Canonical[@]] ELSE named[i]]
           first == {i \in DOMAIN moved : \A j \in 1 .. i - 1 : DedupeKey(moved[j]) # DedupeKey(moved[i])}
<1>1. fits \subseteq DOMAIN children
  OBVIOUS
<1>2. \A i \in fits : children[i].kind = "get" => Canonical[children[i].url] # NoUrl
  OBVIOUS
<1> HIDE DEF fits
<1>3. /\ named \in Seq(T) /\ Len(named) <= Len(children)
      /\ \A k \in DOMAIN named : \E i \in fits : named[k] = children[i]
  BY <1>1, ThoseAreListed
<1> HIDE DEF named
<1>4. \A k \in DOMAIN named : named[k] \in T /\ (named[k].kind = "get" => Canonical[named[k].url] # NoUrl)
  BY <1>2, <1>3
<1>5. \A k \in DOMAIN named : moved[k] \in T
  BY <1>4 DEF Renames
<1>6. moved \in Seq(T) /\ Len(moved) = Len(named)
  <2>1. DOMAIN named = 1 .. Len(named) /\ Len(named) \in Nat
    BY <1>3
  <2>2. moved \in [1 .. Len(named) -> T]
    BY <1>5, <2>1
  <2> HIDE DEF moved
  <2> QED BY <2>1, <2>2, ListOf
<1> HIDE DEF moved
<1>7. first \subseteq DOMAIN moved
  OBVIOUS
<1> HIDE DEF first
<1>8. Those(moved, first) \in Seq(T) /\ Len(Those(moved, first)) <= Len(moved)
  BY <1>6, <1>7, ThoseAreListed
<1>9. Len(moved) \in Nat /\ Len(named) \in Nat /\ Len(children) \in Nat /\ Len(Those(moved, first)) \in Nat
  BY <1>3, <1>6, <1>8
<1>10. CanonicalTasks(children) = Those(moved, first)
  BY DEF CanonicalTasks, first, moved, named, fits
<1> QED BY <1>3, <1>6, <1>8, <1>9, <1>10

\* A page keeps its host under its canonical address.
LEMMA RenamedIsOffered ==
    ASSUME NEW c \in Offered, c.kind = "get", Canonical[c.url] # NoUrl
    PROVE  /\ [c EXCEPT !.url = Canonical[c.url]] \in Offered
           /\ [c EXCEPT !.url = Canonical[c.url]].kind = "get"
           /\ [c EXCEPT !.url = Canonical[c.url]].contour <=> c.contour
           /\ [c EXCEPT !.url = Canonical[c.url]].terminal <=> c.terminal
<1> DEFINE d == [c EXCEPT !.url = Canonical[c.url]]
<1>1. c \in Tasks /\ c.url \in Page /\ UrlAllowed(c.url)
  BY DEF Offered, Fitting
<1>2. Canonical[c.url] \in Page /\ SiteOf[Canonical[c.url]] = SiteOf[c.url]
  BY <1>1, CrawlAssumption
<1>3. d \in Tasks
  BY <1>1, <1>2 DEF Tasks
<1>4. /\ d.kind = "get" /\ d.source = c.source /\ d.url = Canonical[c.url] /\ d.root = c.root
      /\ d.depth = c.depth /\ d.index = c.index
  BY <1>1 DEF Tasks
<1>5. (d.contour <=> c.contour) /\ (d.terminal <=> c.terminal)
  BY <1>1 DEF Tasks
<1> HIDE DEF d
<1>6. UrlAllowed(d.url) /\ d.url \in Page
  BY <1>1, <1>2, <1>4 DEF UrlAllowed
<1>7. d \in Offered
  BY <1>3, <1>4, <1>6 DEF Offered, Fitting
<1> QED BY <1>4, <1>5, <1>7 DEF d

LEMMA OfferedAreRenamed == Renames(Offered) /\ Renames(Ordinary) /\ Renames(Leaves)
BY RenamedIsOffered DEF Renames, Ordinary, Leaves

\* Tasks that are put on a map stay in any set that is closed under it.
GoesOnMap(T) == \A c \in T : [c EXCEPT !.onMap = TRUE] \in T

LEMMA MapTasksStay ==
    ASSUME NEW T, GoesOnMap(T), NEW children \in Seq(T), NEW t, NEW final
    PROVE  MapTasks(t, final, children) \in Seq(T) /\ (children = <<>> => MapTasks(t, final, children) = <<>>)
<1> DEFINE same     == {i \in DOMAIN children : MapOf[children[i].url] = MapOf[final]}
           entities == {i \in same : children[i].url \in Item}
           one      == Those(children, entities)
           other    == Those(children, same \ entities)
           both     == one \o other
           put      == [i \in DOMAIN both |-> [both[i] EXCEPT !.onMap = TRUE]]
<1>1. entities \subseteq DOMAIN children /\ same \ entities \subseteq DOMAIN children
  OBVIOUS
<1> HIDE DEF entities, same
<1>2. one \in Seq(T) /\ other \in Seq(T) /\ Len(one) <= Len(children) /\ Len(other) <= Len(children)
  BY <1>1, ThoseAreListed
<1> HIDE DEF one, other
<1>3. both \in Seq(T) /\ Len(both) = Len(one) + Len(other)
  BY <1>2
<1> HIDE DEF both
<1>4. \A c \in T : [c EXCEPT !.onMap = TRUE] \in T
  BY DEF GoesOnMap
<1>5. put \in Seq(T) /\ Len(put) = Len(both)
  <2>1. DOMAIN both = 1 .. Len(both) /\ Len(both) \in Nat
    BY <1>3
  <2>2. put \in [1 .. Len(both) -> T]
    BY <1>3, <1>4, <2>1
  <2> HIDE DEF put
  <2> QED BY <2>1, <2>2, ListOf
<1> HIDE DEF put
<1>6. Upto(MapChildren, put) \in Seq(T) /\ Len(Upto(MapChildren, put)) <= Len(put) /\ <<>> \in Seq(T)
  BY <1>5, UptoIsListed, CrawlAssumption
<1> DEFINE few == Upto(MapChildren, put)
<1>7. children = <<>> => few = <<>>
  <2> SUFFICES ASSUME children = <<>> PROVE few = <<>>
    OBVIOUS
  <2>1. Len(one) \in Nat /\ Len(other) \in Nat /\ Len(few) \in Nat /\ Len(children) = 0
    BY <1>2, <1>6
  <2>2. Len(few) = 0
    BY <1>2, <1>3, <1>5, <1>6, <2>1
  <2> HIDE DEF few
  <2>3. few \in Seq(T)
    BY <1>6 DEF few
  <2> QED BY <2>2, <2>3
<1> HIDE DEF few
<1>8. MapTasks(t, final, children) = IF ~t.onMap THEN children ELSE IF MapOf[final] = NoMap THEN <<>> ELSE few
  BY DEF MapTasks, TasksOf, few, put, both, one, other, same, entities
<1> QED BY <1>6, <1>7, <1>8 DEF few

LEMMA OfferedGoOnMap == GoesOnMap(Offered) /\ GoesOnMap(Ordinary)
<1>1. ASSUME NEW c \in Offered
      PROVE  [c EXCEPT !.onMap = TRUE] \in Offered /\ ([c EXCEPT !.onMap = TRUE].contour <=> c.contour)
  <2> DEFINE d == [c EXCEPT !.onMap = TRUE]
  <2>1. c \in Tasks
    BY DEF Offered, Fitting
  <2>2. d \in Tasks
    BY <2>1 DEF Tasks
  <2>3. /\ d.kind = c.kind /\ d.source = c.source /\ d.url = c.url /\ d.root = c.root /\ d.target = c.target
        /\ d.depth = c.depth /\ d.index = c.index /\ (d.contour <=> c.contour)
    BY <2>1 DEF Tasks
  <2> HIDE DEF d
  <2>4. d \in Offered
    BY <2>2, <2>3 DEF Offered, Fitting
  <2> QED BY <2>3, <2>4 DEF d
<1> QED BY <1>1 DEF GoesOnMap, Ordinary

\* What belongs to a contour is of the same kind as before.
LEMMA ContourStays ==
    ASSUME NEW c \in Offered, NEW b \in BOOLEAN
    PROVE  /\ [c EXCEPT !.contour = b \/ @] \in Offered
           /\ [c EXCEPT !.contour = b \/ @].kind = c.kind
           /\ [c EXCEPT !.contour = b \/ @].terminal <=> c.terminal
           /\ [c EXCEPT !.contour = b \/ @].contour <=> b \/ c.contour
<1> DEFINE d == [c EXCEPT !.contour = b \/ @]
<1>1. c \in Tasks
  BY DEF Offered, Fitting
<1>2. d \in Tasks
  BY <1>1 DEF Tasks
<1>3. /\ d.kind = c.kind /\ d.source = c.source /\ d.url = c.url /\ d.root = c.root /\ d.target = c.target
      /\ d.depth = c.depth /\ d.index = c.index
  BY <1>1 DEF Tasks
<1>4. (d.terminal <=> c.terminal) /\ (d.contour <=> b \/ c.contour)
  BY <1>1 DEF Tasks
<1> HIDE DEF d
<1>5. d \in Offered
  BY <1>2, <1>3 DEF Offered, Fitting
<1> QED BY <1>3, <1>4, <1>5 DEF d

(***************************************************************************)
(* Where a page leads: inside of the request, to what is in no contour if  *)
(* the page is in none, and behind an entry of a contour to one page that  *)
(* leads to nothing.                                                       *)
(***************************************************************************)
LEMMA DiscoveredAreOffered ==
    ASSUME request \in Limits, NEW t, Expands(t), NEW final \in Page
    PROVE  LET found == DiscoveredTasks(t, final)
           IN  /\ found \in Seq(Offered)
               /\ ~t.contour => found \in Seq(Ordinary)
               /\ t.contour /\ t.depth = 0 /\ ~t.onMap => found \in Seq(Leaves) /\ Len(found) <= 1
               /\ t.terminal => found = <<>>
<1> DEFINE children == NavigationTasks(t, final)
           named    == CanonicalTasks(children)
           kept     == MapTasks(t, final, named)
           found    == DiscoveredTasks(t, final)
<1>t. t \in Tasks /\ t.contour \in BOOLEAN /\ t.onMap \in BOOLEAN /\ t.terminal \in BOOLEAN
  BY TaskParts DEF Expands, Fitting
<1>s. /\ Ordinary \subseteq Offered /\ Leaves \subseteq Offered
      /\ \A S \in {Offered, Ordinary, Leaves} : S \subseteq Offered /\ Renames(S)
  BY OfferedAreRenamed DEF Ordinary, Leaves
<1>1. /\ children \in Seq(Offered)
      /\ ~t.contour => children \in Seq(Ordinary)
      /\ t.contour /\ t.depth = 0 => children \in Seq(Leaves) /\ Len(children) <= 1
      /\ t.terminal => children = <<>>
  <2>1. PageTasks(t, final) \in Seq(Ordinary)
    BY PageTasksFit
  <2>2. \A S : <<>> \in Seq(S) /\ Len(<<>>) <= 1
    OBVIOUS
  <2> QED BY <1>t, <2>1, <2>2, FollowUpFits DEF NavigationTasks
<1> HIDE DEF children
<1>2. /\ named \in Seq(Offered)
      /\ ~t.contour => named \in Seq(Ordinary)
      /\ t.contour /\ t.depth = 0 => named \in Seq(Leaves) /\ Len(named) <= 1
      /\ t.terminal => named = <<>>
  <2>1. named \in Seq(Offered) /\ Len(named) <= Len(children) /\ Len(children) \in Nat /\ Len(named) \in Nat
    BY <1>1, <1>s, CanonicalTasksStay
  <2>2. ~t.contour => named \in Seq(Ordinary)
    BY <1>1, <1>s, CanonicalTasksStay
  <2>3. t.contour /\ t.depth = 0 => named \in Seq(Leaves) /\ Len(named) <= 1
    <3>1. t.contour /\ t.depth = 0 => named \in Seq(Leaves)
      BY <1>1, <1>s, CanonicalTasksStay
    <3> QED BY <1>1, <2>1, <3>1
  <2>4. t.terminal => named = <<>>
    <3>1. t.terminal => Len(children) = 0
      BY <1>1
    <3>2. t.terminal => Len(named) = 0
      BY <2>1, <3>1
    <3> HIDE DEF named
    <3> QED BY <2>1, <3>2
  <2> QED BY <2>1, <2>2, <2>3, <2>4
<1> HIDE DEF named
<1>3. /\ kept \in Seq(Offered)
      /\ ~t.contour => kept \in Seq(Ordinary)
      /\ ~t.onMap => kept = named
      /\ t.terminal => kept = <<>>
  <2>1. kept \in Seq(Offered)
    BY <1>2, OfferedGoOnMap, MapTasksStay
  <2>2. ~t.contour => kept \in Seq(Ordinary)
    BY <1>2, OfferedGoOnMap, MapTasksStay
  <2>3. ~t.onMap => kept = named
    BY DEF MapTasks
  <2>5. t.terminal => kept = <<>>
    BY <1>2, MapTasksStay, OfferedGoOnMap
  <2> QED BY <2>1, <2>2, <2>3, <2>5
<1> HIDE DEF kept
<1>4. found = [i \in DOMAIN kept |-> [kept[i] EXCEPT !.contour = t.contour \/ @]]
  BY DEF DiscoveredTasks, kept, named, children
<1> HIDE DEF found
<1>5. DOMAIN kept = 1 .. Len(kept) /\ Len(kept) \in Nat /\ \A i \in DOMAIN kept : kept[i] \in Offered
  BY <1>3
<1>6. \A i \in 1 .. Len(kept) :
        /\ found[i] \in Offered /\ found[i].kind = kept[i].kind /\ (found[i].terminal <=> kept[i].terminal)
        /\ found[i].contour <=> t.contour \/ kept[i].contour
  <2> TAKE i \in 1 .. Len(kept)
  <2>1. kept[i] \in Offered /\ found[i] = [kept[i] EXCEPT !.contour = t.contour \/ @]
    BY <1>4, <1>5
  <2> QED BY <1>t, <2>1, ContourStays
<1>7. found \in Seq(Offered) /\ Len(found) = Len(kept) /\ DOMAIN found = 1 .. Len(kept)
  <2>1. found \in [1 .. Len(kept) -> Offered]
    BY <1>4, <1>5, <1>6
  <2> QED BY <1>5, <2>1, ListOf
<1>8. ~t.contour => found \in Seq(Ordinary)
  <2> SUFFICES ASSUME ~t.contour PROVE found \in Seq(Ordinary)
    OBVIOUS
  <2>1. \A i \in 1 .. Len(kept) : kept[i] \in Ordinary
    BY <1>3, <1>5
  <2>2. \A i \in 1 .. Len(kept) : found[i] \in Ordinary
    BY <1>6, <2>1 DEF Ordinary
  <2>3. found \in [1 .. Len(kept) -> Ordinary]
    BY <1>7, <2>2
  <2> QED BY <1>5, <2>3, ListOf
<1>9. t.contour /\ t.depth = 0 /\ ~t.onMap => found \in Seq(Leaves) /\ Len(found) <= 1
  <2> SUFFICES ASSUME t.contour, t.depth = 0, ~t.onMap PROVE found \in Seq(Leaves) /\ Len(found) <= 1
    OBVIOUS
  <2>1. Len(kept) <= 1 /\ \A i \in 1 .. Len(kept) : kept[i] \in Leaves
    BY <1>2, <1>3, <1>5
  <2>2. \A i \in 1 .. Len(kept) : found[i] \in Leaves
    BY <1>6, <2>1 DEF Leaves
  <2>3. found \in [1 .. Len(kept) -> Leaves]
    BY <1>7, <2>2
  <2> QED BY <1>5, <1>7, <2>1, <2>3, ListOf
<1>10. t.terminal => found = <<>>
  <2>1. t.terminal => Len(found) = 0
    BY <1>3, <1>7
  <2> QED BY <1>7, <2>1
<1> QED BY <1>7, <1>8, <1>9, <1>10 DEF found

\* The same of robots.txt and of sitemaps, which no entry of a contour leads to.
Free == {t \in Fitting : ~t.contour}

LEMMA RobotsTasksFit ==
    ASSUME request \in Limits, NEW t \in Fitting, t.kind = "robots"
    PROVE  RobotsTasks(t) \in Seq(Fitting) /\ (~t.contour => RobotsTasks(t) \in Seq(Free))
<1> DEFINE urls == Upto(MaxIndexes, SameHostOnly(SitemapsOf[t.url], t))
           Make(u) == [t EXCEPT !.kind = "sitemap", !.url = u, !.index = 0]
           made == [i \in DOMAIN urls |-> Make(urls[i])]
           S == {c \in Fitting : c.contour => t.contour}
<1>0. t \in Tasks /\ t.url \in Host /\ t.source = "site_discovery"
  BY DEF Fitting
<1>1. urls \in Seq(Sitemap)
  <2>1. SitemapsOf[t.url] \in Seq(Sitemap) /\ MaxIndexes \in Nat
    BY <1>0, CrawlAssumption
  <2> QED BY <2>1, SameHostAndOthers, UptoIsListed
<1>2. IndexLimit \in Nat
  BY CrawlAssumption DEF IndexLimit
<1>3. ASSUME NEW u \in Sitemap PROVE Make(u) \in S
  <2> DEFINE c == Make(u)
  <2>1. c \in Tasks
    BY <1>0 DEF Tasks
  <2>2. /\ c.kind = "sitemap" /\ c.source = t.source /\ c.url = u /\ c.depth = t.depth /\ c.target = t.target
        /\ c.index = 0 /\ (c.contour <=> t.contour)
    BY <1>0 DEF Tasks
  <2> HIDE DEF c
  <2>3. c \in S
    BY <1>0, <1>2, <2>1, <2>2 DEF Fitting
  <2> QED BY <2>3 DEF c
<1> HIDE DEF S, urls, Make
<1>4. made \in Seq(S)
  <2>1. DOMAIN urls = 1 .. Len(urls) /\ Len(urls) \in Nat /\ \A i \in DOMAIN urls : urls[i] \in Sitemap
    BY <1>1
  <2>2. made \in [1 .. Len(urls) -> S]
    BY <1>3, <2>1
  <2> HIDE DEF made
  <2> QED BY <2>1, <2>2, ListOf
<1>5. made = RobotsTasks(t)
  BY DEF RobotsTasks, TasksOf, Make, urls
<1>6. S \subseteq Fitting /\ (~t.contour => S \subseteq Free)
  BY DEF S, Free
<1> HIDE DEF made
<1> QED BY <1>4, <1>5, <1>6

LEMMA IndexTasksFit ==
    ASSUME request \in Limits, NEW t \in Fitting, t.kind = "sitemap", BodyOf[t.url].index
    PROVE  IndexTasks(t) \in Seq({c \in Fitting : c.contour => t.contour})
<1> DEFINE urls == Upto(MaxIndexes, OthersOnly(SameHostOnly(BodyOf[t.url].locs, t), t))
           Make(u) == [t EXCEPT !.url = u, !.index = t.index + 1]
           made == [i \in DOMAIN urls |-> Make(urls[i])]
           S == {c \in Fitting : c.contour => t.contour}
<1>0. t \in Tasks /\ t.url \in Sitemap /\ t.source = "site_discovery" /\ t.index \in Nat
  BY TaskParts DEF Fitting
<1>1. urls \in Seq(Sitemap)
  <2>1. BodyOf[t.url].locs \in Seq(Sitemap) /\ MaxIndexes \in Nat
    BY <1>0, CrawlAssumption
  <2> QED BY <2>1, SameHostAndOthers, UptoIsListed
<1>2. IndexLimit \in Nat
  BY CrawlAssumption DEF IndexLimit
<1>3. ASSUME NEW u \in Sitemap, ~(t.index >= IndexLimit) PROVE Make(u) \in S
  <2> DEFINE c == Make(u)
  <2>1. c \in Tasks
    <3>1. t.index + 1 \in Nat
      BY <1>0
    <3> QED BY <1>0, <3>1 DEF Tasks
  <2>2. /\ c.kind = "sitemap" /\ c.source = t.source /\ c.url = u /\ c.depth = t.depth /\ c.target = t.target
        /\ c.index = t.index + 1 /\ (c.contour <=> t.contour)
    BY <1>0 DEF Tasks
  <2> HIDE DEF c
  <2>3. c.index <= IndexLimit
    BY <1>0, <1>2, <1>3, <2>2
  <2>4. c \in S
    BY <1>0, <2>1, <2>2, <2>3 DEF Fitting
  <2> QED BY <2>4 DEF c
<1> HIDE DEF S, urls, Make
<1>4. ~(t.index >= IndexLimit) => made \in Seq(S)
  <2> SUFFICES ASSUME ~(t.index >= IndexLimit) PROVE made \in Seq(S)
    OBVIOUS
  <2>1. DOMAIN urls = 1 .. Len(urls) /\ Len(urls) \in Nat /\ \A i \in DOMAIN urls : urls[i] \in Sitemap
    BY <1>1
  <2>2. made \in [1 .. Len(urls) -> S]
    BY <1>3, <2>1
  <2> HIDE DEF made
  <2> QED BY <2>1, <2>2, ListOf
<1>5. IndexTasks(t) = IF t.index >= IndexLimit THEN <<>> ELSE made
  BY DEF IndexTasks, TasksOf, Make, urls
<1> HIDE DEF made
<1>6. IndexTasks(t) \in Seq(S)
  BY <1>4, <1>5
<1> QED BY <1>6 DEF S

LEMMA UrlsetTasksFit ==
    ASSUME request \in Limits, NEW t \in Fitting, t.kind = "sitemap", ~BodyOf[t.url].index
    PROVE  UrlsetTasks(t) \in Seq(Ordinary)
<1> DEFINE U == {u \in Page : UrlAllowed(u)}
           urls == Upto(MaxUrls, RankedLinks(WantedOnly(SameHostOnly(BodyOf[t.url].locs, t))))
           Make(u) == [Child(t, u) EXCEPT !.source = t.target, !.depth = t.depth + 1, !.noSite = TRUE,
                                          !.target = t.target]
           made == [i \in DOMAIN urls |-> Make(urls[i])]
<1>0. t \in Tasks /\ t.url \in Sitemap
  BY DEF Fitting
<1>d. /\ t.depth \in Nat /\ t.root \in Page \cup Host /\ t.target \in {"generic_web", "dedicated"}
      /\ t.depth < request.maxDepth \/ (t.target = "dedicated" /\ t.depth = 0)
  BY <1>0, TaskParts DEF Fitting
<1>1. urls \in Seq(U)
  <2>1. BodyOf[t.url].locs \in Seq(Page) /\ MaxUrls \in Nat
    BY <1>0, CrawlAssumption
  <2>2. SameHostOnly(BodyOf[t.url].locs, t) \in Seq(Page)
    BY <2>1, SameHostAndOthers
  <2> QED BY <2>1, <2>2, WantedAreListed, RankedAreListed, UptoIsListed
<1>2. request.maxDepth \in Nat /\ IndexLimit \in Nat
  BY CrawlAssumption DEF IndexLimit
<1>3. ASSUME NEW u \in U PROVE Make(u) \in Ordinary
  <2> DEFINE c == Make(u)
  <2>1. u \in Page /\ UrlAllowed(u)
    OBVIOUS
  <2>2. c \in Tasks
    <3>1. t.depth + 1 \in Nat /\ t.target \in Sources /\ u \in Page \cup Sitemap \cup Host
      BY <1>d, <2>1 DEF Sources
    <3> QED BY <1>d, <3>1 DEF Child, Entry, Tasks
  <2>3. /\ c.kind = "get" /\ c.source = t.target /\ c.url = u /\ c.depth = t.depth + 1 /\ c.target = t.target
        /\ c.index = 0 /\ ~c.contour
    BY DEF Child, Entry
  <2> HIDE DEF c
  <2>4. c.depth <= request.maxDepth \/ (c.source = "dedicated" /\ c.depth = 1)
    BY <1>2, <1>d, <2>3
  <2>5. c \in Ordinary
    BY <1>2, <1>d, <2>1, <2>2, <2>3, <2>4 DEF Fitting, Offered, Ordinary
  <2> QED BY <2>5 DEF c
<1> HIDE DEF U, urls, Make
<1>4. made \in Seq(Ordinary)
  <2>1. DOMAIN urls = 1 .. Len(urls) /\ Len(urls) \in Nat /\ \A i \in DOMAIN urls : urls[i] \in U
    BY <1>1
  <2>2. made \in [1 .. Len(urls) -> Ordinary]
    BY <1>3, <2>1
  <2> HIDE DEF made
  <2> QED BY <2>1, <2>2, ListOf
<1>5. made = UrlsetTasks(t)
  BY DEF UrlsetTasks, TasksOf, Make, urls
<1> QED BY <1>4, <1>5

LEMMA SitemapTasksFit ==
    ASSUME request \in Limits, NEW t \in Fitting, t.kind = "sitemap"
    PROVE  SitemapTasks(t) \in Seq(Fitting) /\ (~t.contour => SitemapTasks(t) \in Seq(Free))
<1> DEFINE S == {c \in Fitting : c.contour => t.contour}
<1>1. Ordinary \subseteq S
  BY DEF Ordinary, Offered
<1>2. S \subseteq Fitting /\ (~t.contour => S \subseteq Free)
  BY DEF Free
<1>3. BodyOf[t.url].index => IndexTasks(t) \in Seq(S)
  BY IndexTasksFit
<1> HIDE DEF S
<1>4. ~BodyOf[t.url].index => UrlsetTasks(t) \in Seq(S)
  BY <1>1, UrlsetTasksFit
<1>5. SitemapTasks(t) \in Seq(S)
  BY <1>3, <1>4 DEF SitemapTasks
<1> QED BY <1>2, <1>5

(***************************************************************************)
(* The queue: it holds no key twice and none that was fetched.            *)
(***************************************************************************)
Unseen(line, visited) ==
    /\ \A i \in DOMAIN line : DedupeKey(line[i]) \notin visited
    /\ \A i, j \in DOMAIN line : i < j => DedupeKey(line[i]) # DedupeKey(line[j])

\* Children go to its end.
LEMMA AppendedIsUnseen ==
    ASSUME NEW T, NEW line \in Seq(T), NEW children \in Seq(T), NEW visited, Unseen(line, visited)
    PROVE  LET longer == Appended(line, visited, children)
           IN  /\ longer \in Seq(T) /\ Unseen(longer, visited)
               /\ Len(longer) <= Len(line) + Len(children)
               /\ \A S : line \in Seq(S) /\ children \in Seq(S) => longer \in Seq(S)
<1> DEFINE known  == visited \cup {DedupeKey(line[i]) : i \in DOMAIN line}
           fresh  == {i \in DOMAIN children : /\ DedupeKey(children[i]) \notin known
                                              /\ \A j \in 1 .. i - 1 : DedupeKey(children[j]) # DedupeKey(children[i])}
           added  == Those(children, fresh)
           longer == line \o added
           n      == Len(line)
           m      == Len(added)
<1>0. Appended(line, visited, children) = longer
  BY DEF Appended
<1>1. fresh \subseteq DOMAIN children
  OBVIOUS
<1>2. \A i \in fresh : \A j \in fresh : i < j => DedupeKey(children[i]) # DedupeKey(children[j])
  OBVIOUS
<1>3. \A i \in fresh : DedupeKey(children[i]) \notin known
  OBVIOUS
<1>k. known = visited \cup {DedupeKey(line[i]) : i \in DOMAIN line}
  OBVIOUS
<1> HIDE DEF fresh, known
<1>4. /\ added \in Seq(T) /\ m <= Len(children)
      /\ \A k \in DOMAIN added : \E i \in fresh : added[k] = children[i]
      /\ \A k, l \in DOMAIN added : k < l => \E i, j \in fresh : i < j /\ added[k] = children[i] /\ added[l] = children[j]
  BY <1>1, ThoseAreListed
<1>S. ASSUME NEW S, line \in Seq(S), children \in Seq(S) PROVE longer \in Seq(S)
  <2>1. added \in Seq(S)
    BY <1>1, <1>S, ThoseAreListed
  <2> HIDE DEF added
  <2> QED BY <1>S, <2>1
<1> HIDE DEF added
<1>5. /\ n \in Nat /\ m \in Nat /\ DOMAIN line = 1 .. n /\ DOMAIN added = 1 .. m
  BY <1>4
<1>6. /\ longer \in Seq(T) /\ Len(longer) = n + m /\ DOMAIN longer = 1 .. n + m
  BY <1>4, <1>5
<1>7. /\ \A k \in 1 .. n : longer[k] = line[k]
      /\ \A k \in n + 1 .. n + m : longer[k] = added[k - n]
  BY <1>4, <1>5
<1> HIDE DEF n, m, longer
<1>8. \A k \in 1 .. m : DedupeKey(added[k]) \notin known
  BY <1>3, <1>4, <1>5
<1>9. ASSUME NEW k \in 1 .. m, NEW l \in 1 .. m, k < l PROVE DedupeKey(added[k]) # DedupeKey(added[l])
  <2>0. k \in DOMAIN added /\ l \in DOMAIN added
    BY <1>5
  <2>1. PICK i, j \in fresh : i < j /\ added[k] = children[i] /\ added[l] = children[j]
    BY <1>4, <1>9, <2>0, Zenon
  <2>2. DedupeKey(children[i]) # DedupeKey(children[j])
    BY <1>2, <2>1
  <2> QED BY <2>1, <2>2
<1>10. ASSUME NEW k \in 1 .. n + m PROVE DedupeKey(longer[k]) \notin visited
  <2>1. CASE k <= n
    BY <1>5, <1>7, <2>1 DEF Unseen
  <2>2. CASE ~(k <= n)
    <3>1. k \in n + 1 .. n + m /\ k - n \in 1 .. m
      BY <1>5, <2>2
    <3> QED BY <1>7, <1>8, <1>k, <3>1
  <2> QED BY <2>1, <2>2
<1>11. ASSUME NEW k \in 1 .. n + m, NEW l \in 1 .. n + m, k < l PROVE DedupeKey(longer[k]) # DedupeKey(longer[l])
  <2>1. CASE l <= n
    <3>1. k \in 1 .. n /\ l \in 1 .. n
      BY <1>5, <1>11, <2>1
    <3> QED BY <1>5, <1>7, <1>11, <3>1 DEF Unseen
  <2>2. CASE k <= n /\ ~(l <= n)
    <3>1. k \in 1 .. n /\ l \in n + 1 .. n + m /\ l - n \in 1 .. m
      BY <1>5, <2>2
    <3>2. DedupeKey(line[k]) \in known /\ DedupeKey(added[l - n]) \notin known
      BY <1>5, <1>8, <1>k, <3>1
    <3> QED BY <1>7, <3>1, <3>2
  <2>3. CASE ~(k <= n)
    <3>1. k \in n + 1 .. n + m /\ l \in n + 1 .. n + m /\ k - n \in 1 .. m /\ l - n \in 1 .. m /\ k - n < l - n
      BY <1>5, <1>11, <2>3
    <3> QED BY <1>7, <1>9, <3>1
  <2> QED BY <2>1, <2>2, <2>3
<1>12. Unseen(longer, visited)
  BY <1>6, <1>10, <1>11 DEF Unseen
<1>13. Len(longer) <= n + Len(children)
  <2>1. Len(children) \in Nat
    OBVIOUS
  <2> QED BY <1>4, <1>5, <1>6, <2>1
<1> QED BY <1>0, <1>6, <1>12, <1>13, <1>S DEF n

\* Tasks that are dropped leave the others as they are.
LEMMA ThoseAreUnseen ==
    ASSUME NEW T, NEW line \in Seq(T), NEW visited, Unseen(line, visited), NEW P, P \subseteq DOMAIN line
    PROVE  Unseen(Those(line, P), visited)
<1> DEFINE those == Those(line, P)
<1>1. /\ \A k \in DOMAIN those : \E i \in P : those[k] = line[i]
      /\ \A k, m \in DOMAIN those : k < m => \E i, j \in P : i < j /\ those[k] = line[i] /\ those[m] = line[j]
  BY ThoseAreListed
<1> HIDE DEF those
<1>2. Unseen(those, visited)
  BY <1>1 DEF Unseen
<1> QED BY <1>2 DEF those

\* The first task is taken.
LEMMA RestIsUnseen ==
    ASSUME NEW T, NEW line \in Seq(T), line # <<>>, NEW visited, Unseen(line, visited)
    PROVE  /\ Head(line) \in T /\ Tail(line) \in Seq(T) /\ Len(Tail(line)) = Len(line) - 1
           /\ DedupeKey(Head(line)) \notin visited
           /\ Unseen(Tail(line), visited \cup {DedupeKey(Head(line))})
           /\ \A S : line \in Seq(S) => Head(line) \in S /\ Tail(line) \in Seq(S)
<1> DEFINE n == Len(line)
           rest == Tail(line)
<1>1. n \in Nat /\ n >= 1 /\ DOMAIN line = 1 .. n
  OBVIOUS
<1>2. rest \in Seq(T) /\ Len(rest) = n - 1 /\ DOMAIN rest = 1 .. n - 1
  OBVIOUS
<1>3. \A k \in 1 .. n - 1 : rest[k] = line[k + 1] /\ k + 1 \in 1 .. n
  OBVIOUS
<1>4. Head(line) = line[1] /\ 1 \in 1 .. n /\ line[1] \in T
  BY <1>1
<1> HIDE DEF n, rest
<1>5. \A k \in 1 .. n - 1 : DedupeKey(rest[k]) \notin visited \cup {DedupeKey(line[1])}
  <2> TAKE k \in 1 .. n - 1
  <2>1. k + 1 \in DOMAIN line /\ 1 \in DOMAIN line /\ 1 < k + 1 /\ rest[k] = line[k + 1]
    BY <1>1, <1>3, <1>4
  <2>2. DedupeKey(line[k + 1]) \notin visited /\ DedupeKey(line[1]) # DedupeKey(line[k + 1])
    BY <2>1 DEF Unseen
  <2> QED BY <2>1, <2>2
<1>6. \A k, l \in 1 .. n - 1 : k < l => DedupeKey(rest[k]) # DedupeKey(rest[l])
  <2> TAKE k, l \in 1 .. n - 1
  <2> HAVE k < l
  <2>1. k + 1 \in DOMAIN line /\ l + 1 \in DOMAIN line /\ k + 1 < l + 1
    BY <1>1, <1>3
  <2>2. DedupeKey(line[k + 1]) # DedupeKey(line[l + 1])
    BY <2>1 DEF Unseen
  <2> QED BY <1>3, <2>2
<1>7. Unseen(rest, visited \cup {DedupeKey(Head(line))})
  BY <1>2, <1>4, <1>5, <1>6 DEF Unseen
<1>8. DedupeKey(Head(line)) \notin visited
  BY <1>1, <1>4 DEF Unseen
<1>9. \A S : line \in Seq(S) => Head(line) \in S /\ Tail(line) \in Seq(S)
  OBVIOUS
<1> QED BY <1>2, <1>4, <1>7, <1>8, <1>9 DEF rest, n

(***************************************************************************)
(* The invariant: every task is fitting, none is asked twice, and the      *)
(* entry of a contour is alone or with the one page it led to.             *)
(***************************************************************************)
TasksFit ==
    /\ request \in Limits /\ asked \subseteq Fitting /\ toFetch \in Seq(Fitting)
    /\ seen = {DedupeKey(t) : t \in asked} /\ Unseen(toFetch, seen)

ContourEntry(e) == Expands(e) /\ e.contour /\ e.depth = 0 /\ ~e.onMap

ContourIsShort ==
    \/ (\A t \in asked : ~t.contour) /\ toFetch \in Seq(Free)
    \/ \E e \in Fitting :
         /\ ContourEntry(e)
         /\ \/ asked = {} /\ toFetch = <<e>>
            \/ asked = {e} /\ (toFetch = <<>> \/ \E c \in Leaves : toFetch = <<c>>)
            \/ \E c \in Leaves : asked = {e, c} /\ toFetch = <<>>

QueueInv == TasksFit /\ ContourIsShort

\* What a task may lead to.
LeadsOn(t, children) ==
    /\ children \in Seq(Fitting)
    /\ ~t.contour => children \in Seq(Free)
    /\ ContourEntry(t) => children \in Seq(Leaves) /\ Len(children) <= 1
    /\ t.kind = "get" /\ t.terminal => children = <<>>

\* The limits of the request do not change.
LEMMA FittingStays ==
    ASSUME UNCHANGED request
    PROVE  Fitting' = Fitting /\ Offered' = Offered /\ Leaves' = Leaves /\ Free' = Free
BY DEF Fitting, Offered, Leaves, Free, UrlAllowed, IndexLimit

\* A list of at most one.
LEMMA ShortList == ASSUME NEW S, NEW s \in Seq(S), Len(s) <= 1 PROVE s = <<>> \/ \E c \in S : s = <<c>>
<1> DEFINE n == Len(s)
<1>1. n \in Nat /\ n <= 1
  OBVIOUS
<1>2. n = 0 => s = <<>>
  OBVIOUS
<1>3. ASSUME n = 1 PROVE \E c \in S : s = <<c>>
  <2>1. s[1] \in S
    BY <1>3
  <2>2. s = [i \in 1 .. 1 |-> s[i]]
    BY <1>3
  <2>3. s = <<s[1]>>
    BY <2>2
  <2> QED BY <2>1, <2>3
<1> HIDE DEF n
<1>4. n = 0 \/ n = 1
  BY <1>1
<1> QED BY <1>2, <1>3, <1>4

\* Every step takes the first task, and makes of the rest and of its children the next queue.
LEMMA ContourStaysShort ==
    ASSUME QueueInv, toFetch # <<>>, UNCHANGED request,
           asked' = asked \cup {Head(toFetch)},
           NEW children, LeadsOn(Head(toFetch), children),
           toFetch' \in Seq(Fitting),
           Len(toFetch') <= Len(Tail(toFetch)) + Len(children),
           \A S : Tail(toFetch) \in Seq(S) /\ children \in Seq(S) => toFetch' \in Seq(S)
    PROVE  ContourIsShort'
<1> DEFINE t == Head(toFetch)
           line == toFetch'
<1>0. Fitting' = Fitting /\ Leaves' = Leaves /\ Free' = Free /\ \A e : ContourEntry(e)' <=> ContourEntry(e)
  BY FittingStays DEF ContourEntry, Expands
<1>1. toFetch \in Seq(Fitting)
  BY DEF QueueInv, TasksFit
<1>2. CASE (\A o \in asked : ~o.contour) /\ toFetch \in Seq(Free)
  <2>1. t \in Free /\ Tail(toFetch) \in Seq(Free)
    BY <1>2
  <2>2. ~t.contour
    BY <2>1 DEF Free
  <2>3. toFetch' \in Seq(Free)
    BY <2>1, <2>2 DEF LeadsOn
  <2>4. \A o \in asked' : ~o.contour
    BY <1>2, <2>2
  <2> QED BY <1>0, <2>3, <2>4 DEF ContourIsShort
<1>3. ASSUME NEW e \in Fitting, ContourEntry(e), asked = {}, toFetch = <<e>> PROVE ContourIsShort'
  <2>1. t = e /\ Tail(toFetch) = <<>>
    BY <1>3
  <2>2. children \in Seq(Leaves) /\ Len(children) <= 1 /\ Tail(toFetch) \in Seq(Leaves) /\ Len(Tail(toFetch)) = 0
    BY <1>3, <2>1 DEF LeadsOn
  <2>3. line \in Seq(Leaves) /\ Len(line) <= 1
    <3>1. Len(children) \in Nat /\ Len(line) \in Nat
      BY <2>2
    <3> QED BY <2>2, <3>1
  <2> HIDE DEF line
  <2>4. line = <<>> \/ \E c \in Leaves : line = <<c>>
    BY <2>3, ShortList
  <2>5. asked' = {e}
    BY <1>3, <2>1
  <2> QED BY <1>0, <1>3, <2>4, <2>5 DEF ContourIsShort, line
<1>4. ASSUME NEW e \in Fitting, ContourEntry(e), NEW c \in Leaves, asked = {e}, toFetch = <<c>>
      PROVE  ContourIsShort'
  <2>1. t = c /\ Tail(toFetch) = <<>>
    BY <1>4
  <2>2. children = <<>>
    BY <1>4, <2>1 DEF LeadsOn, Leaves
  <2>3. line \in Seq(Fitting) /\ Len(line) <= 0
    <3>1. Len(Tail(toFetch)) = 0 /\ Len(children) = 0
      BY <2>1, <2>2
    <3> HIDE DEF line
    <3>2. line \in Seq(Fitting) /\ Len(line) <= Len(Tail(toFetch)) + Len(children)
      BY DEF line
    <3>3. Len(line) <= 0 + 0
      BY ONLY <3>1, <3>2
    <3> QED BY <3>2, <3>3
  <2> HIDE DEF line
  <2>4. line = <<>>
    BY <2>3
  <2>5. asked' = {e, c}
    BY <1>4, <2>1
  <2> QED BY <1>0, <1>4, <2>4, <2>5 DEF ContourIsShort, line
<1> QED BY <1>2, <1>3, <1>4 DEF QueueInv, ContourIsShort

\* The first task and its children keep the queue.
LEMMA TakeKeepsQueue ==
    ASSUME QueueInv, NEW children, LeadsOn(Head(toFetch), children), Take(children), UNCHANGED request
    PROVE  QueueInv'
<1> DEFINE t == Head(toFetch)
           rest == Tail(toFetch)
           visited == seen \cup {DedupeKey(t)}
           longer == Appended(rest, visited, children)
<1>1. /\ toFetch \in Seq(Fitting) /\ toFetch # <<>> /\ Unseen(toFetch, seen)
      /\ toFetch' = longer /\ asked' = asked \cup {t} /\ seen' = visited
  BY DEF QueueInv, TasksFit, Take, Busy
<1>2. t \in Fitting /\ rest \in Seq(Fitting) /\ Unseen(rest, visited)
  BY <1>1, RestIsUnseen
<1> HIDE DEF rest, visited
<1>3. children \in Seq(Fitting)
  BY DEF LeadsOn
<1>4. /\ longer \in Seq(Fitting) /\ Unseen(longer, visited) /\ Len(longer) <= Len(rest) + Len(children)
      /\ \A S : rest \in Seq(S) /\ children \in Seq(S) => longer \in Seq(S)
  BY <1>2, <1>3, AppendedIsUnseen
<1> HIDE DEF longer
<1>5. ContourIsShort'
  BY <1>1, <1>4, ContourStaysShort DEF rest
<1>6. TasksFit'
  <2>1. Fitting' = Fitting
    BY FittingStays
  <2>2. request' \in Limits /\ asked' \subseteq Fitting' /\ toFetch' \in Seq(Fitting')
    BY <1>1, <1>2, <1>4, <2>1 DEF QueueInv, TasksFit
  <2>3. seen' = {DedupeKey(o) : o \in asked'}
    <3>1. seen = {DedupeKey(o) : o \in asked}
      BY DEF QueueInv, TasksFit
    <3> QED BY <1>1, <3>1 DEF visited
  <2>4. Unseen(toFetch, seen)'
    BY <1>1, <1>4 DEF Unseen
  <2> QED BY <2>2, <2>3, <2>4 DEF TasksFit
<1> QED BY <1>5, <1>6 DEF QueueInv

\* So does a task that is blocked, whether or not others of its kind are dropped.
LEMMA BlockKeepsQueue ==
    ASSUME QueueInv, TaskBlocked
    PROVE  QueueInv'
<1> DEFINE t == Head(toFetch)
           rest == Tail(toFetch)
           visited == seen \cup {DedupeKey(t)}
           left == {i \in DOMAIN rest : <<rest[i].source, SiteOf[rest[i].url]>> # <<t.source, SiteOf[t.url]>>}
<1>1. /\ toFetch \in Seq(Fitting) /\ toFetch # <<>> /\ Unseen(toFetch, seen)
      /\ asked' = asked \cup {t} /\ seen' = visited /\ UNCHANGED request
      /\ toFetch' = rest \/ toFetch' = Those(rest, left)
  BY DEF QueueInv, TasksFit, TaskBlocked, Busy
<1>2. t \in Fitting /\ rest \in Seq(Fitting) /\ Unseen(rest, visited)
  BY <1>1, RestIsUnseen
<1>3. left \subseteq DOMAIN rest
  OBVIOUS
<1> HIDE DEF left, rest, visited
<1>4. /\ toFetch' \in Seq(Fitting) /\ Unseen(toFetch', visited) /\ Len(toFetch') <= Len(rest)
      /\ \A S : rest \in Seq(S) => toFetch' \in Seq(S)
  <2>1. CASE toFetch' = rest
    <3>1. Len(rest) \in Nat
      BY <1>2
    <3> QED BY <1>2, <2>1, <3>1
  <2>2. CASE toFetch' = Those(rest, left)
    BY <1>2, <1>3, <2>2, ThoseAreListed, ThoseAreUnseen
  <2> QED BY <1>1, <2>1, <2>2
<1>5. ContourIsShort'
  <2>1. LeadsOn(t, <<>>) /\ Len(<<>>) = 0
    BY DEF LeadsOn
  <2>2. Len(toFetch') <= Len(rest) + Len(<<>>)
    <3>1. Len(rest) \in Nat
      BY <1>2
    <3> QED BY <1>4, <2>1, <3>1
  <2>3. \A S : Tail(toFetch) \in Seq(S) /\ <<>> \in Seq(S) => toFetch' \in Seq(S)
    BY <1>4 DEF rest
  <2> QED BY <1>1, <1>4, <2>1, <2>2, <2>3, ContourStaysShort DEF rest
<1>6. TasksFit'
  <2>1. Fitting' = Fitting
    BY <1>1, FittingStays
  <2>2. request' \in Limits /\ asked' \subseteq Fitting' /\ toFetch' \in Seq(Fitting')
    BY <1>1, <1>2, <1>4, <2>1 DEF QueueInv, TasksFit
  <2>3. seen' = {DedupeKey(o) : o \in asked'}
    <3>1. seen = {DedupeKey(o) : o \in asked}
      BY DEF QueueInv, TasksFit
    <3> QED BY <1>1, <3>1 DEF visited
  <2>4. Unseen(toFetch, seen)'
    BY <1>1, <1>4 DEF Unseen
  <2> QED BY <2>2, <2>3, <2>4 DEF TasksFit
<1> QED BY <1>5, <1>6 DEF QueueInv

CrawlInv ==
    /\ QueueInv
    /\ stored \subseteq Page /\ followed \subseteq stored
    /\ blocks \in [Sources \X Host -> 0 .. BlockLimit]
    /\ \A p \in stored : \E t \in asked : Delivers(t, p)
    /\ TextsAreFollowedOnce

(***************************************************************************)
(* What the invariant says of a crawl.                                     *)
(***************************************************************************)
LEMMA CrawlInvIsBounded == ASSUME CrawlInv PROVE CrawlTypeOK /\ CrawlStaysInside /\ CrawlIsFrugal
<1>1. \A t \in AllTasks : t \in Fitting
  BY DEF CrawlInv, QueueInv, TasksFit, AllTasks
<1>2. CrawlTypeOK
  BY DEF CrawlInv, QueueInv, TasksFit, CrawlTypeOK, Fitting
<1>3. CrawlStaysInside
  <2>1. \A t \in FoundTasks : UrlAllowed(t.url)
    BY <1>1 DEF FoundTasks, Fitting
  <2>2. \A t \in AllTasks : /\ t.depth <= request.maxDepth \/ (t.source = "dedicated" /\ t.depth = 1)
                            /\ t.index <= IndexLimit
    BY <1>1 DEF Fitting
  <2> QED BY <2>1, <2>2 DEF CrawlStaysInside
<1>4. ContoursAreShort
  <2> SUFFICES ASSUME NEW e \in asked, e.contour, e.url = e.root
               PROVE  Cardinality({t \in AllTasks : t.root = e.root /\ t # e}) <= 1
    BY DEF ContoursAreShort
  <2> DEFINE others == {t \in AllTasks : t.root = e.root /\ t # e}
  <2>1. \E c : others \subseteq {c}
    <3>1. ~(\A o \in asked : ~o.contour)
      OBVIOUS
    <3>2. PICK f \in Fitting :
            \/ asked = {} /\ toFetch = <<f>>
            \/ asked = {f} /\ (toFetch = <<>> \/ \E c \in Leaves : toFetch = <<c>>)
            \/ \E c \in Leaves : asked = {f, c} /\ toFetch = <<>>
      BY <3>1 DEF CrawlInv, QueueInv, ContourIsShort
    <3>3. asked # {}
      OBVIOUS
    <3>4. \E c : AllTasks \subseteq {f, c} /\ e \in {f, c}
      <4>1. CASE asked = {f} /\ toFetch = <<>>
        BY <4>1 DEF AllTasks
      <4>2. ASSUME NEW c \in Leaves, asked = {f}, toFetch = <<c>> PROVE AllTasks \subseteq {f, c} /\ e \in {f, c}
        <5>1. \A i \in DOMAIN toFetch : toFetch[i] = c
          BY <4>2
        <5> QED BY <4>2, <5>1 DEF AllTasks
      <4>3. ASSUME NEW c \in Leaves, asked = {f, c}, toFetch = <<>> PROVE AllTasks \subseteq {f, c} /\ e \in {f, c}
        BY <4>3 DEF AllTasks
      <4> QED BY <3>2, <3>3, <4>1, <4>2, <4>3
    <3> QED BY <3>4
  <2> HIDE DEF others
  <2>2. PICK c : others \subseteq {c}
    BY <2>1
  <2>3. IsFiniteSet({c}) /\ Cardinality({c}) = 1
    BY FS_Singleton
  <2>4. Cardinality(others) <= 1
    BY <2>2, <2>3, FS_Subset
  <2> QED BY <2>4 DEF others
<1> QED BY <1>2, <1>3, <1>4 DEF CrawlIsFrugal, CrawlInv

\* A collection starts from one entry.
LEMMA CrawlInvInit == ASSUME CrawlInit PROVE CrawlInv
<1>0. PICK url \in Seed : \E entry \in Entries(url) : toFetch = <<entry>>
  BY DEF CrawlInit
<1>1. PICK entry \in Entries(url) : toFetch = <<entry>>
  BY <1>0
<1>2. entry \in Fitting /\ request \in Limits
  BY <1>1, EntriesFit, CrawlAssumption DEF CrawlInit
<1>3. TasksFit
  BY <1>1, <1>2 DEF TasksFit, CrawlInit, Unseen
<1>4. ContourIsShort
  <2>1. CASE entry.contour
    <3>1. entry = [Entry(url) EXCEPT !.contour = TRUE]
      BY <1>1, <2>1 DEF Entries, Entry
    <3>2. entry.source = "generic_web" /\ entry.depth = 0 /\ ~entry.onMap
      BY <3>1 DEF Entry
    <3>3. ContourEntry(entry)
      BY <1>2, <2>1, <3>2 DEF ContourEntry, Expands
    <3> QED BY <1>1, <1>2, <3>3 DEF ContourIsShort, CrawlInit
  <2>2. CASE ~entry.contour
    <3>1. entry \in Free
      BY <1>2, <2>2 DEF Free
    <3>2. toFetch \in Seq(Free) /\ \A t \in asked : ~t.contour
      BY <1>1, <3>1 DEF CrawlInit
    <3> QED BY <3>2 DEF ContourIsShort
  <2> QED BY <2>1, <2>2
<1>5. blocks \in [Sources \X Host -> 0 .. BlockLimit]
  <2>1. 0 \in 0 .. BlockLimit
    BY CrawlAssumption
  <2> QED BY <2>1 DEF CrawlInit
<1> QED BY <1>3, <1>4, <1>5 DEF CrawlInv, QueueInv, CrawlInit, TextsAreFollowedOnce

\* What a fetched task proves of a stored page, later tasks do not take away.
LEMMA TextsStayFollowed ==
    ASSUME CrawlInv, asked \subseteq asked', UNCHANGED <<stored, followed>>
    PROVE  /\ stored' \subseteq Page /\ followed' \subseteq stored'
           /\ \A p \in stored' : \E t \in asked' : Delivers(t, p)
           /\ TextsAreFollowedOnce'
<1>1. \A p \in stored' : \E t \in asked' : Delivers(t, p)
  BY DEF CrawlInv
<1>2. TextsAreFollowedOnce'
  BY DEF CrawlInv, TextsAreFollowedOnce, Delivers
<1> QED BY <1>1, <1>2 DEF CrawlInv

\* Whether a page is followed, or was a copy.
LEMMA FetchKeepsTexts ==
    ASSUME CrawlInv, NEW suppress \in BOOLEAN, FetchPage(suppress)
    PROVE  /\ stored' \subseteq Page /\ followed' \subseteq stored'
           /\ \A p \in stored' : \E t \in asked' : Delivers(t, p)
           /\ TextsAreFollowedOnce'
<1> DEFINE t == Head(toFetch)
           final == LandsOn[t.url]
<1>1. /\ toFetch \in Seq(Fitting) /\ toFetch # <<>> /\ Unseen(toFetch, seen) /\ asked \subseteq Fitting
      /\ asked' = asked \cup {t} /\ stored' = stored \cup {final} /\ t.source = "generic_web"
      /\ followed' = followed \/ (~suppress /\ followed' = followed \cup {final})
      /\ IsCopy(final) => suppress
      /\ seen = {DedupeKey(o) : o \in asked}
  BY DEF CrawlInv, QueueInv, TasksFit, FetchPage, Take, Busy
<1>2. t \in Fitting /\ DedupeKey(t) \notin seen
  BY <1>1, RestIsUnseen
<1>3. t.kind = "get" /\ t.url \in Page /\ final \in Page /\ Delivers(t, final)
  <2>1. t.kind = "get" /\ t.url \in Page
    BY <1>1, <1>2 DEF Fitting
  <2> QED BY <1>1, <2>1, CrawlAssumption DEF Delivers
<1> HIDE DEF t
<1>4. \A o \in asked : Delivers(o, final) => o.url # t.url
  <2> TAKE o \in asked
  <2> HAVE Delivers(o, final)
  <2>1. o.source = "generic_web" /\ o.kind = "get"
    BY <1>1 DEF Delivers, Fitting
  <2>2. DedupeKey(o) # DedupeKey(t)
    BY <1>1, <1>2
  <2> QED BY <1>1, <1>3, <2>1, <2>2 DEF DedupeKey
<1> HIDE DEF final
<1>5. /\ stored \subseteq Page /\ followed \subseteq stored /\ TextsAreFollowedOnce
      /\ \A p \in stored : \E o \in asked : Delivers(o, p)
  BY DEF CrawlInv
<1>6. \A p \in stored' : \E o \in asked' : Delivers(o, p)
  BY <1>1, <1>3, <1>5
\* The new page is one that was stored before, or its text is new.
<1>7. final \in stored => \E r, o \in asked' : r.url # o.url /\ Delivers(r, final) /\ Delivers(o, final)
  BY <1>1, <1>3, <1>4, <1>5
<1>8. ~suppress /\ final \notin stored /\ TextOf[final] # NoText => \A q \in stored : TextOf[q] # TextOf[final]
  BY <1>1 DEF IsCopy
<1>9. ASSUME NEW p \in followed', NEW q \in followed', p # q, TextOf[p] # NoText, TextOf[p] = TextOf[q]
      PROVE  \E d \in {p, q} : \E r, o \in asked' : r.url # o.url /\ Delivers(r, d) /\ Delivers(o, d)
  <2>1. CASE p \in followed /\ q \in followed
    BY <1>1, <1>5, <1>9, <2>1 DEF TextsAreFollowedOnce
  <2>2. CASE ~(p \in followed /\ q \in followed)
    <3>1. ~suppress /\ final \in {p, q} /\ {p, q} \subseteq followed \cup {final}
      BY <1>1, <1>9, <2>2
    <3>2. CASE final \in stored
      BY <1>7, <3>1, <3>2
    <3>3. CASE final \notin stored
      BY <1>5, <1>8, <1>9, <3>1, <3>3
    <3> QED BY <3>2, <3>3
  <2> QED BY <2>1, <2>2
<1>10. TextsAreFollowedOnce'
  BY <1>9 DEF TextsAreFollowedOnce, Delivers
<1> QED BY <1>1, <1>3, <1>5, <1>6, <1>10

(***************************************************************************)
(* Every step keeps it.                                                    *)
(***************************************************************************)
LEMMA CrawlRests == ASSUME CrawlInv, UNCHANGED crawlVars PROVE CrawlInv'
<1>0. TasksFit /\ ContourIsShort
  BY DEF CrawlInv, QueueInv
<1>1. UNCHANGED <<request, toFetch, seen, asked, stored, followed, blocks>>
  BY DEF crawlVars
<1>2. Fitting' = Fitting /\ Leaves' = Leaves /\ Free' = Free
  BY <1>1, FittingStays
<1>3. TasksFit'
  BY <1>0, <1>1, <1>2 DEF TasksFit, Unseen
<1>4. ContourIsShort'
  <2>1. CASE (\A x \in asked : ~x.contour) /\ toFetch \in Seq(Free)
    <3>1. (\A x \in asked' : ~x.contour) /\ toFetch' \in Seq(Free')
      BY <1>1, <1>2, <2>1
    <3> QED BY <3>1 DEF ContourIsShort
  <2>2. ASSUME NEW e \in Fitting, ContourEntry(e),
               \/ asked = {} /\ toFetch = <<e>>
               \/ asked = {e} /\ (toFetch = <<>> \/ \E c \in Leaves : toFetch = <<c>>)
               \/ \E c \in Leaves : asked = {e, c} /\ toFetch = <<>>
        PROVE  ContourIsShort'
    <3>1. e \in Fitting' /\ ContourEntry(e)'
      BY <1>2, <2>2 DEF ContourEntry, Expands
    <3>2. \/ asked' = {} /\ toFetch' = <<e>>
          \/ asked' = {e} /\ (toFetch' = <<>> \/ \E c \in Leaves' : toFetch' = <<c>>)
          \/ \E c \in Leaves' : asked' = {e, c} /\ toFetch' = <<>>
      BY <1>1, <1>2, <2>2
    <3> QED BY <3>1, <3>2 DEF ContourIsShort
  <2> QED BY <1>0, <2>1, <2>2 DEF ContourIsShort
<1>5. TextsAreFollowedOnce'
  BY <1>1 DEF CrawlInv, TextsAreFollowedOnce, Delivers
<1> QED BY <1>1, <1>3, <1>4, <1>5 DEF CrawlInv, QueueInv, Delivers

LEMMA CrawlInvStep == ASSUME CrawlInv, [CrawlNext]_crawlVars PROVE CrawlInv'
<1> DEFINE t == Head(toFetch)
<1>0. QueueInv /\ request \in Limits
  BY DEF CrawlInv, QueueInv, TasksFit
<1>1. ASSUME UNCHANGED crawlVars PROVE CrawlInv'
  BY <1>1, CrawlRests
<1>t. ASSUME Busy PROVE t \in Fitting
  BY <1>t, RestIsUnseen DEF Busy, CrawlInv, QueueInv, TasksFit
<1>k. Free \subseteq Fitting /\ Ordinary \subseteq Free /\ Leaves \subseteq Fitting /\ Offered \subseteq Fitting
  BY DEF Free, Ordinary, Offered, Leaves
<1>e. LeadsOn(t, <<>>)
  BY DEF LeadsOn
<1>2. ASSUME NEW suppress \in BOOLEAN, FetchPage(suppress) PROVE CrawlInv'
  <2> DEFINE found == DiscoveredTasks(t, LandsOn[t.url])
  <2>1. Busy /\ Expands(t)
    BY <1>2, <1>t DEF FetchPage, Expands
  <2>2. LandsOn[t.url] \in Page
    <3>1. t.url \in Page
      BY <2>1 DEF Expands, Fitting
    <3> QED BY <3>1, CrawlAssumption
  <2>3. LeadsOn(t, found)
    <3>1. /\ found \in Seq(Offered)
          /\ ~t.contour => found \in Seq(Ordinary)
          /\ t.contour /\ t.depth = 0 /\ ~t.onMap => found \in Seq(Leaves) /\ Len(found) <= 1
          /\ t.terminal => found = <<>>
      BY <1>0, <2>1, <2>2, DiscoveredAreOffered
    <3> HIDE DEF found
    <3> QED BY <1>k, <3>1 DEF LeadsOn, ContourEntry
  <2> HIDE DEF found
  <2>4. \E children : LeadsOn(t, children) /\ Take(children)
    BY <1>2, <1>e, <2>3 DEF FetchPage, found
  <2>5. QueueInv'
    BY <1>0, <1>2, <2>4, TakeKeepsQueue DEF FetchPage
  <2>6. UNCHANGED blocks
    BY <1>2 DEF FetchPage
  <2> QED BY <1>2, <2>5, <2>6, FetchKeepsTexts DEF CrawlInv
<1>3. ASSUME NEW children, LeadsOn(t, children), Take(children), UNCHANGED <<request, stored, followed, blocks>>
      PROVE  CrawlInv'
  <2>1. QueueInv'
    BY <1>0, <1>3, TakeKeepsQueue
  <2>2. asked \subseteq asked'
    BY <1>3 DEF Take
  <2> QED BY <1>3, <2>1, <2>2, TextsStayFollowed DEF CrawlInv
<1>4. ASSUME ReadFeed PROVE CrawlInv'
  BY <1>3, <1>4, <1>e DEF ReadFeed
<1>5. ASSUME ReadRobots PROVE CrawlInv'
  <2>1. t \in Fitting /\ t.kind = "robots"
    BY <1>5, <1>t DEF ReadRobots
  <2>2. LeadsOn(t, RobotsTasks(t))
    <3>1. RobotsTasks(t) \in Seq(Fitting) /\ (~t.contour => RobotsTasks(t) \in Seq(Free))
      BY <1>0, <2>1, RobotsTasksFit
    <3>2. ~ContourEntry(t)
      BY <2>1 DEF ContourEntry, Expands, Fitting
    <3> QED BY <2>1, <3>1, <3>2 DEF LeadsOn
  <2> QED BY <1>3, <1>5, <2>2 DEF ReadRobots
<1>6. ASSUME ReadSitemap PROVE CrawlInv'
  <2>1. t \in Fitting /\ t.kind = "sitemap"
    BY <1>6, <1>t DEF ReadSitemap
  <2>2. LeadsOn(t, SitemapTasks(t))
    <3>1. SitemapTasks(t) \in Seq(Fitting) /\ (~t.contour => SitemapTasks(t) \in Seq(Free))
      BY <1>0, <2>1, SitemapTasksFit
    <3>2. ~ContourEntry(t)
      BY <2>1 DEF ContourEntry, Expands, Fitting
    <3> QED BY <2>1, <3>1, <3>2 DEF LeadsOn
  <2> QED BY <1>3, <1>6, <2>2 DEF ReadSitemap
<1>7. ASSUME TaskFails PROVE CrawlInv'
  BY <1>3, <1>7, <1>e DEF TaskFails
<1>8. ASSUME TaskBlocked PROVE CrawlInv'
  <2>1. QueueInv'
    BY <1>0, <1>8, BlockKeepsQueue
  <2>2. asked \subseteq asked' /\ UNCHANGED <<stored, followed>>
    BY <1>8 DEF TaskBlocked
  <2>3. blocks' \in [Sources \X Host -> 0 .. BlockLimit]
    <3> DEFINE place == <<t.source, SiteOf[t.url]>>
    <3>1. t \in Fitting
      BY <1>8, <1>t DEF TaskBlocked
    <3>2. place \in Sources \X Host
      <4>1. t.source \in Sources /\ t.url \in Page \cup Sitemap \cup Host
        BY <3>1, TaskParts DEF Fitting
      <4> QED BY <4>1, CrawlAssumption
    <3> HIDE DEF place
    <3>3. blocks' = [blocks EXCEPT ![place] = IF @ < BlockLimit THEN @ + 1 ELSE @]
      BY <1>8 DEF TaskBlocked, place
    <3>4. blocks \in [Sources \X Host -> 0 .. BlockLimit] /\ BlockLimit \in Nat
      BY CrawlAssumption DEF CrawlInv
    <3>5. (IF blocks[place] < BlockLimit THEN blocks[place] + 1 ELSE blocks[place]) \in 0 .. BlockLimit
      BY <3>2, <3>4
    <3> QED BY <3>2, <3>3, <3>4, <3>5
  <2> QED BY <2>1, <2>2, <2>3, TextsStayFollowed DEF CrawlInv
<1> QED BY <1>1, <1>2, <1>4, <1>5, <1>6, <1>7, <1>8 DEF CrawlNext

(***************************************************************************)
(* However the pages of a site are linked, a crawl neither leaves what the *)
(* request allows nor walks the same text twice (generic_web.py,           *)
(* sitemap.py, duplicate_web.py).                                          *)
(***************************************************************************)
THEOREM CrawlHasBounds == CrawlSpec => [](CrawlStaysInside /\ CrawlIsFrugal)
<1>1. CrawlInit => CrawlInv
  BY CrawlInvInit
<1>2. CrawlInv /\ [CrawlNext]_crawlVars => CrawlInv'
  BY CrawlInvStep
<1>3. CrawlInv => CrawlStaysInside /\ CrawlIsFrugal
  BY CrawlInvIsBounded
<1> QED
  BY <1>1, <1>2, <1>3, PTL DEF CrawlSpec

(***************************************************************************)
(* The sources (MCSources).  Their machines share no variable, so what is  *)
(* proved of each holds where they are all.                                *)
(***************************************************************************)
sourceVars == <<part, fetchVars, humanVars, discoveryVars, listingVars, recipeVars,
                crawlVars, extractionVars, researchVars, timelineVars>>

\* The indexes name who waits, and nobody else (crawler/crawlee_runtime.py).
THEOREM SourcesIndexIsExact == Spec => []IndexNamesWaiters
<1>1. Init => FetchInit
  BY DEF Init
<1>2. [Next]_sourceVars => [FetchNext]_fetchVars
  BY DEF Next, sourceVars
<1>3. FetchInv => IndexNamesWaiters
  BY DEF FetchInv
<1> QED
  BY <1>1, <1>2, <1>3, FetchInitInv, FetchNextInv, PTL DEF Spec, sourceVars

\* An input reaches the page once at most (human_interaction.py).
THEOREM SourcesServeChallenges == Spec => []ChallengesAreServed
<1>1. Init => HumanInit
  BY DEF Init
<1>2. [Next]_sourceVars => [HumanNext]_humanVars
  BY DEF Next, sourceVars
<1>3. HumanInv => ChallengesAreServed
  BY DEF HumanInv, FileInv, InputInv, ChallengesAreServed
<1> QED
  BY <1>1, <1>2, <1>3, HumanInitInv, HumanNextInv, PTL DEF Spec, sourceVars

\* A stored recipe is a proved one (recipes/service.py).
THEOREM SourcesKeepRecipes == Spec => []RecipesAreSound
<1>1. Init => RecipesInit
  BY DEF Init
<1>2. [Next]_sourceVars => [RecipesNext]_recipeVars
  BY DEF Next, sourceVars
<1>3. RecipesInv => RecipesAreSound
  BY DEF RecipesInv, HeldAreProved, FillsAreAllowed, Drafting, At, StoredVersions, RecipesAreSound
<1> QED
  BY <1>1, <1>2, <1>3, RecipesInitInv, RecipesNextInv, PTL DEF Spec, sourceVars

\* A reader of the listing misses nothing (postgres_operations.py).
THEOREM SourcesListAll == Spec => []ListingIsComplete
<1>1. Init => ListingInit
  BY DEF Init
<1>2. [Next]_sourceVars => [ListingNext]_listingVars
  BY DEF Next, sourceVars
<1>3. ListingInv => ListingIsComplete
  BY ListingInvHolds
<1> QED
  BY <1>1, <1>2, <1>3, ListingInitInv, ListingNextInv, PTL DEF Spec, sourceVars
\* Attempts and cuts spend no more searches than the collection may (discovery.py,
\* adaptive_atomic.py), and every stored task was counted (area_atomic.py).
THEOREM SourcesStayInBudget == Spec => []SearchBudgetHolds
<1>1. Init => DiscoveryInit /\ ResearchInit
  BY DEF Init
<1>2. [Next]_sourceVars => [DiscoveryNext]_discoveryVars
  BY DEF Next, sourceVars
<1>3. [Next]_sourceVars => [ResearchNext]_researchVars
  BY DEF Next, sourceVars
<1>4. DiscoveryInv => QueryBudgetSpansAttempts
  BY DiscoveryInvSpans
<1>5. ResearchInv => SearchesAreBounded /\ BranchesAreCounted
  BY ResearchInvImplies
<1>6. ResearchInv /\ [ResearchNext]_researchVars => ResearchInv'
  BY ResearchStep
<1>7. DiscoveryInv /\ ResearchInv => SearchBudgetHolds
  BY <1>4, <1>5 DEF SearchBudgetHolds
<1> QED
  BY <1>1, <1>2, <1>3, <1>6, <1>7, DiscoveryInitInv, DiscoveryNextInv, InitKeeps, PTL DEF Spec, sourceVars

\* The newest version of a recipe is never pruned (storage/sqlite.py), and no commit
\* forgets a page that was queued (evidence_status.py, service.py).
THEOREM SourcesForgetNothing == Spec => NothingGoesMissing
<1>1. Init => RecipesInit /\ ResearchInit
  BY DEF Init
<1>2. [Next]_sourceVars => [RecipesNext]_recipeVars
  BY DEF Next, sourceVars
<1>3. [Next]_sourceVars => [ResearchNext]_researchVars
  BY DEF Next, sourceVars
<1>4. ResearchInv /\ [ResearchNext]_researchVars => ResearchInv'
  BY ResearchStep
<1>5. RecipesInv /\ [RecipesNext]_recipeVars => [StoredVersions # {} => StoredVersions' # {} /\ Newest' >= Newest]_recipeVars
  BY NewestStep
<1>6. ResearchInv /\ [ResearchNext]_researchVars => [PagesStay(row, row')]_row
  BY ResearchStep DEF PagesStayed
<1> QED
  BY <1>1, <1>2, <1>3, <1>4, <1>5, <1>6, RecipesInitInv, RecipesNextInv, InitKeeps, PTL
     DEF Spec, sourceVars, NothingGoesMissing, NewestStays, NoPageIsForgotten

\* Goals take turns (adaptive_atomic.py, evidence_status.py).
THEOREM SourcesTakeTurns == Spec => []NoGoalStarves
<1>1. Init => ResearchInit
  BY DEF Init
<1>2. [Next]_sourceVars => [ResearchNext]_researchVars
  BY DEF Next, sourceVars
<1>3. ResearchInit => TurnInv
  BY TurnsBegin
<1>4. ResearchInv /\ TurnInv /\ [ResearchNext]_researchVars => ResearchInv' /\ TurnInv'
  BY ResearchStep, TurnStep
<1>5. TurnInv => NoGoalStarves
  BY DEF TurnInv
<1> QED
  BY <1>1, <1>2, <1>3, <1>4, <1>5, InitKeeps, PTL DEF Spec, sourceVars

\* A crawl stays inside of the request and walks no text twice (generic_web.py, sitemap.py,
\* navigation_web.py, duplicate_web.py).
THEOREM SourcesStayInside == Spec => []CrawlIsBounded
<1>1. Init => CrawlInit
  BY DEF Init
<1>2. [Next]_sourceVars => [CrawlNext]_crawlVars
  BY DEF Next, sourceVars
<1>3. CrawlInv => CrawlIsBounded
  BY CrawlInvIsBounded DEF CrawlIsBounded
<1> QED
  BY <1>1, <1>2, <1>3, CrawlInvInit, CrawlInvStep, InitKeeps, PTL DEF Spec, sourceVars

\* What is delivered of a page has its evidence and says whether it is all of it
\* (sources/*_web.py); what is derived from its captures is consistent (historical_web.py).
THEOREM SourcesAreHonest == Spec => []FactsAreHonest
<1>1. Init => ExtractionInit /\ TimelineInit
  BY DEF Init
<1>2. [Next]_sourceVars => [ExtractionNext]_extractionVars
  BY DEF Next, sourceVars
<1>3. [Next]_sourceVars => [TimelineNext]_timelineVars
  BY DEF Next, sourceVars
<1>4. ExtractionInv /\ TimelineInv => FactsAreHonest
  BY ExtractionInvIsHonest, TimelineInvHolds DEF FactsAreHonest
<1> QED
  BY <1>1, <1>2, <1>3, <1>4, ExtractionInitInv, ExtractionStepInv, TimelineInitInv, TimelineNextInv, PTL
     DEF Spec, sourceVars

\* Every machine of the sources keeps the types that its module says, so also its bounds: retries,
\* inputs, ids and versions, pages and depths of a crawl, searches and captures.
THEOREM SourcesAreTyped == Spec => []SourcesTypeOK
<1>1. Spec => []FetchTypeOK
  <2>1. Init => FetchInit
    BY DEF Init
  <2>2. [Next]_sourceVars => [FetchNext]_fetchVars
    BY DEF Next, sourceVars
  <2>3. FetchInv => FetchTypeOK
    BY DEF FetchInv
  <2> QED BY <2>1, <2>2, <2>3, FetchInitInv, FetchNextInv, PTL DEF Spec, sourceVars
<1>2. Spec => []HumanTypeOK
  <2>1. Init => HumanInit
    BY DEF Init
  <2>2. [Next]_sourceVars => [HumanNext]_humanVars
    BY DEF Next, sourceVars
  <2>3. HumanInv => HumanTypeOK
    BY DEF HumanInv
  <2> QED BY <2>1, <2>2, <2>3, HumanInitInv, HumanNextInv, PTL DEF Spec, sourceVars
<1>3. Spec => []DiscoveryTypeOK
  <2>1. Init => DiscoveryInit
    BY DEF Init
  <2>2. [Next]_sourceVars => [DiscoveryNext]_discoveryVars
    BY DEF Next, sourceVars
  <2>3. DiscoveryInv => DiscoveryTypeOK
    BY DEF DiscoveryInv
  <2> QED BY <2>1, <2>2, <2>3, DiscoveryInitInv, DiscoveryNextInv, PTL DEF Spec, sourceVars
<1>4. Spec => []ListingTypeOK
  <2>1. Init => ListingInit
    BY DEF Init
  <2>2. [Next]_sourceVars => [ListingNext]_listingVars
    BY DEF Next, sourceVars
  <2>3. ListingInv /\ ListingShapes /\ [ListingNext]_listingVars => ListingInv' /\ ListingShapes'
    BY ListingNextInv, ListingShapesNext
  <2> QED BY <2>1, <2>2, <2>3, ListingInitInv, ListingShapesInit, ListingIsTyped, PTL DEF Spec, sourceVars
<1>5. Spec => []RecipesTypeOK
  <2>1. Init => RecipesInit
    BY DEF Init
  <2>2. [Next]_sourceVars => [RecipesNext]_recipeVars
    BY DEF Next, sourceVars
  <2>3. RecipesInv /\ TypesFit /\ [RecipesNext]_recipeVars => RecipesInv' /\ TypesFit'
    BY RecipesNextInv, TypesFitNext
  <2> QED BY <2>1, <2>2, <2>3, RecipesInitInv, TypesFitInit, TypesFitBounds, PTL DEF Spec, sourceVars
<1>6. Spec => []CrawlTypeOK
  <2>1. Init => CrawlInit
    BY DEF Init
  <2>2. [Next]_sourceVars => [CrawlNext]_crawlVars
    BY DEF Next, sourceVars
  <2>3. CrawlInv => CrawlTypeOK
    BY CrawlInvIsBounded
  <2> QED BY <2>1, <2>2, <2>3, CrawlInvInit, CrawlInvStep, InitKeeps, PTL DEF Spec, sourceVars
<1>7. Spec => []ExtractionTypeOK
  <2>1. Init => ExtractionInit
    BY DEF Init
  <2>2. [Next]_sourceVars => [ExtractionNext]_extractionVars
    BY DEF Next, sourceVars
  <2>3. ExtractionInv => ExtractionTypeOK
    BY DEF ExtractionInv
  <2> QED BY <2>1, <2>2, <2>3, ExtractionInitInv, ExtractionStepInv, PTL DEF Spec, sourceVars
<1>8. Spec => []ResearchTypeOK
  <2>1. Init => ResearchInit
    BY DEF Init
  <2>2. [Next]_sourceVars => [ResearchNext]_researchVars
    BY DEF Next, sourceVars
  <2>3. ResearchInv => ResearchTypeOK
    BY ResearchInvImplies
  <2>4. ResearchInv /\ [ResearchNext]_researchVars => ResearchInv'
    BY ResearchStep
  <2> QED BY <2>1, <2>2, <2>3, <2>4, InitKeeps, PTL DEF Spec, sourceVars
<1>9. Spec => []TimelineTypeOK
  <2>1. Init => TimelineInit
    BY DEF Init
  <2>2. [Next]_sourceVars => [TimelineNext]_timelineVars
    BY DEF Next, sourceVars
  <2>3. TimelineInv => TimelineTypeOK
    BY DEF TimelineInv
  <2> QED BY <2>1, <2>2, <2>3, TimelineInitInv, TimelineNextInv, PTL DEF Spec, sourceVars
<1>10. FetchTypeOK /\ HumanTypeOK /\ DiscoveryTypeOK /\ ListingTypeOK /\ RecipesTypeOK
         /\ CrawlTypeOK /\ ExtractionTypeOK /\ ResearchTypeOK /\ TimelineTypeOK => SourcesTypeOK
  BY DEF SourcesTypeOK
<1> QED BY <1>1, <1>2, <1>3, <1>4, <1>5, <1>6, <1>7, <1>8, <1>9, <1>10, PTL
================================================================================
