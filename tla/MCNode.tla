--------------------------------- MODULE MCNode ---------------------------------
(* The machines that must come to an end or come back: the model's health, the agents  *)
(* that share its slots, the worker process, embedded mode, and the delivery of a       *)
(* result.  They share no state: a behaviour picks a part and runs it, so the state      *)
(* spaces add up.                                                                       *)
EXTENDS AgentFallback, WorkerProcess, Embedded, ResultDelivery

VARIABLE part

\* Two items that fill a page together, and between them one that is larger than a page.
MCSize == <<2, 4, 1>>

\* A page with whatever the recipe agent may and may not touch; plans that repeat a control,
\* invent one, scroll, and ask for all of them.
Has(kind, form, inside, denied) == [kind |-> kind, form |-> form, inside |-> inside, denied |-> denied]
MCHtml   == {<<>>, <<Has("field", "get", TRUE, FALSE), Has("choice", "get", FALSE, FALSE),
                     Has("link", "none", FALSE, FALSE), Has("button", "post", TRUE, FALSE),
                     Has("tab", "none", TRUE, FALSE),   Has("link", "none", TRUE, TRUE),
                     Has("link", "none", TRUE, FALSE)>>}
MCValue  == <<"name", "street">>
MCModelPlan == {<<0>>, <<4, 4, -1, 1>>, <<1, 2, 3, 5>>, <<5, 6, 7>>}

vars == <<part, llmVars, agentVars, workerVars, embeddedVars, deliveryVars>>

Init ==
    /\ part \in {"health", "agents", "worker", "embedded", "delivery"}
    /\ LlmInit /\ AgentInit /\ WorkerInit /\ EmbeddedInit /\ DeliveryInit

Next ==
    \/ /\ part = "health" /\ HealthNext
       /\ UNCHANGED <<part, slotVars, agentVars, workerVars, embeddedVars, deliveryVars>>
    \/ /\ part = "agents" /\ AgentNext
       /\ UNCHANGED <<part, healthVars, workerVars, embeddedVars, deliveryVars>>
    \/ /\ part = "worker" /\ WorkerNext
       /\ UNCHANGED <<part, llmVars, agentVars, embeddedVars, deliveryVars>>
    \/ /\ part = "embedded" /\ EmbeddedNext
       /\ UNCHANGED <<part, llmVars, agentVars, workerVars, deliveryVars>>
    \/ /\ part = "delivery" /\ DeliveryNext
       /\ UNCHANGED <<part, llmVars, agentVars, workerVars, embeddedVars>>

(* What only the machine of a part may do, as far as fairness is asked of it. *)
Health(A) ==
    part = "health" /\ A /\ UNCHANGED <<part, slotVars, agentVars, workerVars, embeddedVars, deliveryVars>>
Agents(A) ==
    part = "agents" /\ A /\ UNCHANGED <<part, healthVars, workerVars, embeddedVars, deliveryVars>>
Worker(A) ==
    part = "worker" /\ A /\ UNCHANGED <<part, llmVars, agentVars, embeddedVars, deliveryVars>>
Local(A) ==
    part = "embedded" /\ A /\ UNCHANGED <<part, llmVars, agentVars, workerVars, deliveryVars>>
Client(A) ==
    part = "delivery" /\ A /\ UNCHANGED <<part, llmVars, agentVars, workerVars, embeddedVars>>

HealthFairness ==
    /\ WF_vars(Health(TimePasses))
    /\ WF_vars(Health(CheckCached(Loop) \/ AskModel(Loop) \/ CheckEnds(Loop)))
    /\ WF_vars(Health(ModelAnswers(Loop)))

(* Every backend has a timeout, and the semaphore serves in the order of waiting. *)
AgentFairness ==
    /\ \A c \in Caller :
         WF_vars(Agents(AgentStep(c) \/ \E isolated \in BOOLEAN : StartsWork(c, isolated)))
    /\ WF_vars(Agents(\E c \in Component \ Caller :
                        (EnterSlot(c) \/ LeaveSlot(c)) /\ UNCHANGED agentVars))
    /\ WF_vars(Agents(LeftProcessEnds))

WorkerFairness ==
    /\ WF_vars(Worker(ClaimLoop))
    /\ WF_vars(Worker(Beat)) /\ SF_vars(Worker(RegisterAgain))
    /\ WF_vars(Worker(StopEnds)) /\ WF_vars(Worker(Exit))
    /\ \A r \in Run : WF_vars(Worker(\E deleted \in BOOLEAN : Release(r, deleted)))

EmbeddedFairness ==
    /\ \A i \in Item : WF_vars(Local(JobStep(i))) /\ WF_vars(Local(WriteCancelled(i)))
    /\ WF_vars(Local(ThreadStep)) /\ WF_vars(Local(ShutdownEnds)) /\ WF_vars(Local(Recover))

(* A client that wants the result follows its cursors to the end. *)
ClientFairness ==
    \A k \in Kind : WF_vars(Client(\E limit \in Limit : FirstPage(k, limit) \/ NextPage(k, limit)))

Spec == Init /\ [][Next]_vars /\ HealthFairness /\ AgentFairness /\ WorkerFairness
        /\ EmbeddedFairness /\ ClientFairness

(* The machines have the types that their modules say.                              *)
NodeTypeOK == LlmTypeOK /\ AgentTypeOK /\ WorkerTypeOK /\ EmbeddedTypeOK /\ DeliveryTypeOK

(* The verdict on the model is fresh, its slots go to the agents that work with it, and a  *)
(* call that is cut off leaves no process behind that is not paid for                     *)
(* (llm_health.py, llm_runtime.py, crawler/agent/fallback.py).                            *)
ModelIsShared == LlmGateHolds /\ AgentsHoldTheirSlots /\ CutsPayForLeftovers

(* What is answered to a caller is right: whatever the model plans, an agent plans nothing *)
(* forbidden (crawler/agent), and the stores return the same pages of a result            *)
(* (storage/postgres.py, storage/sqlite.py).                                              *)
AnswersAreSound == PlansAreSafe /\ StoresAgree

(* A client that follows its cursors has the whole result in the end (api/app.py), a call   *)
(* of agents comes to an end, however its backends fail (crawler/agent/fallback.py), and a *)
(* collection of embedded mode is closed, however often its process ends                  *)
(* (orchestrator/service.py).                                                             *)
CallsEnd == DeliveryEnds /\ AgentsEnd /\ EmbeddedCloses

(* A worker that is to stop exits and one that was forgotten registers again; the   *)
(* claim gate of a worker whose model answers for good opens for good.              *)
WorkerComesBack == WorkerRecovers /\ GateReopens
================================================================================
