------------------------- MODULE DecisionPipeline -------------------------
(***************************************************************************)
(* One run of the decision part of _handle_recovery_case_eligible          *)
(* (app/tasks/recovery.py): engine, policy, agent, final choice.  The      *)
(* request ranges over every case, merchant policy and action count the    *)
(* constants allow, and the agent over every answer of the LLM.            *)
(***************************************************************************)
EXTENDS RecoveryPolicy

CONSTANTS
    LimitsSet,   \* merchant policies, a set of PolicyLimits records
    Amounts,     \* amounts in minor units
    Counts       \* action counts: records with total, reminders and links

ASSUME LimitsAssumption == LimitsSet \subseteq PolicyLimits
ASSUME AmountsAssumption == Amounts \subseteq Nat
ASSUME CountsAssumption ==
    Counts \subseteq [ total : Nat, reminders : Nat, links : Nat ]

VARIABLES
    stage,    \* where the run is
    request,  \* what the worker has read: limits, amount, category, counts
    engine,   \* the engine's RecoveryDecision
    policy,   \* the policy engine's verdict on it
    agent,    \* the agent's AgentDecision
    final     \* the action that will be stored

vars == << stage, request, engine, policy, agent, final >>

Requests ==
    [ limits : LimitsSet, amount : Amounts, category : FailureCategories,
      counts : Counts ]

Stages == { "claimed", "engine", "policy", "agent", "done" }

None == "none"  \* an action not chosen yet

(* The status the case has in the worker's transaction while it decides. *)
current_status == "ANALYSING"

Init ==
    /\ stage = "claimed"
    /\ request \in Requests
    /\ engine = RecoveryDecision(None, NoDelay)
    /\ policy = PolicyDecision(FALSE, None, NoDelay)
    /\ agent = AgentDecision(None, "deterministic_fallback")
    /\ final = PolicyDecision(FALSE, None, NoDelay)

RunEngine ==
    /\ stage = "claimed"
    /\ engine' = evaluate_recovery(request.amount, request.category)
    /\ stage' = "engine"
    /\ UNCHANGED << request, policy, agent, final >>

RunPolicy ==
    /\ stage = "engine"
    /\ policy' = evaluate_policy(request.limits, current_status, request.amount,
                                 engine.action, request.counts, engine.delay)
    /\ stage' = "policy"
    /\ UNCHANGED << request, engine, agent, final >>

RunAgent(answer) ==
    /\ stage = "policy"
    /\ agent' = run_recovery_agent(answer, policy)
    /\ stage' = "agent"
    /\ UNCHANGED << request, engine, policy, final >>

(* select_final with the last branch replaced: a mutant of ChooseFinal that
   trusts the agent. *)
ChooseFinalUnchecked ==
    /\ stage = "agent"
    /\ final' = PolicyDecision(TRUE, agent.action, NoDelay)
    /\ stage' = "done"
    /\ UNCHANGED << request, engine, policy, agent >>

(* A mutant of ChooseFinal that, when the agent's action is refused, goes back
   to the engine's candidate instead of the policy engine's action. *)
ChooseFinalEngineFallback ==
    /\ stage = "agent"
    /\ LET again == evaluate_policy(request.limits, current_status,
                                    request.amount, agent.action,
                                    request.counts, NoDelay)
       IN  final' = IF again.approved /\ agent.source = "llm" THEN again
                    ELSE PolicyDecision(FALSE, engine.action, engine.delay)
    /\ stage' = "done"
    /\ UNCHANGED << request, engine, policy, agent >>

ChooseFinal ==
    /\ stage = "agent"
    /\ final' = select_final(request.limits, current_status, request.amount,
                             engine, policy, agent, request.counts)
    /\ stage' = "done"
    /\ UNCHANGED << request, engine, policy, agent >>

(* The decision is stored and the task ends. *)
Done ==
    /\ stage = "done"
    /\ UNCHANGED vars

Next ==
    \/ RunEngine
    \/ RunPolicy
    \/ \E answer \in LlmAnswers : RunAgent(answer)
    \/ ChooseFinal
    \/ Done

Spec == Init /\ [][Next]_vars

-----------------------------------------------------------------------------
Delays == { NoDelay, 1, 24 }

Verdicts == [ approved : BOOLEAN, action : ActionTypes, delay : Delays ]

(* Every value the run holds has the shape its dataclass declares, from the
   stage that computes it on. *)
TypeOK ==
    /\ stage \in Stages
    /\ request \in Requests
    /\ stage # "claimed" => engine \in [ action : ActionTypes, delay : Delays ]
    /\ stage \in { "policy", "agent", "done" } => policy \in Verdicts
    /\ stage \in { "agent", "done" } =>
          agent \in [ action : ActionTypes,
                      source : { "llm", "deterministic_fallback" } ]
    /\ stage = "done" => final \in Verdicts

(* The decision survives the check made again at execution time: an action that
   is scheduled (WAIT, CREATE_PAYMENT_LINK, SEND_REMINDER) passes _claim_action
   as long as the merchant's policy and the other actions of the case are what
   they were, whatever the LLM answered and whether the policy engine approved
   the engine's candidate or replaced it. *)
DecisionSurvivesClaim ==
    stage = "done" =>
        \/ final.action \in { "STOP", "ESCALATE" }
        \/ claim_allowed(request.limits, "ACTION_SCHEDULED", request.amount,
                         final.action, request.counts)

(* A case whose amount requires escalation is never acted on automatically,
   whatever the LLM answers: it ends in ESCALATE or STOP. *)
HighValueNeedsHuman ==
    stage = "done" /\ RequiresEscalation(request.limits, request.amount) =>
        final.action \in { "ESCALATE", "STOP" }

(* A WAIT really waits, whoever proposed it: the engine's 24 hours if the engine
   asked to wait, and an hour if the policy engine or the LLM did, although the
   delay then reaches the worker as None on some of the paths. *)
WaitIsHonoured ==
    stage = "done" /\ final.action = "WAIT" =>
        schedule_delay(engine, final) =
            IF engine.action = "WAIT" THEN engine.delay ELSE 1

(* An unusable answer, and one that repeats the deterministic action, both give
   the deterministic action: the agent can only improve on the policy engine's
   choice, its failure costs nothing but that. *)
AgentFailureIsNeutral ==
    /\ stage = "done"
    /\ \/ agent.source = "deterministic_fallback"
       \/ agent.action = policy.action
    => final.action = policy.action

=============================================================================
