---------------------- MODULE DecisionPipeline_proofs ----------------------
(***************************************************************************)
(* What the decision of the worker guarantees for every merchant policy,   *)
(* amount, action count and answer of the LLM.                             *)
(***************************************************************************)
EXTENDS DecisionPipeline, TLAPS

(* What each stage has computed from the request. *)
Computed ==
    /\ stage \in Stages
    /\ request \in Requests
    /\ stage # "claimed" =>
          engine = evaluate_recovery(request.amount, request.category)
    /\ stage \in { "policy", "agent", "done" } =>
          policy = evaluate_policy(request.limits, current_status, request.amount,
                                   engine.action, request.counts, engine.delay)
    /\ stage \in { "agent", "done" } =>
          \E answer \in LlmAnswers : agent = run_recovery_agent(answer, policy)
    /\ stage = "done" =>
          final = select_final(request.limits, current_status, request.amount,
                               engine, policy, agent, request.counts)

(* Each step computes its own stage and leaves the earlier ones alone. *)
THEOREM ComputedAlways == Spec => []Computed
<1>1. Init => Computed
  BY DEF Init, Computed, Stages
<1>2. Computed /\ [Next]_vars => Computed'
  <2> SUFFICES ASSUME Computed, [Next]_vars PROVE Computed'
    OBVIOUS
  <2> USE DEF Computed, Stages
  <2>1. CASE RunEngine
    BY <2>1 DEF RunEngine
  <2>2. CASE RunPolicy
    BY <2>2 DEF RunPolicy, current_status
  <2>3. ASSUME NEW answer \in LlmAnswers, RunAgent(answer)
        PROVE  Computed'
    BY <2>3 DEF RunAgent
  <2>4. CASE ChooseFinal
    BY <2>4 DEF ChooseFinal, current_status
  <2>5. CASE UNCHANGED vars
    BY <2>5 DEF vars
  <2> QED
    BY <2>1, <2>2, <2>3, <2>4, <2>5 DEF Next, Done
<1> QED
  BY <1>1, <1>2, PTL DEF Spec

(* evaluate_recovery proposes one of the five actions, and a delay only with
   WAIT. *)
LEMMA EngineShape ==
    ASSUME NEW amount, NEW category
    PROVE  /\ evaluate_recovery(amount, category)
                \in [ action : ActionTypes, delay : Delays ]
BY DEF evaluate_recovery, RecoveryDecision, ActionTypes, Delays, NoDelay

(* evaluate_policy answers with one of the five actions. *)
LEMMA PolicyShape ==
    ASSUME NEW l, NEW st, NEW amount, NEW candidate \in ActionTypes, NEW counts,
           NEW delay \in Delays
    PROVE  evaluate_policy(l, st, amount, candidate, counts, delay) \in Verdicts
BY DEF evaluate_policy, PolicyDecision, Verdicts, ActionTypes, Delays, NoDelay

(* What an open case may be given: the verdict of evaluate_policy, approved or
   not, is to close the case or names an action the policy approves again. *)
LEMMA VerdictStands ==
    ASSUME NEW l, NEW amount, NEW candidate \in ActionTypes, NEW counts,
           NEW delay, NEW v,
           v = evaluate_policy(l, "ANALYSING", amount, candidate, counts, delay),
           v.action \notin { "STOP", "ESCALATE" }
    PROVE  /\ claim_allowed(l, "ACTION_SCHEDULED", amount, v.action, counts)
           /\ ~RequiresEscalation(l, amount)
BY DEF evaluate_policy, claim_allowed, PolicyDecision, ActionTypes, is_terminal,
       TERMINAL_STATES

(* The worker takes a verdict of evaluate_policy: the one on the engine's
   candidate or the one on the agent's action. *)
LEMMA FinalIsAVerdict ==
    ASSUME Computed, stage = "done"
    PROVE  \E candidate \in ActionTypes, delay \in Delays, v \in Verdicts :
             /\ v = evaluate_policy(request.limits, "ANALYSING", request.amount,
                                    candidate, request.counts, delay)
             /\ final.action = v.action
             /\ final \in Verdicts
<1> DEFINE eval(candidate, delay) ==
             evaluate_policy(request.limits, "ANALYSING", request.amount,
                             candidate, request.counts, delay)
<1>1. engine \in [ action : ActionTypes, delay : Delays ]
  BY EngineShape DEF Computed
<1>2. policy = eval(engine.action, engine.delay) /\ policy \in Verdicts
  BY <1>1, PolicyShape DEF Computed, current_status
<1>3. agent.action \in ActionTypes
  BY <1>2 DEF Computed, run_recovery_agent, AgentDecision, LlmAnswers, Verdicts
<1> DEFINE d == IF agent.action = "WAIT" THEN engine.delay ELSE NoDelay
           again == eval(agent.action, d)
<1>4. d \in Delays
  BY <1>1 DEF Delays
<1>5. again \in Verdicts
  BY <1>3, <1>4, PolicyShape
<1>6. \/ final = policy
      \/ final = again
      \/ final = PolicyDecision(FALSE, policy.action, policy.delay)
  BY DEF Computed, select_final, current_status
<1> HIDE DEF eval, d
<1>7. PolicyDecision(FALSE, policy.action, policy.delay) \in Verdicts
  BY <1>2 DEF PolicyDecision, Verdicts
<1>8. PolicyDecision(FALSE, policy.action, policy.delay).action = policy.action
  BY DEF PolicyDecision
<1>9. CASE final.action = policy.action /\ final \in Verdicts
  BY <1>1, <1>2, <1>9 DEF eval
<1>10. CASE final = again
  BY <1>3, <1>4, <1>5, <1>10 DEF eval
<1> QED
  BY <1>2, <1>6, <1>7, <1>8, <1>9, <1>10

(* Every dataclass of the pipeline has the shape it declares, whatever the LLM
   answers. *)
THEOREM TypeCorrect == Spec => []TypeOK
<1>1. Computed => TypeOK
  <2> SUFFICES ASSUME Computed PROVE TypeOK
    OBVIOUS
  <2>1. stage # "claimed" => engine \in [ action : ActionTypes, delay : Delays ]
    BY EngineShape DEF Computed
  <2>2. stage \in { "policy", "agent", "done" } => policy \in Verdicts
    BY <2>1, PolicyShape DEF Computed
  <2>3. stage \in { "agent", "done" } =>
          agent \in [ action : ActionTypes,
                      source : { "llm", "deterministic_fallback" } ]
    BY <2>2 DEF Computed, run_recovery_agent, AgentDecision, LlmAnswers, Verdicts
  <2>4. stage = "done" => final \in Verdicts
    BY FinalIsAVerdict
  <2> QED
    BY <2>1, <2>2, <2>3, <2>4 DEF TypeOK, Computed
<1> QED
  BY <1>1, ComputedAlways, PTL

(* An action the worker schedules passes the re-evaluation of _claim_action as
   long as nothing it depends on has changed. *)
THEOREM SurvivesClaim == Spec => []DecisionSurvivesClaim
<1>1. Computed => DecisionSurvivesClaim
  BY FinalIsAVerdict, VerdictStands DEF DecisionSurvivesClaim
<1> QED
  BY <1>1, ComputedAlways, PTL

(* No answer of the LLM makes the worker act on a case that needs a human. *)
THEOREM NeedsHuman == Spec => []HighValueNeedsHuman
<1>1. Computed => HighValueNeedsHuman
  BY FinalIsAVerdict, VerdictStands DEF HighValueNeedsHuman
<1> QED
  BY <1>1, ComputedAlways, PTL

(* A failed or redundant agent leaves the policy engine's action in place. *)
THEOREM FailureIsNeutral == Spec => []AgentFailureIsNeutral
<1>1. Computed => AgentFailureIsNeutral
  <2> SUFFICES ASSUME Computed, stage = "done",
                      \/ agent.source = "deterministic_fallback"
                      \/ agent.action = policy.action
               PROVE  final.action = policy.action
    BY DEF AgentFailureIsNeutral
  <2>1. agent.action = policy.action
    BY DEF Computed, run_recovery_agent, AgentDecision
  <2>2. \/ final = policy
        \/ final.action = agent.action
        \/ final = PolicyDecision(FALSE, policy.action, policy.delay)
    BY DEF Computed, select_final
  <2> QED
    BY <2>1, <2>2 DEF PolicyDecision
<1> QED
  BY <1>1, ComputedAlways, PTL

(* evaluate_policy answers WAIT to an approved WAIT, with its delay, and to a
   second payment link, with one hour. *)
LEMMA WaitVerdict ==
    ASSUME NEW l, NEW amount, NEW candidate \in ActionTypes, NEW counts,
           NEW delay, NEW v,
           v = evaluate_policy(l, "ANALYSING", amount, candidate, counts, delay),
           v.action = "WAIT"
    PROVE  \/ candidate = "WAIT" /\ v.delay = delay
           \/ candidate # "WAIT" /\ v.delay = 1
BY DEF evaluate_policy, PolicyDecision, ActionTypes

(* A stored WAIT is scheduled with the delay its proposer asked for. *)
THEOREM WaitsAsAsked == Spec => []WaitIsHonoured
<1>1. Computed => WaitIsHonoured
  <2> SUFFICES ASSUME Computed, stage = "done", final.action = "WAIT"
               PROVE  schedule_delay(engine, final) =
                        IF engine.action = "WAIT" THEN engine.delay ELSE 1
    BY DEF WaitIsHonoured
  <2>1. /\ engine.action \in ActionTypes
        /\ engine.action = "WAIT" => engine.delay = 24
        /\ engine.action # "WAIT" => engine.delay = NoDelay
    BY DEF Computed, evaluate_recovery, RecoveryDecision, ActionTypes
  <2>2. policy.action = "WAIT" =>
          policy.delay = IF engine.action = "WAIT" THEN engine.delay ELSE 1
    BY <2>1, WaitVerdict DEF Computed, current_status
  <2>3. \/ final.action = policy.action /\ final.delay = policy.delay
        \/ /\ final.action = agent.action
           /\ final = evaluate_policy(request.limits, "ANALYSING",
                         request.amount, agent.action, request.counts,
                         IF agent.action = "WAIT" THEN engine.delay ELSE NoDelay)
    BY DEF Computed, select_final, current_status, PolicyDecision
  <2>4. \/ final.delay = IF engine.action = "WAIT" THEN engine.delay ELSE 1
        \/ final.delay = engine.delay
    BY <2>2, <2>3, WaitVerdict DEF ActionTypes
  <2> QED
    BY <2>1, <2>4 DEF schedule_delay, NoDelay
<1> QED
  BY <1>1, ComputedAlways, PTL

=============================================================================
