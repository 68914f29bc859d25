-------------------------- MODULE RecoveryPolicy --------------------------
(***************************************************************************)
(* The pure decision rules: the deterministic engine                       *)
(* (app/domain/recovery_engine.py), the policy engine (app/domain/policy.py*)
(* with the counts of app/services/policy_service.py), what the agent      *)
(* hands back (app/agents/) and how the worker combines the three          *)
(* (app/tasks/recovery.py).                                                *)
(*                                                                         *)
(* A Python None for delay_hours is NoDelay.  Reasons and confidences are  *)
(* left out: they are only logged and audited.                             *)
(***************************************************************************)
EXTENDS RecoveryState, Integers, FiniteSets

MIN_RECOVERABLE_AMOUNT_MINOR == 1000

NoDelay == -1

(* What classify_failure of the webhook handlers can return. *)
FailureCategories ==
    { "unknown", "expired_instrument", "insufficient_funds",
      "temporary_network", "issuer_failure" }

(* The class PolicyLimits, as policy_limits_from fills it from a policy row;
   the bounds are the CHECK constraints of merchant_policies. *)
PolicyLimits ==
    [ max_actions : Nat, max_reminders : Nat, one_active_link : BOOLEAN,
      escalation : BOOLEAN, threshold : Nat ]

(* The column defaults get_or_create_default_policy inserts. *)
DefaultLimits ==
    [ max_actions |-> 3, max_reminders |-> 2, one_active_link |-> TRUE,
      escalation |-> TRUE, threshold |-> 500000 ]

-----------------------------------------------------------------------------
(* evaluate_recovery: the engine's candidate and its delay. *)
RecoveryDecision(action, delay) == [ action |-> action, delay |-> delay ]

evaluate_recovery(amount, category) ==
    IF amount < MIN_RECOVERABLE_AMOUNT_MINOR
    THEN RecoveryDecision("STOP", NoDelay)
    ELSE CASE category = "expired_instrument" ->
                 RecoveryDecision("CREATE_PAYMENT_LINK", NoDelay)
           [] category = "insufficient_funds" -> RecoveryDecision("WAIT", 24)
           [] category = "temporary_network" ->
                 RecoveryDecision("SEND_REMINDER", NoDelay)
           [] category = "issuer_failure" -> RecoveryDecision("ESCALATE", NoDelay)
           [] OTHER -> RecoveryDecision("STOP", NoDelay)

-----------------------------------------------------------------------------
(* The counts build_policy_input selects from the action rows of a case.
   rows maps each action type to its status (attempt_number is always 1, so a
   case has at most one row per type) or to NoRow; excluded is the set of types
   left out, empty or the one being claimed. *)
NoRow == "none"

ActiveLinkStatuses == { "PENDING", "APPROVED", "EXECUTING" }

CountedTypes(rows, excluded) ==
    { t \in ActionTypes \ excluded :
        rows[t] \notin { NoRow, "DENIED", "CANCELLED" } }

build_policy_input(rows, excluded) ==
    LET counted == CountedTypes(rows, excluded)
    IN  [ total |-> Cardinality(counted),
          reminders |-> IF "SEND_REMINDER" \in counted THEN 1 ELSE 0,
          links |-> IF /\ "CREATE_PAYMENT_LINK" \notin excluded
                       /\ rows["CREATE_PAYMENT_LINK"] \in ActiveLinkStatuses
                    THEN 1 ELSE 0 ]

PolicyDecision(approved, action, delay) ==
    [ approved |-> approved, action |-> action, delay |-> delay ]

RequiresEscalation(limits, amount) ==
    limits.escalation /\ amount >= limits.threshold

(* evaluate_policy: the rules in the order of the code, the first one that
   applies decides. *)
evaluate_policy(limits, status, amount, candidate, counts, delay) ==
    IF is_terminal(status)
    THEN PolicyDecision(FALSE, "STOP", NoDelay)
    ELSE IF /\ RequiresEscalation(limits, amount)
            /\ candidate \notin { "ESCALATE", "STOP" }
    THEN PolicyDecision(FALSE, "ESCALATE", NoDelay)
    ELSE IF counts.total >= limits.max_actions
    THEN PolicyDecision(FALSE, "STOP", NoDelay)
    ELSE IF /\ candidate = "SEND_REMINDER"
            /\ counts.reminders >= limits.max_reminders
    THEN PolicyDecision(FALSE, "STOP", NoDelay)
    ELSE IF /\ candidate = "CREATE_PAYMENT_LINK"
            /\ limits.one_active_link
            /\ counts.links > 0
    THEN PolicyDecision(FALSE, "WAIT", 1)
    ELSE IF candidate = "WAIT"
    THEN PolicyDecision(TRUE, "WAIT", delay)
    ELSE PolicyDecision(TRUE, candidate, NoDelay)

-----------------------------------------------------------------------------
(* run_recovery_agent.  The model behind call_recovery_llm is an outside
   service.  Its schema lets through any of the five actions, with source
   "llm"; a disabled or slow model, an answer that does not parse or names an
   unknown action, and any exception (together: Unusable) fall back to the
   action the policy engine chose. *)
Unusable == "unusable"

LlmAnswers == ActionTypes \cup { Unusable }

AgentDecision(action, source) == [ action |-> action, source |-> source ]

(* Mutant of run_recovery_agent: the answer is not validated. *)
agent_unvalidated(answer, policy) == AgentDecision(answer, "llm")

run_recovery_agent(answer, policy) ==
    IF answer \in ActionTypes
    THEN AgentDecision(answer, "llm")
    ELSE AgentDecision(policy.action, "deterministic_fallback")

(* The worker's choice between the agent's action and the deterministic one:
   an action that comes from the LLM is taken only if the policy engine
   approves that very action. *)
select_final(limits, status, amount, engine, policy, agent, counts) ==
    LET again ==
          evaluate_policy(limits, status, amount, agent.action, counts,
                          IF agent.action = "WAIT" THEN engine.delay
                                                   ELSE NoDelay)
    IN  IF agent.action = policy.action /\ agent.source # "llm"
        THEN policy
        ELSE IF again.approved /\ again.action = agent.action
        THEN again
        ELSE PolicyDecision(FALSE, policy.action, policy.delay)

(* Mutant of schedule_delay: a missing delay means now. *)
schedule_undefaulted(engine, final) ==
    IF final.action = "WAIT" /\ final.delay # NoDelay THEN final.delay ELSE 0

(* Hours until the scheduled action is due. *)
schedule_delay(engine, final) ==
    IF final.action # "WAIT" THEN 0
    ELSE IF final.delay # NoDelay THEN final.delay
    ELSE IF engine.action = "WAIT" /\ engine.delay # NoDelay THEN engine.delay
    ELSE 1

(* _claim_action: the re-evaluation just before an action is executed. *)
claim_allowed(limits, status, amount, type, counts) ==
    LET decision == evaluate_policy(limits, status, amount, type, counts, NoDelay)
    IN  /\ ~is_terminal(status)
        /\ decision.approved
        /\ decision.action = type

=============================================================================
