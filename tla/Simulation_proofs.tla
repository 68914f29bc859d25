------------------------- MODULE Simulation_proofs -------------------------
(***************************************************************************)
(* What an experiment of any size, on any population and any random        *)
(* numbers, says about the two strategies.                                 *)
(***************************************************************************)
EXTENDS Simulation, TLAPS

(* The results are numbers. *)
Results ==
    [ total_cases : Int, recovered_cases : Int, at_risk : Int,
      recovered_amount : Int, contacts : Int ]

(* Both strategies have drawn every number of the stream, so the next payment
   is judged by the same number in both. *)
Paired ==
    /\ stream \in Seq(Draws)
    /\ drawn = [ baseline |-> Len(stream), recoverai |-> Len(stream) ]
    /\ baseline \in Results
    /\ recoverai \in Results
    /\ unknown \in [ cases : Int, amount : Int ]

ExperimentInv == Paired /\ BehindOnlyOnUnknown

(* Amounts are positive, and none is too small for the engine. *)
LEMMA AmountsAreRecoverable ==
    ASSUME NEW p \in SimulatedPayments
    PROVE  /\ p.amount \in Nat
           /\ p.amount >= MIN_RECOVERABLE_AMOUNT_MINOR
           /\ p.category \in FailureCategories
<1>1. /\ SmallestAmount \in Nat
      /\ LargestAmount \in Nat
      /\ MIN_RECOVERABLE_AMOUNT_MINOR \in Nat
      /\ SmallestAmount >= MIN_RECOVERABLE_AMOUNT_MINOR
  BY SMT DEF SmallestAmount, LargestAmount, MIN_RECOVERABLE_AMOUNT_MINOR
<1> QED
  BY <1>1, SMT DEF SimulatedPayments

(* For a payment whose failure is known, the action RecoverAI takes is at least
   as likely to succeed as a reminder: the engine's choice is, and so is the
   escalation by which the policy may replace it. *)
LEMMA NoWorseThanReminder ==
    ASSUME NEW p \in SimulatedPayments, p.category # "unknown"
    PROVE  /\ get_recovery_probability(p.category, "SEND_REMINDER") \in Int
           /\ get_recovery_probability(p.category, recoverai_decide(p)) \in Int
           /\ get_recovery_probability(p.category, "SEND_REMINDER")
                <= get_recovery_probability(p.category, recoverai_decide(p))
<1> DEFINE engine == evaluate_recovery(p.amount, p.category)
           action == recoverai_decide(p)
<1>1. /\ p.amount \in Nat
      /\ p.amount >= MIN_RECOVERABLE_AMOUNT_MINOR
      /\ p.category \in FailureCategories \ { "unknown" }
  BY AmountsAreRecoverable
<1>2. /\ p.category = "expired_instrument" => engine.action = "CREATE_PAYMENT_LINK"
      /\ p.category = "insufficient_funds" => engine.action = "WAIT"
      /\ p.category = "temporary_network" => engine.action = "SEND_REMINDER"
      /\ p.category = "issuer_failure" => engine.action = "ESCALATE"
  BY <1>1, SMT DEF evaluate_recovery, RecoveryDecision, MIN_RECOVERABLE_AMOUNT_MINOR
<1>3. engine.action # "STOP" => action \in { engine.action, "ESCALATE" }
  BY SMT DEF recoverai_decide, evaluate_policy, PolicyDecision, is_terminal,
         TERMINAL_STATES, DEFAULT_SIMULATION_POLICY, DefaultLimits
<1> HIDE DEF engine, action
<1>4. CASE p.category = "expired_instrument"
  BY <1>2, <1>3, <1>4
  DEF get_recovery_probability, SIMULATED_RECOVERY_PROBABILITIES, action
<1>5. CASE p.category = "insufficient_funds"
  BY <1>2, <1>3, <1>5
  DEF get_recovery_probability, SIMULATED_RECOVERY_PROBABILITIES, action
<1>6. CASE p.category = "temporary_network"
  BY <1>2, <1>3, <1>6
  DEF get_recovery_probability, SIMULATED_RECOVERY_PROBABILITIES, action
<1>7. CASE p.category = "issuer_failure"
  BY <1>2, <1>3, <1>7
  DEF get_recovery_probability, SIMULATED_RECOVERY_PROBABILITIES, action
<1> QED
  BY <1>1, <1>4, <1>5, <1>6, <1>7 DEF FailureCategories

(* So on one number RecoverAI recovers what the baseline recovers. *)
LEMMA RecoversAsMuch ==
    ASSUME NEW p \in SimulatedPayments, p.category # "unknown", NEW d \in Draws,
           simulate_outcome(p.category, "SEND_REMINDER", d)
    PROVE  simulate_outcome(p.category, recoverai_decide(p), d)
BY NoWorseThanReminder DEF simulate_outcome, Draws

(* What one payment adds to a result. *)
LEMMA PlayAdds ==
    ASSUME NEW result \in Results, NEW p \in SimulatedPayments, NEW action,
           NEW d \in Draws
    PROVE  LET after == Play(result, p, action, d)
               won == simulate_outcome(p.category, action, d)
           IN  /\ after \in Results
               /\ after.recovered_cases =
                     result.recovered_cases + IF won THEN 1 ELSE 0
               /\ after.recovered_amount =
                     result.recovered_amount + IF won THEN p.amount ELSE 0
BY AmountsAreRecoverable, SMT DEF Play, Results, get_contact_count

(* For every population and every stream of random numbers, the two strategies
   are compared on the same numbers, and RecoverAI is behind the baseline by at
   most the payments whose failure is unknown, in number and in amount. *)
THEOREM NeverBehind == Spec => []ExperimentInv
<1>1. Init => ExperimentInv
  BY DEF Init, ExperimentInv, Paired, BehindOnlyOnUnknown, StrategyResult, Results,
         calculate_incremental_recovered_revenue
<1>2. ExperimentInv /\ [Next]_vars => ExperimentInv'
  <2> SUFFICES ASSUME ExperimentInv, [Next]_vars
               PROVE  ExperimentInv'
    OBVIOUS
  <2>1. ASSUME NEW p \in SimulatedPayments, NEW d \in Draws, PlayPayment(p, d)
        PROVE  ExperimentInv'
    <3> DEFINE wonB == simulate_outcome(p.category, "SEND_REMINDER", d)
               wonR == simulate_outcome(p.category, recoverai_decide(p), d)
    <3>1. /\ stream' = Append(stream, d)
          /\ stream' \in Seq(Draws)
          /\ Len(stream') = Len(stream) + 1
          /\ Append(stream, d)[Len(stream) + 1] = d
      BY <2>1 DEF PlayPayment, ExperimentInv, Paired
    <3>2. /\ baseline' = Play(baseline, p, "SEND_REMINDER", d)
          /\ recoverai' = Play(recoverai, p, recoverai_decide(p), d)
      BY <2>1, <3>1 DEF PlayPayment, ExperimentInv, Paired, baseline_decide
    <3>3. /\ baseline' \in Results
          /\ baseline'.recovered_cases =
                baseline.recovered_cases + IF wonB THEN 1 ELSE 0
          /\ baseline'.recovered_amount =
                baseline.recovered_amount + IF wonB THEN p.amount ELSE 0
      BY <3>2, PlayAdds DEF ExperimentInv, Paired
    <3>4. /\ recoverai' \in Results
          /\ recoverai'.recovered_cases =
                recoverai.recovered_cases + IF wonR THEN 1 ELSE 0
          /\ recoverai'.recovered_amount =
                recoverai.recovered_amount + IF wonR THEN p.amount ELSE 0
      BY <3>2, PlayAdds DEF ExperimentInv, Paired
    <3>5. drawn' = [ baseline |-> Len(stream'), recoverai |-> Len(stream') ]
      BY <2>1, <3>1 DEF PlayPayment, ExperimentInv, Paired, draws_of_outcome
    <3>6. p.amount \in Nat
      BY AmountsAreRecoverable
    <3>7. IF p.category = "unknown"
          THEN unknown' = [ cases |-> unknown.cases + 1,
                            amount |-> unknown.amount + p.amount ]
          ELSE unknown' = unknown /\ (wonB => wonR)
      BY <2>1, RecoversAsMuch DEF PlayPayment
    <3>8. Paired'
      BY <3>1, <3>3, <3>4, <3>5, <3>6, <3>7 DEF ExperimentInv, Paired
    <3> HIDE DEF wonB, wonR
    <3>9. /\ recoverai.recovered_amount \in Int /\ baseline.recovered_amount \in Int
          /\ recoverai.recovered_cases \in Int /\ baseline.recovered_cases \in Int
          /\ unknown.amount \in Int /\ unknown.cases \in Int
          /\ recoverai.recovered_amount - baseline.recovered_amount + unknown.amount >= 0
          /\ baseline.recovered_cases <= recoverai.recovered_cases + unknown.cases
      BY DEF ExperimentInv, Paired, Results, BehindOnlyOnUnknown,
             calculate_incremental_recovered_revenue
    <3>10. BehindOnlyOnUnknown'
      <4>1. CASE p.category = "unknown"
        <5>1. /\ unknown'.amount = unknown.amount + p.amount
              /\ unknown'.cases = unknown.cases + 1
          BY <3>7, <4>1
        <5> QED
          BY <3>3, <3>4, <3>6, <3>9, <5>1
          DEF BehindOnlyOnUnknown, calculate_incremental_recovered_revenue
      <4>2. CASE p.category # "unknown"
        BY <3>3, <3>4, <3>6, <3>7, <3>9, <4>2
        DEF BehindOnlyOnUnknown, calculate_incremental_recovered_revenue
      <4> QED
        BY <4>1, <4>2
    <3> QED
      BY <3>8, <3>10 DEF ExperimentInv
  <2>2. CASE UNCHANGED vars
    BY <2>2 DEF vars, ExperimentInv, Paired, BehindOnlyOnUnknown,
                calculate_incremental_recovered_revenue
  <2> QED
    BY <2>1, <2>2 DEF Next
<1> QED
  BY <1>1, <1>2, PTL DEF Spec

=============================================================================
