----------------------------- MODULE Simulation -----------------------------
(***************************************************************************)
(* The offline experiment (app/simulation/): a population of failed        *)
(* payments is played twice, once with the baseline, which sends a         *)
(* reminder whatever happened, and once with RecoverAI's engine and policy.*)
(* Each strategy has a random generator of its own, both with one seed, so *)
(* they see the same numbers for the same payment as long as both draw     *)
(* equally often.                                                          *)
(*                                                                         *)
(* A random number u is the integer part of 100u, and the probabilities    *)
(* are percentages, so u < p reads the same.  The stream of a seed is any  *)
(* sequence, made up as it is needed.                                      *)
(***************************************************************************)
EXTENDS RecoveryPolicy, Sequences

CONSTANT Size  \* payments in the population

VARIABLES
    stream,     \* the numbers of the seed, as far as they are known
    drawn,      \* how many each strategy has drawn
    baseline,   \* StrategyResult of the baseline
    recoverai,  \* StrategyResult of RecoverAI
    unknown     \* payments so far with category unknown: their number and amount

vars == << stream, drawn, baseline, recoverai, unknown >>

(* run_experiment passes no policy of its own. *)
DEFAULT_SIMULATION_POLICY == [ DefaultLimits EXCEPT !.threshold = 5000000 ]

(* generate_population draws amounts from buckets that leave no gap between the
   smallest and the largest, and any of the categories. *)
SmallestAmount == 10000
LargestAmount == 50000000

SimulatedPayments ==
    [ amount : SmallestAmount..LargestAmount, category : FailureCategories ]

Draws == 0..99

StrategyResult ==
    [ total_cases |-> 0, recovered_cases |-> 0, at_risk |-> 0,
      recovered_amount |-> 0, contacts |-> 0 ]

Init ==
    /\ stream = << >>
    /\ drawn = [ baseline |-> 0, recoverai |-> 0 ]
    /\ baseline = StrategyResult
    /\ recoverai = StrategyResult
    /\ unknown = [ cases |-> 0, amount |-> 0 ]

-----------------------------------------------------------------------------
(* Simulated outcomes. *)

SIMULATED_RECOVERY_PROBABILITIES ==
    [ expired_instrument |->
        [ CREATE_PAYMENT_LINK |-> 45, SEND_REMINDER |-> 25, WAIT |-> 15,
          ESCALATE |-> 50, STOP |-> 0 ],
      insufficient_funds |->
        [ WAIT |-> 35, SEND_REMINDER |-> 20, CREATE_PAYMENT_LINK |-> 15,
          ESCALATE |-> 45, STOP |-> 0 ],
      temporary_network |->
        [ SEND_REMINDER |-> 40, WAIT |-> 30, CREATE_PAYMENT_LINK |-> 20,
          ESCALATE |-> 40, STOP |-> 0 ],
      issuer_failure |->
        [ ESCALATE |-> 55, WAIT |-> 10, SEND_REMINDER |-> 5,
          CREATE_PAYMENT_LINK |-> 5, STOP |-> 0 ],
      unknown |->
        [ WAIT |-> 10, SEND_REMINDER |-> 8, CREATE_PAYMENT_LINK |-> 5,
          ESCALATE |-> 35, STOP |-> 0 ] ]

get_recovery_probability(category, action) ==
    SIMULATED_RECOVERY_PROBABILITIES[category][action]

get_contact_count(action) ==
    IF action \in { "SEND_REMINDER", "CREATE_PAYMENT_LINK" } THEN 1 ELSE 0

(* simulate_outcome calls rng.random() once, ... *)
draws_of_outcome(category, action) == 1

(* ... and compares. *)
simulate_outcome(category, action, draw) ==
    draw < get_recovery_probability(category, action)

-----------------------------------------------------------------------------
(* The two strategies. *)

baseline_decide(payment) == "SEND_REMINDER"

recoverai_decide(payment) ==
    LET engine == evaluate_recovery(payment.amount, payment.category)
    IN  evaluate_policy(DEFAULT_SIMULATION_POLICY, "ANALYSING", payment.amount,
                        engine.action, [ total |-> 0, reminders |-> 0, links |-> 0 ],
                        engine.delay).action

(* A payment in the result of a strategy. *)
Play(result, payment, action, draw) ==
    LET recovered == simulate_outcome(payment.category, action, draw)
    IN  [ total_cases |-> result.total_cases + 1,
          recovered_cases |-> result.recovered_cases + IF recovered THEN 1 ELSE 0,
          at_risk |-> result.at_risk + payment.amount,
          recovered_amount |-> result.recovered_amount
                                 + IF recovered THEN payment.amount ELSE 0,
          contacts |-> result.contacts + get_contact_count(action) ]

(* The body of the loop of run_experiment: next is the number the seed gives
   after those of stream. *)
PlayPayment(payment, next) ==
    LET numbers == Append(stream, next)
        actionB == baseline_decide(payment)
        actionR == recoverai_decide(payment)
    IN  /\ baseline.total_cases < Size
        /\ stream' = numbers
        /\ baseline' = Play(baseline, payment, actionB, numbers[drawn.baseline + 1])
        /\ recoverai' = Play(recoverai, payment, actionR,
                             numbers[drawn.recoverai + 1])
        /\ drawn' = [ baseline |-> drawn.baseline
                                     + draws_of_outcome(payment.category, actionB),
                      recoverai |-> drawn.recoverai
                                     + draws_of_outcome(payment.category, actionR) ]
        /\ unknown' = IF payment.category = "unknown"
                      THEN [ cases |-> unknown.cases + 1,
                             amount |-> unknown.amount + payment.amount ]
                      ELSE unknown

Next == \E p \in SimulatedPayments, d \in Draws : PlayPayment(p, d)

Spec == Init /\ [][Next]_vars

-----------------------------------------------------------------------------
calculate_incremental_recovered_revenue ==
    recoverai.recovered_amount - baseline.recovered_amount

(* RecoverAI is never behind, payment by payment and not only on average: on the
   same numbers it recovers whatever the baseline recovers, except for payments
   whose failure is unknown, which it stops.  So the incremental revenue of an
   experiment is negative by at most the amount of those. *)
BehindOnlyOnUnknown ==
    /\ calculate_incremental_recovered_revenue + unknown.amount >= 0
    /\ baseline.recovered_cases <= recoverai.recovered_cases + unknown.cases

=============================================================================
