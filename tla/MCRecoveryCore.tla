-------------------------- MODULE MCRecoveryCore --------------------------
(* Small instances of RecoveryCore. *)
EXTENDS RecoveryCore, TLC

(* One case, whose payment has no notes. *)
MCNoNotes == [ c \in Cases |-> None ]

(* Two cases: the payment of the second is made through the link of the first. *)
MCLinkCases == { "c1", "c2" }

MCLinkNotes == [ c1 |-> None, c2 |-> "c1" ]

(* The default policy, and one under which the amount needs a human. *)
MCLimits == { DefaultLimits, [ DefaultLimits EXCEPT !.threshold = 5000 ] }

MCAmounts == { 8000 }

MCCategories == { "expired_instrument", "insufficient_funds" }

(* The instances about liveness and about the documentation's claims need only
   one kind of failed payment; the LLM still answers anything. *)
MCOneAmount == { 1500 }

MCOneCategory == { "expired_instrument" }

MCDefaultLimits == { DefaultLimits }

(* The default policy, and one that allows no action at all. *)
MCTightenedLimits == { DefaultLimits, [ DefaultLimits EXCEPT !.max_actions = 0 ] }

(* The bound on the instance with two cases: from the moment the second payment is
   made, only the plain states are explored further, those without a fault, under
   the default policy, with one kind of failed payment, and until the event of the
   second case is published and the first case closed. *)
SecondPaymentMade ==
    status["c2"] # NoRow \/ "c2" \in paid["c1"] \/ hook["c1"]["c2"] # "idle"

Plain ==
    /\ faults = 0
    /\ limits = DefaultLimits
    /\ \A c \in Cases : status[c] # NoRow =>
          facts[c].category = "expired_instrument"
    /\ outbox["c2"]["eligible"] = "PUBLISHED" => ~is_terminal(status["c1"])

MCConstraint == SecondPaymentMade => Plain

(* The workers are interchangeable. *)
MCSymmetry == Permutations(Workers)

=============================================================================
