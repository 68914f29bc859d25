---------------------------- MODULE MCDashboard ----------------------------
(* Small instance of Dashboard: one case, two workers.  No faults: a crash or a
   duplicate commits nothing that another order of the steps would not. *)
EXTENDS Dashboard

(* The payment of the case has no notes. *)
MCNoNotes == [ c \in Cases |-> None ]

MCAmounts == { 1500 }

MCCategories == { "expired_instrument" }

(* The default policy, under which the LLM's answer decides, and one under which
   a scheduled action is refused. *)
MCLimits == { DefaultLimits, [ DefaultLimits EXCEPT !.max_actions = 0 ] }

=============================================================================
