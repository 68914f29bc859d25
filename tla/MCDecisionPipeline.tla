------------------------ MODULE MCDecisionPipeline ------------------------
(* Small instance of DecisionPipeline: amounts on both sides of the minimum
   and of the escalation threshold, counts on both sides of every limit. *)
EXTENDS DecisionPipeline

MCLimits ==
    { DefaultLimits }
      \cup [ max_actions : {0, 1}, max_reminders : {0, 1},
             one_active_link : BOOLEAN, escalation : BOOLEAN,
             threshold : {5000} ]

MCAmounts == { 999, 1000, 4999, 5000, 500000 }

MCCounts ==
    { k \in [ total : 0..3, reminders : {0, 1}, links : {0, 1} ] :
        k.reminders + k.links <= k.total }

=============================================================================
