--------------------------- MODULE MCWebhookInbox ---------------------------
(* Small instances of WebhookInbox. *)
EXTENDS WebhookInbox

(* A payment with two failures and a capture, a second one through its link that
   fails and is captured, and two other events. *)
MCEventIds == { "f1", "f2", "c1", "g1", "d1", "u1", "i1" }

MCKind ==
    [ e \in MCEventIds |->
        CASE e \in { "c1", "d1" } -> "captured"
          [] e = "u1" -> "unsupported"
          [] e = "i1" -> "invalid"
          [] OTHER -> "failed" ]

MCPayments == { "p1", "q1" }

MCPaymentOf ==
    [ e \in MCEventIds |-> IF e \in { "g1", "d1" } THEN "q1" ELSE "p1" ]

MCNotes == [ p1 |-> None, q1 |-> "p1" ]

(* A failure and a capture of one payment. *)
MCPair == { "f1", "c1" }

MCPairKind == [ f1 |-> "failed", c1 |-> "captured" ]

MCPairPayments == { "p1" }

MCPairPayment == [ f1 |-> "p1", c1 |-> "p1" ]

MCPairNotes == [ p1 |-> None ]

=============================================================================
