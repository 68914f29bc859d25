------------------------------ MODULE MCOutbox ------------------------------
(* Small instance of Outbox: more events than a batch holds. *)
EXTENDS Outbox

MCEvents == 1..3

MCTwoEvents == 1..2

=============================================================================
