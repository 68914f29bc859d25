---------------------------- MODULE MCTaskRetry ----------------------------
(* The task's own max_retries; a lost worker may leave two lines of messages. *)
EXTENDS TaskRetry

=============================================================================
