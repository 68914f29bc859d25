---------------------------- MODULE MCPolicyRow ----------------------------
(* Three first tasks of a merchant, and two rollbacks or time limits. *)
EXTENDS PolicyRow

=============================================================================
