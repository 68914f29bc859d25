--------------------------- MODULE RecoveryState ---------------------------
(***************************************************************************)
(* The life cycle of a recovery case: the statuses of app/models/enums.py  *)
(* and the transition table and predicates of app/domain/recovery_state.py.*)
(* Every component that moves a case goes through validate_transition.     *)
(***************************************************************************)

(* RecoveryCaseStatus *)
CaseStatuses ==
    { "FAILED", "ELIGIBLE", "ANALYSING", "ACTION_SELECTED", "ACTION_SCHEDULED",
      "WAITING", "RECOVERED", "STOPPED", "ESCALATED" }

(* RecoveryActionType *)
ActionTypes ==
    { "WAIT", "CREATE_PAYMENT_LINK", "SEND_REMINDER", "STOP", "ESCALATE" }

(* RecoveryActionStatus *)
ActionStatuses ==
    { "PENDING", "APPROVED", "DENIED", "EXECUTING", "EXECUTED", "CANCELLED",
      "FAILED" }

TERMINAL_STATES == { "RECOVERED", "STOPPED", "ESCALATED" }

ALLOWED_TRANSITIONS ==
    [ s \in CaseStatuses |->
        CASE s = "FAILED" -> { "ELIGIBLE", "STOPPED", "RECOVERED" }
          [] s = "ELIGIBLE" -> { "ANALYSING", "STOPPED", "RECOVERED" }
          [] s = "ANALYSING" ->
                { "ACTION_SELECTED", "WAITING" } \cup TERMINAL_STATES
          [] s = "ACTION_SELECTED" ->
                { "ACTION_SCHEDULED" } \cup TERMINAL_STATES
          [] s = "ACTION_SCHEDULED" -> { "WAITING" } \cup TERMINAL_STATES
          [] s = "WAITING" ->
                { "ACTION_SELECTED", "ANALYSING" } \cup TERMINAL_STATES
          [] OTHER -> {} ]

is_terminal(status) == status \in TERMINAL_STATES

can_transition(current, new) == new \in ALLOWED_TRANSITIONS[current]

(* TRUE where the code returns, FALSE where it raises InvalidStateTransition *)
validate_transition(current, new) ==
    \/ current = new
    \/ /\ ~is_terminal(current)
       /\ can_transition(current, new)

=============================================================================
