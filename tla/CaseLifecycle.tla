--------------------------- MODULE CaseLifecycle ---------------------------
(***************************************************************************)
(* What the write path promises about a recovery case, seen from outside:  *)
(* every step is one committed change of the case and its action.  There   *)
(* are no messages, workers, versions, locks or open transactions here;    *)
(* RecoveryCore has them all, and implements this specification.           *)
(***************************************************************************)
EXTENDS RecoveryState, Naturals

CONSTANT Cases

VARIABLES
    status,  \* the status of each case, NoCase before its payment fails
    action,  \* the status of its actions, by type
    calls    \* external calls made for its actions, by type

vars == << status, action, calls >>

NoCase == "none"

Init ==
    /\ status = [ c \in Cases |-> NoCase ]
    /\ action = [ c \in Cases |-> [ t \in ActionTypes |-> NoCase ] ]
    /\ calls = [ c \in Cases |-> [ t \in ActionTypes |-> 0 ] ]

(* A payment fails. *)
Open(c) ==
    /\ status[c] = NoCase
    /\ status' = [ status EXCEPT ![c] = "ELIGIBLE" ]
    /\ UNCHANGED << action, calls >>

StatusAfter(t) ==
    CASE t = "STOP" -> "STOPPED"
      [] t = "ESCALATE" -> "ESCALATED"
      [] OTHER -> "ACTION_SCHEDULED"

(* The case is decided, once, with one action. *)
Decide(c, t) ==
    /\ status[c] = "ELIGIBLE"
    /\ \A u \in ActionTypes : action[c][u] = NoCase
    /\ status' = [ status EXCEPT ![c] = StatusAfter(t) ]
    /\ action' = [ action EXCEPT ![c][t] = "APPROVED" ]
    /\ UNCHANGED calls

(* An approved action is started, ... *)
Start(c, t) ==
    /\ action[c][t] = "APPROVED"
    /\ action' = [ action EXCEPT ![c][t] = "EXECUTING" ]
    /\ UNCHANGED << status, calls >>

(* ... makes its one external call, ... *)
Call(c, t) ==
    /\ action[c][t] = "EXECUTING"
    /\ calls[c][t] = 0
    /\ calls' = [ calls EXCEPT ![c][t] = 1 ]
    /\ UNCHANGED << status, action >>

(* ... and succeeds after that call, which lets a case that is still scheduled
   wait for its payment, or fails, which leaves the case as it is. *)
Succeed(c, t) ==
    /\ action[c][t] = "EXECUTING"
    /\ calls[c][t] = 1
    /\ action' = [ action EXCEPT ![c][t] = "EXECUTED" ]
    /\ status' = [ status EXCEPT ![c] =
                     IF @ = "ACTION_SCHEDULED" THEN "WAITING" ELSE @ ]
    /\ UNCHANGED calls

Fail(c, t) ==
    /\ action[c][t] = "EXECUTING"
    /\ calls[c][t] = 1
    /\ action' = [ action EXCEPT ![c][t] = "FAILED" ]
    /\ UNCHANGED << status, calls >>

(* An approved action that is no longer allowed is cancelled, and stops the case
   that was scheduled for it. *)
Cancel(c, t) ==
    /\ action[c][t] = "APPROVED"
    /\ action' = [ action EXCEPT ![c][t] = "CANCELLED" ]
    /\ status' = [ status EXCEPT ![c] =
                     IF @ = "ACTION_SCHEDULED" THEN "STOPPED" ELSE @ ]
    /\ UNCHANGED calls

(* A payment of the case is captured.  The actions it finds approved are
   cancelled; one that has just been approved may be missed. *)
Recover(c, found) ==
    /\ status[c] # NoCase
    /\ \A t \in found : action[c][t] = "APPROVED"
    /\ status' = [ status EXCEPT ![c] = "RECOVERED" ]
    /\ action' = [ action EXCEPT ![c] =
                     [ t \in ActionTypes |->
                         IF t \in found THEN "CANCELLED" ELSE @[t] ] ]
    /\ UNCHANGED calls

Next ==
    \E c \in Cases :
        \/ Open(c)
        \/ \E t \in ActionTypes :
              \/ Decide(c, t)
              \/ Start(c, t)
              \/ Call(c, t)
              \/ Succeed(c, t)
              \/ Fail(c, t)
              \/ Cancel(c, t)
        \/ \E found \in SUBSET ActionTypes : Recover(c, found)

Spec == Init /\ [][Next]_vars

=============================================================================
