--------------------------- MODULE RecoveryCore ---------------------------
(***************************************************************************)
(* The write path of RecoverAI around one recovery case: the Razorpay      *)
(* webhook handlers, the transactional outbox and its dispatcher, the      *)
(* Celery queue, and the workers that decide on a case and execute its     *)
(* action.                                                                 *)
(*                                                                         *)
(* Database.  PostgreSQL at READ COMMITTED.  The row variables (status,    *)
(* version, facts, action, outbox, paid, limits, audit) hold COMMITTED     *)
(* values.  A transaction is a sequence of steps: reads copy committed     *)
(* values into the process (job, hookVersion), an UPDATE waits for the     *)
(* row's lock and then tests its WHERE clause on the committed row, and    *)
(* the last step commits everything the transaction wrote.  A lock is not  *)
(* a variable: a row is locked while some process is in a step whose       *)
(* transaction has updated it (CaseLocked, ActionLocked).  A rollback      *)
(* forgets the process state and nothing else.                             *)
(*                                                                         *)
(* Rows.  attempt_number is always 1, so a case has at most one action per *)
(* action type, and an action_scheduled outbox event is named by the type  *)
(* of its action.  Audit rows are counted by case and entry.  Payloads,    *)
(* references and timestamps are left out: nothing in the write path reads *)
(* them.  deliver_at is too: the dispatcher may take any time to publish   *)
(* an event.                                                               *)
(*                                                                         *)
(* Payments.  Every case has a payment of its own, the failed one.  That   *)
(* payment may itself have been made through the recovery link of another  *)
(* case, which its notes name: then its failure opens its own case, and    *)
(* its capture closes the other one (NotesOf).                             *)
(***************************************************************************)
EXTENDS RecoveryPolicy

CONSTANTS
    Cases,       \* recovery cases, one per payment that may fail
    NotesOf,     \* the case named in the notes of the case's own payment
    Workers,     \* Celery worker processes
    LimitsSet,   \* merchant policies that may be in force
    Amounts,     \* amounts of the failed payments, in minor units
    Categories,  \* failure categories of the failed payments
    FaultKinds,  \* what may happen to an event on its way, from AllFaultKinds
    MaxFaults    \* bound on the faults of a behaviour

(* redelivered: the worker dies or a database error makes the task retry, and
   its message comes back; abandoned: nobody will try again, because a task has
   ended with an exception that is not retried (the soft time limit, max_retries
   reached) or an event could not be published within the allowed attempts. *)
AllFaultKinds == { "redelivered", "abandoned" }

None == "none"

ASSUME NamesAssumption == None \notin Cases /\ "link" \notin Cases
ASSUME NotesAssumption == NotesOf \in [ Cases -> Cases \cup { None } ]
ASSUME LimitsAssumption == LimitsSet # {} /\ LimitsSet \subseteq PolicyLimits
ASSUME AmountsAssumption == Amounts \subseteq Nat
ASSUME CategoriesAssumption == Categories \subseteq FailureCategories
ASSUME FaultsAssumption == FaultKinds \subseteq AllFaultKinds /\ MaxFaults \in Nat

VARIABLES
    status,       \* recovery_cases.status, NoRow before the payment fails
    version,      \* recovery_cases.version
    facts,        \* recovery_cases.amount_minor and failure_category
    action,       \* recovery_actions.status by case and type, or NoRow
    outbox,       \* outbox_events.status by case and event, or NoRow
    paid,         \* the captured payments that are for the case
    limits,       \* the merchant_policies row
    audit,        \* audit_events rows, counted by case and entry
    queue,        \* messages in the Celery queue, by case and event
    pc,           \* what each worker is doing
    job,          \* the worker's task, and the case row it read last
    hook,         \* state of the payment.captured transaction
    hookVersion,  \* the version that transaction read
    hookRows,     \* the action rows it has cancelled, not yet committed
    calls,        \* runs of _execute_external, by case and type
    link,         \* TRUE once the provider has a payment link for the case
    faults,       \* faults so far
    abandoned     \* events whose task ended with an exception, by case

rows == << status, version, facts, action, outbox, paid, limits, audit >>
workerVars == << pc, job >>
hookVars == << hook, hookVersion, hookRows >>
faultVars == << faults, abandoned >>
vars == << rows, queue, workerVars, hookVars, calls, link, faultVars >>

(* The payments captures are about: the own payment of each case, and one made
   through a recovery link that never failed and has no case. *)
Sources == Cases \cup { "link" }

(* Mutant of CaseOf: the notes of a payment with a case are not read. *)
OwnCase(x) == x

(* The case for which handle_payment_captured takes the own payment of case x: the
   one in its notes, and only without one its own. *)
CaseOf(x) == IF NotesOf[x] = None THEN x ELSE NotesOf[x]

(* The own payment of case x is made through a link that exists, if through one:
   the link is what puts a case into the notes. *)
MayBePaid(x) == NotesOf[x] # None => link[NotesOf[x]]

(* The types the worker schedules; STOP and ESCALATE only close the case. *)
ExecutableTypes == { "WAIT", "CREATE_PAYMENT_LINK", "SEND_REMINDER" }

(* Outbox events: recovery_case.eligible, recovery_case.recovered, and
   recovery_case.action_scheduled, one for each action that can be scheduled. *)
Events == { "eligible", "recovered" } \cup ExecutableTypes

(* Entries of the audit trail, after their event_type: those written about the
   case (entity_type recovery_case), and those the executor writes about the
   action (entity_type recovery_action). *)
CaseEntries == { "eligible", "decision", "recovered" }

ActionEntries == { "claimed", "cancelled", "executed", "failed" }

AuditEntries == CaseEntries \cup ActionEntries

(* OutboxEventStatus *)
OutboxStatuses == { "PENDING", "PUBLISHED", "FAILED" }

Stages ==
    { "idle", "eligible", "deciding", "claiming", "refusing", "stopping",
      "claimed", "succeeded", "failed", "finalizing", "moving", "recording" }

NoJob == [ case |-> None, event |-> None, status |-> None, version |-> 0 ]

Job(c, e) ==
    [ case |-> c, event |-> e, status |-> status[c], version |-> version[c] ]

Init ==
    /\ status = [ c \in Cases |-> NoRow ]
    /\ version = [ c \in Cases |-> 0 ]
    /\ facts = [ c \in Cases |-> [ amount |-> 0, category |-> "unknown" ] ]
    /\ action = [ c \in Cases |-> [ t \in ActionTypes |-> NoRow ] ]
    /\ outbox = [ c \in Cases |-> [ e \in Events |-> NoRow ] ]
    /\ paid = [ c \in Cases |-> {} ]
    /\ limits \in LimitsSet
    /\ audit = [ c \in Cases |-> [ n \in AuditEntries |-> 0 ] ]
    /\ queue = [ c \in Cases |-> [ e \in Events |-> 0 ] ]
    /\ pc = [ w \in Workers |-> "idle" ]
    /\ job = [ w \in Workers |-> NoJob ]
    /\ hook = [ c \in Cases |-> [ s \in Sources |-> "idle" ] ]
    /\ hookVersion = [ c \in Cases |-> [ s \in Sources |-> 0 ] ]
    /\ hookRows = [ c \in Cases |-> [ s \in Sources |-> {} ] ]
    /\ calls = [ c \in Cases |-> [ t \in ActionTypes |-> 0 ] ]
    /\ link = [ c \in Cases |-> FALSE ]
    /\ faults = 0
    /\ abandoned = [ c \in Cases |-> {} ]

-----------------------------------------------------------------------------
(* Row locks and WHERE clauses. *)

(* A worker has updated the case row in a transaction that is still open. *)
CaseLocked(c) ==
    \E w \in Workers : pc[w] \in { "deciding", "moving" } /\ job[w].case = c

(* A worker, or a payment.captured transaction, has updated the action row in a
   transaction that is still open. *)
ActionLocked(c, t) ==
    \/ \E w \in Workers :
          pc[w] = "stopping" /\ job[w].case = c /\ job[w].event = t
    \/ \E s \in Sources : t \in hookRows[c][s]

(* Mutant of atomic_transition_recovery_case: WHERE id only. *)
transition_by_id(c, expected, v, new) == validate_transition(expected, new)

(* UPDATE recovery_cases ... WHERE id, status and version: rowcount = 1. *)
atomic_transition_recovery_case(c, expected, v, new) ==
    /\ validate_transition(expected, new)
    /\ status[c] = expected
    /\ version[c] = v

(* Mutant of atomic_action_transition: WHERE id only. *)
action_transition_by_id(c, t, expected) == action[c][t] # NoRow

(* UPDATE recovery_actions ... WHERE id and status: rowcount = 1. *)
atomic_action_transition(c, t, expected) == action[c][t] = expected

(* Mutant of recovered_flush: the capture writes with the optimistic guard and
   does not look at the rowcount. *)
recovered_flush_guarded(c, v) == version[c] = v

(* The WHERE clause of the ORM flush that writes a case back to its row: the
   primary key, nothing else. *)
recovered_flush(c, v) == status[c] # NoRow

-----------------------------------------------------------------------------
(* The audit trail: every entry is a row of the transaction that writes it. *)

insert_audit(c, entry) == audit' = [ audit EXCEPT ![c][entry] = @ + 1 ]

insert_decision_audit(c) == insert_audit(c, "decision")

(* _audit of the executor *)
action_audit(c, entry) == insert_audit(c, entry)

-----------------------------------------------------------------------------
(* Webhook handlers. *)

(* handle_payment_failed for a payment not seen before: payment, case (FAILED,
   version 1, then ELIGIBLE, version 2), audit entry and outbox event in one
   transaction; the notes are not read.  A later payment.failed of the same
   payment finds the case and changes nothing modelled here; one that comes after
   the capture is ignored, and one that comes with it is in WebhookInbox. *)
PaymentFailed(c, amount, category) ==
    /\ status[c] = NoRow
    /\ MayBePaid(c)
    /\ c \notin paid[CaseOf(c)]
    /\ hook[CaseOf(c)][c] = "idle"
    /\ status' = [ status EXCEPT ![c] = "ELIGIBLE" ]
    /\ version' = [ version EXCEPT ![c] = 2 ]
    /\ facts' = [ facts EXCEPT ![c] =
                    [ amount |-> amount, category |-> category ] ]
    /\ outbox' = [ outbox EXCEPT ![c]["eligible"] = "PENDING" ]
    /\ insert_audit(c, "eligible")
    /\ UNCHANGED << action, paid, limits, queue, workerVars, hookVars, calls,
                    link, faultVars >>

(* handle_payment_captured of the payment s, which is for case c: an own payment of
   some case, at any time it can be made, or a link payment without a case, once
   the link exists.  A case of its own that s may have is not looked up if its
   notes name c.  The payment row, locked from its flush on, keeps two captures of
   one payment apart. *)
CaptureArrives(c, s) ==
    /\ hook[c][s] = "idle"
    /\ s \notin paid[c]
    /\ s = "link" => link[c]
    /\ s \in Cases => c = CaseOf(s) /\ MayBePaid(s)

(* There is a case, and it may still become RECOVERED. *)
CaseIsOpen(c) ==
    /\ status[c] # NoRow
    /\ ~is_terminal(status[c])
    /\ validate_transition(status[c], "RECOVERED")

(* No case, or a case that is closed: only the payment is written. *)
CaptureRecorded(c, s) ==
    /\ CaptureArrives(c, s)
    /\ ~CaseIsOpen(c)
    /\ paid' = [ paid EXCEPT ![c] = @ \cup { s } ]
    /\ UNCHANGED << status, version, facts, action, outbox, limits, audit, queue,
                    workerVars, hookVars, calls, link, faultVars >>

(* _mark_case_recovered on an open case, first part: the case is read, and
   changed in memory only. *)
CaptureRead(c, s) ==
    /\ CaptureArrives(c, s)
    /\ CaseIsOpen(c)
    /\ hook' = [ hook EXCEPT ![c][s] = "read" ]
    /\ hookVersion' = [ hookVersion EXCEPT ![c][s] = version[c] ]
    /\ UNCHANGED << rows, queue, workerVars, hookRows, calls, link, faultVars >>

(* Mutant of CancellableStatuses: also the action being executed. *)
UnfinishedStatuses == { "PENDING", "APPROVED", "EXECUTING" }

CancellableStatuses == { "PENDING", "APPROVED" }

(* The UPDATE of the actions.  It runs before the case row is written, and sees
   (and locks) the actions committed by now. *)
CaptureCancel(c, s) ==
    /\ hook[c][s] = "read"
    /\ LET cancelled ==
             { t \in ActionTypes : action[c][t] \in CancellableStatuses }
       IN  /\ \A t \in cancelled : ~ActionLocked(c, t)
           /\ hookRows' = [ hookRows EXCEPT ![c][s] = cancelled ]
    /\ hook' = [ hook EXCEPT ![c][s] = "cancelling" ]
    /\ UNCHANGED << rows, queue, workerVars, hookVersion, calls, link, faultVars >>

(* The case row is flushed with the version that was read, plus one, and with it
   the audit entry; then the recovered event is inserted unless it exists, and
   the transaction commits. *)
CaptureCommit(c, s) ==
    /\ hook[c][s] = "cancelling"
    /\ ~CaseLocked(c)
    /\ IF recovered_flush(c, hookVersion[c][s])
       THEN /\ status' = [ status EXCEPT ![c] = "RECOVERED" ]
            /\ version' = [ version EXCEPT ![c] = hookVersion[c][s] + 1 ]
       ELSE UNCHANGED << status, version >>
    /\ action' = [ action EXCEPT ![c] =
                     [ t \in ActionTypes |->
                         IF t \in hookRows[c][s] THEN "CANCELLED" ELSE @[t] ] ]
    /\ outbox' = [ outbox EXCEPT ![c]["recovered"] =
                     IF @ = NoRow THEN "PENDING" ELSE @ ]
    /\ paid' = [ paid EXCEPT ![c] = @ \cup { s } ]
    /\ insert_audit(c, "recovered")
    /\ hook' = [ hook EXCEPT ![c][s] = "idle" ]
    /\ hookVersion' = [ hookVersion EXCEPT ![c][s] = 0 ]
    /\ hookRows' = [ hookRows EXCEPT ![c][s] = {} ]
    /\ UNCHANGED << facts, limits, queue, workerVars, calls, link, faultVars >>

(* The request fails: the transaction is rolled back, inbox row included, and
   Razorpay sends the event again. *)
CaptureRollback(c, s) ==
    /\ hook[c][s] # "idle"
    /\ faults < MaxFaults
    /\ faults' = faults + 1
    /\ hook' = [ hook EXCEPT ![c][s] = "idle" ]
    /\ hookVersion' = [ hookVersion EXCEPT ![c][s] = 0 ]
    /\ hookRows' = [ hookRows EXCEPT ![c][s] = {} ]
    /\ UNCHANGED << rows, queue, workerVars, calls, link, abandoned >>

-----------------------------------------------------------------------------
(* The dispatcher and the queue. *)

(* dispatch_outbox_events publishes a pending event and commits. *)
Dispatch(c, e) ==
    /\ outbox[c][e] = "PENDING"
    /\ outbox' = [ outbox EXCEPT ![c][e] = "PUBLISHED" ]
    /\ queue' = [ queue EXCEPT ![c][e] = @ + 1 ]
    /\ UNCHANGED << status, version, facts, action, paid, limits, audit,
                    workerVars, hookVars, calls, link, faultVars >>

(* The dispatcher publishes and dies before its commit: the message is out, the
   event is still pending. *)
DispatchCrash(c, e) ==
    /\ outbox[c][e] = "PENDING"
    /\ faults < MaxFaults
    /\ faults' = faults + 1
    /\ queue' = [ queue EXCEPT ![c][e] = @ + 1 ]
    /\ UNCHANGED << rows, workerVars, hookVars, calls, link, abandoned >>

(* The last of the allowed attempts to publish the event fails; see Outbox. *)
DispatchGivesUp(c, e) ==
    /\ outbox[c][e] = "PENDING"
    /\ "abandoned" \in FaultKinds
    /\ faults < MaxFaults
    /\ faults' = faults + 1
    /\ outbox' = [ outbox EXCEPT ![c][e] = "FAILED" ]
    /\ UNCHANGED << status, version, facts, action, paid, limits, audit, queue,
                    workerVars, hookVars, calls, link, abandoned >>

(* The broker delivers a message again while the worker that has it is still
   running (acks_late: it is acknowledged only when the task ends). *)
BrokerDuplicate(w) ==
    /\ pc[w] # "idle"
    /\ faults < MaxFaults
    /\ faults' = faults + 1
    /\ queue' = [ queue EXCEPT ![job[w].case][job[w].event] = @ + 1 ]
    /\ UNCHANGED << rows, workerVars, hookVars, calls, link, abandoned >>

HasMessage(c, e) == queue[c][e] > 0

(* An idle worker takes a message of the queue and starts on it. *)
Receive(w, c, e) ==
    /\ pc[w] = "idle"
    /\ HasMessage(c, e)
    /\ queue' = [ queue EXCEPT ![c][e] = @ - 1 ]

(* The worker goes on to stage with its job as it is. *)
Goto(w, stage) ==
    /\ pc' = [ pc EXCEPT ![w] = stage ]
    /\ UNCHANGED job

(* The task ends and its message is acknowledged. *)
EndTask(w) ==
    /\ pc' = [ pc EXCEPT ![w] = "idle" ]
    /\ job' = [ job EXCEPT ![w] = NoJob ]

(* Mutant of copies_returned: messages acknowledged on receipt. *)
copies_acked_early(kind) == 0

(* task_acks_late and task_reject_on_worker_lost: what comes back. *)
copies_returned(kind) == IF kind = "redelivered" THEN 1 ELSE 0

(* The task stops where it is and its open transaction is rolled back. *)
WorkerFault(w, kind) ==
    /\ pc[w] # "idle"
    /\ faults < MaxFaults
    /\ faults' = faults + 1
    /\ queue' = [ queue EXCEPT ![job[w].case][job[w].event] =
                    @ + copies_returned(kind) ]
    /\ abandoned' = [ abandoned EXCEPT ![job[w].case] =
                        IF kind = "abandoned" THEN @ \cup { job[w].event } ELSE @ ]
    /\ EndTask(w)
    /\ UNCHANGED << rows, hookVars, calls, link >>

-----------------------------------------------------------------------------
(* recovery_case.eligible: _handle_recovery_case_eligible. *)

(* An event type the worker does not handle. *)
IgnoreEvent(w, c) ==
    /\ Receive(w, c, "recovered")
    /\ UNCHANGED << rows, workerVars, hookVars, calls, link, faultVars >>

(* The task reads the case and goes on only if it is ELIGIBLE. *)
EligibleRead(w, c) ==
    /\ Receive(w, c, "eligible")
    /\ IF status[c] = "ELIGIBLE"
       THEN /\ pc' = [ pc EXCEPT ![w] = "eligible" ]
            /\ job' = [ job EXCEPT ![w] = Job(c, "eligible") ]
       ELSE UNCHANGED workerVars
    /\ UNCHANGED << rows, hookVars, calls, link, faultVars >>

(* The guarded ELIGIBLE -> ANALYSING.  With rowcount 1 the transaction stays
   open, and the row locked, while the engine, the policy and the LLM run. *)
EligibleLock(w) ==
    LET c == job[w].case
    IN  /\ pc[w] = "eligible"
        /\ ~CaseLocked(c)
        /\ IF atomic_transition_recovery_case(c, job[w].status, job[w].version,
                                              "ANALYSING")
           THEN Goto(w, "deciding")
           ELSE EndTask(w)
        /\ UNCHANGED << rows, queue, hookVars, calls, link, faultVars >>

(* The decision of DecisionPipeline, from the rows the transaction reads. *)
final_action(c, answer) ==
    LET amount == facts[c].amount
        counts == build_policy_input(action[c], {})
        engine == evaluate_recovery(amount, facts[c].category)
        policy == evaluate_policy(limits, "ANALYSING", amount, engine.action,
                                  counts, engine.delay)
        agent == run_recovery_agent(answer, policy)
    IN  select_final(limits, "ANALYSING", amount, engine, policy, agent,
                     counts).action

(* Mutant of final_status: the action type for the case status. *)
final_status_by_type(type) ==
    IF type \in { "STOP", "ESCALATE" } THEN type ELSE "ACTION_SCHEDULED"

(* The status in which the decision leaves the case. *)
final_status(type) ==
    CASE type = "STOP" -> "STOPPED"
      [] type = "ESCALATE" -> "ESCALATED"
      [] OTHER -> "ACTION_SCHEDULED"

(* Mutant of scheduled_events: the outbox row is forgotten. *)
no_scheduled_events(type) == {}

(* The action_scheduled event stored with the case. *)
scheduled_events(type) ==
    IF final_status(type) = "ACTION_SCHEDULED" THEN { type } ELSE {}

(* TRUE if the action is created, FALSE if one with its idempotency key (case,
   type, attempt 1) exists, found by the SELECT or by the failing INSERT. *)
create_recovery_action_idempotent(c, type) == action[c][type] = NoRow

(* The rest of the transaction, up to its commit: the action is created unless
   it exists, then ANALYSING -> ACTION_SELECTED -> the final status, each with
   the next version, the outbox event and the audit entry.  If the action
   exists the task returns at once, and what it has written so far is
   committed. *)
EligibleDecide(w, answer) ==
    LET c == job[w].case
        v == job[w].version
        type == final_action(c, answer)
    IN  /\ pc[w] = "deciding"
        /\ IF create_recovery_action_idempotent(c, type)
           THEN /\ action' = [ action EXCEPT ![c][type] = "APPROVED" ]
                /\ status' = [ status EXCEPT ![c] = final_status(type) ]
                /\ version' = [ version EXCEPT ![c] = v + 3 ]
                /\ outbox' = [ outbox EXCEPT ![c] =
                                 [ e \in Events |->
                                     IF e \in scheduled_events(type)
                                     THEN "PENDING" ELSE @[e] ] ]
                /\ insert_decision_audit(c)
           ELSE /\ status' = [ status EXCEPT ![c] = "ANALYSING" ]
                /\ version' = [ version EXCEPT ![c] = v + 1 ]
                /\ UNCHANGED << action, outbox, audit >>
        /\ EndTask(w)
        /\ UNCHANGED << facts, paid, limits, queue, hookVars, calls, link,
                        faultVars >>

-----------------------------------------------------------------------------
(* recovery_case.action_scheduled: execute_scheduled_action_from_outbox. *)

(* _claim_action reads the action, the case, the policy and the counts, and
   judges the action again. *)
ClaimRead(w, c, t) ==
    LET allowed == claim_allowed(limits, status[c], facts[c].amount, t,
                                 build_policy_input(action[c], { t }))
    IN  /\ Receive(w, c, t)
        /\ IF allowed /\ action[c][t] # "APPROVED"
           THEN UNCHANGED workerVars
           ELSE /\ pc' = [ pc EXCEPT ![w] = IF allowed THEN "claiming"
                                                       ELSE "refusing" ]
                /\ job' = [ job EXCEPT ![w] = Job(c, t) ]
        /\ UNCHANGED << rows, hookVars, calls, link, faultVars >>

(* The guarded APPROVED -> EXECUTING, and the commit. *)
Claim(w) ==
    LET c == job[w].case
        t == job[w].event
    IN  /\ pc[w] = "claiming"
        /\ ~ActionLocked(c, t)
        /\ IF atomic_action_transition(c, t, "APPROVED")
           THEN /\ action' = [ action EXCEPT ![c][t] = "EXECUTING" ]
                /\ action_audit(c, "claimed")
                /\ Goto(w, "claimed")
           ELSE /\ EndTask(w)
                /\ UNCHANGED << action, audit >>
        /\ UNCHANGED << status, version, facts, outbox, paid, limits, queue,
                        hookVars, calls, link, faultVars >>

(* Mutant of stops_case: the cancelled action leaves its case alone. *)
stops_nothing(read) == FALSE

(* A cancelled action also stops a case that was read as ACTION_SCHEDULED. *)
stops_case(read) == ~is_terminal(read) /\ read = "ACTION_SCHEDULED"

(* The guarded APPROVED -> CANCELLED of an action that is no longer allowed. *)
ClaimRefuse(w) ==
    LET c == job[w].case
        t == job[w].event
        cancelled == atomic_action_transition(c, t, "APPROVED")
    IN  /\ pc[w] = "refusing"
        /\ ~ActionLocked(c, t)
        /\ IF cancelled /\ stops_case(job[w].status)
           THEN Goto(w, "stopping") /\ UNCHANGED << action, audit >>
           ELSE /\ EndTask(w)
                /\ IF cancelled
                   THEN /\ action' = [ action EXCEPT ![c][t] = "CANCELLED" ]
                        /\ action_audit(c, "cancelled")
                   ELSE UNCHANGED << action, audit >>
        /\ UNCHANGED << status, version, facts, outbox, paid, limits, queue,
                        hookVars, calls, link, faultVars >>

(* The guarded ACTION_SCHEDULED -> STOPPED that goes with it, whose rowcount is
   not looked at, and the commit of both. *)
ClaimStop(w) ==
    LET c == job[w].case
        t == job[w].event
        v == job[w].version
    IN  /\ pc[w] = "stopping"
        /\ ~CaseLocked(c)
        /\ action' = [ action EXCEPT ![c][t] = "CANCELLED" ]
        /\ action_audit(c, "cancelled")
        /\ IF atomic_transition_recovery_case(c, job[w].status, v, "STOPPED")
           THEN /\ status' = [ status EXCEPT ![c] = "STOPPED" ]
                /\ version' = [ version EXCEPT ![c] = v + 1 ]
           ELSE UNCHANGED << status, version >>
        /\ EndTask(w)
        /\ UNCHANGED << facts, outbox, paid, limits, queue, hookVars, calls, link,
                        faultVars >>

(* _execute_external, outside any transaction: it returns ... *)
CallSucceeds(w) ==
    LET c == job[w].case
        t == job[w].event
    IN  /\ pc[w] = "claimed"
        /\ calls' = [ calls EXCEPT ![c][t] = @ + 1 ]
        /\ link' = [ link EXCEPT ![c] = @ \/ t = "CREATE_PAYMENT_LINK" ]
        /\ Goto(w, "succeeded")
        /\ UNCHANGED << rows, queue, hookVars, faultVars >>

(* ... or raises: RazorpayError for a payment link, any other exception (the soft
   time limit, say) for any action.  A link may exist all the same. *)
CallFails(w, created) ==
    LET c == job[w].case
        t == job[w].event
    IN  /\ pc[w] = "claimed"
        /\ created => t = "CREATE_PAYMENT_LINK"
        /\ calls' = [ calls EXCEPT ![c][t] = @ + 1 ]
        /\ link' = [ link EXCEPT ![c] = @ \/ created ]
        /\ Goto(w, "failed")
        /\ UNCHANGED << rows, queue, hookVars, faultVars >>

(* _finalize_success reads the action, which must be EXECUTING, and the case. *)
FinalizeRead(w) ==
    LET c == job[w].case
        t == job[w].event
    IN  /\ pc[w] = "succeeded"
        /\ IF action[c][t] = "EXECUTING"
           THEN /\ pc' = [ pc EXCEPT ![w] = "finalizing" ]
                /\ job' = [ job EXCEPT ![w] = Job(c, t) ]
           ELSE EndTask(w)
        /\ UNCHANGED << rows, queue, hookVars, calls, link, faultVars >>

(* The guarded ACTION_SCHEDULED -> WAITING, which runs before the action row is
   flushed; with rowcount 0 the transaction goes on without it. *)
FinalizeLock(w) ==
    LET c == job[w].case
    IN  /\ pc[w] = "finalizing"
        /\ IF job[w].status = "ACTION_SCHEDULED"
           THEN /\ ~CaseLocked(c)
                /\ IF atomic_transition_recovery_case(c, job[w].status,
                                                      job[w].version, "WAITING")
                   THEN Goto(w, "moving")
                   ELSE Goto(w, "recording")
           ELSE Goto(w, "recording")
        /\ UNCHANGED << rows, queue, hookVars, calls, link, faultVars >>

(* The action row is flushed by its primary key, and everything is committed. *)
FinalizeCommit(w) ==
    LET c == job[w].case
        t == job[w].event
    IN  /\ pc[w] \in { "moving", "recording" }
        /\ ~ActionLocked(c, t)
        /\ action' = [ action EXCEPT ![c][t] = "EXECUTED" ]
        /\ action_audit(c, "executed")
        /\ IF pc[w] = "moving"
           THEN /\ status' = [ status EXCEPT ![c] = "WAITING" ]
                /\ version' = [ version EXCEPT ![c] = job[w].version + 1 ]
           ELSE UNCHANGED << status, version >>
        /\ EndTask(w)
        /\ UNCHANGED << facts, outbox, paid, limits, queue, hookVars, calls, link,
                        faultVars >>

(* _finalize_failure: the case is left as it is, and the entry is written
   whatever the status of the action. *)
FinalizeFailure(w) ==
    LET c == job[w].case
        t == job[w].event
    IN  /\ pc[w] = "failed"
        /\ ~ActionLocked(c, t)
        /\ IF action[c][t] = "EXECUTING"
           THEN action' = [ action EXCEPT ![c][t] = "FAILED" ]
           ELSE UNCHANGED action
        /\ action_audit(c, "failed")
        /\ EndTask(w)
        /\ UNCHANGED << status, version, facts, outbox, paid, limits, queue,
                        hookVars, calls, link, faultVars >>

-----------------------------------------------------------------------------
(* An operator edits the merchant's policy row. *)
PolicyChange(new) ==
    /\ new # limits
    /\ limits' = new
    /\ UNCHANGED << status, version, facts, action, outbox, paid, audit, queue,
                    workerVars, hookVars, calls, link, faultVars >>

HookNext(c, s) ==
    \/ CaptureCancel(c, s)
    \/ CaptureCommit(c, s)

CaseNext(c) ==
    \/ \E a \in Amounts, k \in Categories : PaymentFailed(c, a, k)
    \/ \E s \in Sources :
          \/ CaptureRecorded(c, s)
          \/ CaptureRead(c, s)
          \/ HookNext(c, s)
          \/ CaptureRollback(c, s)
    \/ \E e \in Events :
          Dispatch(c, e) \/ DispatchCrash(c, e) \/ DispatchGivesUp(c, e)

ReceiveNext(w, c) ==
    \/ IgnoreEvent(w, c)
    \/ EligibleRead(w, c)
    \/ \E t \in ExecutableTypes : ClaimRead(w, c, t)

WorkerNext(w) ==
    \/ EligibleLock(w)
    \/ \E answer \in LlmAnswers : EligibleDecide(w, answer)
    \/ Claim(w)
    \/ ClaimRefuse(w)
    \/ ClaimStop(w)
    \/ CallSucceeds(w)
    \/ \E created \in BOOLEAN : CallFails(w, created)
    \/ FinalizeRead(w)
    \/ FinalizeLock(w)
    \/ FinalizeCommit(w)
    \/ FinalizeFailure(w)

Next ==
    \/ \E c \in Cases : CaseNext(c)
    \/ \E w \in Workers, c \in Cases : ReceiveNext(w, c)
    \/ \E w \in Workers : WorkerNext(w) \/ BrokerDuplicate(w)
    \/ \E w \in Workers, kind \in FaultKinds : WorkerFault(w, kind)
    \/ \E new \in LimitsSet : PolicyChange(new)

Spec == Init /\ [][Next]_vars

(* The dispatcher polls for ever, workers keep consuming and a task that has
   started goes on, and so does a webhook transaction.  Webhooks, faults and
   policy edits need not happen. *)
Fairness ==
    /\ \A c \in Cases, e \in Events : WF_vars(Dispatch(c, e))
    /\ \A c \in Cases : WF_vars(\E w \in Workers : ReceiveNext(w, c))
    /\ \A w \in Workers : WF_vars(WorkerNext(w))
    /\ \A c \in Cases, s \in Sources : WF_vars(HookNext(c, s))

FairSpec == Spec /\ Fairness

-----------------------------------------------------------------------------
DecisionStages == { "eligible", "deciding" }

Jobs ==
    [ case : Cases \cup { None }, event : Events \cup { None },
      status : CaseStatuses \cup { None }, version : Nat ]

ActionRows == [ Cases -> [ ActionTypes -> ActionStatuses \cup { NoRow } ] ]

OutboxRows == [ Cases -> [ Events -> OutboxStatuses \cup { NoRow } ] ]

AuditRows == [ Cases -> [ AuditEntries -> Nat ] ]

RowTypes ==
    /\ status \in [ Cases -> CaseStatuses \cup { NoRow } ]
    /\ version \in [ Cases -> Nat ]
    /\ facts \in [ Cases -> [ amount : Nat, category : FailureCategories ] ]
    /\ action \in ActionRows
    /\ outbox \in OutboxRows
    /\ paid \in [ Cases -> SUBSET Sources ]
    /\ limits \in LimitsSet
    /\ audit \in AuditRows

WorkerTypes ==
    /\ pc \in [ Workers -> Stages ]
    /\ job \in [ Workers -> Jobs ]
    /\ \A w \in Workers : pc[w] # "idle" =>
          /\ job[w].case \in Cases
          /\ pc[w] \in DecisionStages => job[w].event = "eligible"
          /\ pc[w] \notin DecisionStages => job[w].event \in ExecutableTypes

HookTypes ==
    /\ hook \in [ Cases -> [ Sources -> { "idle", "read", "cancelling" } ] ]
    /\ hookVersion \in [ Cases -> [ Sources -> Nat ] ]
    /\ hookRows \in [ Cases -> [ Sources -> SUBSET ActionTypes ] ]

OutsideTypes ==
    /\ queue \in [ Cases -> [ Events -> Nat ] ]
    /\ calls \in [ Cases -> [ ActionTypes -> Nat ] ]
    /\ link \in [ Cases -> BOOLEAN ]
    /\ faults \in 0..MaxFaults
    /\ abandoned \in [ Cases -> SUBSET Events ]

(* Every row holds a value its column allows, and every process is in one of
   its stages with a task it may have received; in particular no worker takes a
   message that is not there. *)
TypeOK == RowTypes /\ WorkerTypes /\ HookTypes /\ OutsideTypes

(* Effectively-once execution: however often messages are duplicated or
   redelivered and workers die, a case gets at most one external call over all
   its actions, and none for an action that is not claimed or was cancelled. *)
EffectivelyOnce ==
    \A c \in Cases, t \in ActionTypes :
        /\ calls[c][t] <= 1
        /\ calls[c][t] > 0 =>
              /\ action[c][t] \in { "EXECUTING", "EXECUTED", "FAILED" }
              /\ \A u \in ActionTypes \ { t } : calls[c][u] = 0

(* The states a case passes through inside the worker's transaction are never
   left behind by a commit, not even by the early returns that commit what was
   written before them: no case is stuck half-processed. *)
NoHalfProcessedCase ==
    \A c \in Cases :
        status[c] \notin { "FAILED", "ANALYSING", "ACTION_SELECTED" }

(* The case row and the action row tell the same story although they are
   written under separate guards and the rowcount of some is ignored: a
   cancelled action has a closed case, an executed one a case that is waiting
   or closed, and a case that is scheduled or waiting has the action for it. *)
CaseAgreesWithAction ==
    \A c \in Cases :
        /\ \A t \in ActionTypes :
              /\ action[c][t] = "CANCELLED" => is_terminal(status[c])
              /\ action[c][t] = "EXECUTED" =>
                    status[c] = "WAITING" \/ is_terminal(status[c])
        /\ status[c] = "WAITING" =>
              \E t \in ExecutableTypes : action[c][t] = "EXECUTED"
        /\ status[c] = "ACTION_SCHEDULED" =>
              \E t \in ExecutableTypes :
                  action[c][t] \in { "APPROVED", "EXECUTING", "FAILED" }

(* The case that a captured payment s, recorded for case d, was made for: the one
   of the link it was made through, or else its own. *)
MadeFor(d, s) ==
    CASE s = "link" -> d
      [] s # "link" /\ NotesOf[s] # None -> NotesOf[s]
      [] OTHER -> s

(* Once a payment is recorded as captured, the case it was made for is closed: the
   case of the payment itself, or that of the link it was made through, also if
   the link payment had failed first and has a case of its own (which its capture
   does not close).  No worker that read the case while it was open opens it
   again. *)
CapturedPaymentClosesCase ==
    \A d \in Cases : \A s \in paid[d] :
        LET c == MadeFor(d, s)
        IN  status[c] # NoRow => is_terminal(status[c])

(* One of the actions of the case has one of the statuses. *)
HasAction(c, statuses) == \E t \in ActionTypes : action[c][t] \in statuses

(* The entry was made once if holds is TRUE, and never otherwise. *)
Entered(c, entry, holds) == audit[c][entry] = IF holds THEN 1 ELSE 0

(* A case was opened once and decided once, its action was claimed, executed or
   failed once if and only if its row says so, a "cancelled" entry has a
   cancelled action, and a case is RECOVERED exactly if the trail says so. *)
AuditTells(c) ==
    /\ Entered(c, "eligible", status[c] # NoRow)
    /\ Entered(c, "decision", HasAction(c, ActionStatuses))
    /\ Entered(c, "claimed", HasAction(c, { "EXECUTING", "EXECUTED", "FAILED" }))
    /\ Entered(c, "executed", HasAction(c, { "EXECUTED" }))
    /\ Entered(c, "failed", HasAction(c, { "FAILED" }))
    /\ audit[c]["cancelled"] <= 1
    /\ audit[c]["cancelled"] > 0 => HasAction(c, { "CANCELLED" })
    /\ audit[c]["recovered"] > 0 <=> status[c] = "RECOVERED"

(* The audit trail of every case tells what its rows tell, whatever was retried,
   duplicated or overtaken (_finalize_failure writes its entry without looking at
   the row, and the webhook before its row is flushed). *)
AuditMatchesRows == \A c \in Cases : AuditTells(c)

(* The refinement mapping: committed rows, and calls that have been made. *)
Lifecycle ==
    INSTANCE CaseLifecycle WITH status <- status, action <- action, calls <- calls

(* Seen from outside, the system does what CaseLifecycle says and nothing else:
   every commit of a webhook or a worker, stale or not, is one of its steps. *)
ImplementsLifecycle == Lifecycle!Spec

(* A closed case is never reopened, by a stale worker or a late webhook: it keeps
   its status or becomes RECOVERED, and RECOVERED is final. *)
ClosedStaysClosed ==
    [][\A c \in Cases :
          is_terminal(status[c]) => status'[c] \in { status[c], "RECOVERED" }]_vars

(* Webhooks and refused claims lock the action row first and the case row
   second, _finalize_success the other way round.  The two orders never meet
   on the same rows, so no transaction is aborted as a deadlock victim. *)
NoLockCycle ==
    \A w \in Workers :
        pc[w] = "moving" => ~ActionLocked(job[w].case, job[w].event)

(* Something will still process the event: its outbox row is pending, a message
   is queued, or a worker has it. *)
Carried(c, e) ==
    \/ outbox[c][e] = "PENDING"
    \/ queue[c][e] > 0
    \/ \E w \in Workers :
          pc[w] # "idle" /\ job[w].case = c /\ job[w].event = e

(* The event was given up for good, and there is a record of it: its outbox row
   is FAILED, or its task ended in an exception. *)
GivenUp(c, e) == outbox[c][e] = "FAILED" \/ e \in abandoned[c]

(* A case waits for its decision, or an action to be executed, and e is the event
   that is to bring it about. *)
Waits(c, e) ==
    \/ e = "eligible" /\ status[c] = "ELIGIBLE"
    \/ e \in ExecutableTypes /\ action[c][e] = "APPROVED"

(* Work is never lost silently: a case that waits for its decision and an action
   that waits to be executed are carried by an event, through crashes, retries
   and duplicates, or the event was given up on the record. *)
WorkIsCarried ==
    \A c \in Cases, e \in Events : Waits(c, e) => Carried(c, e) \/ GivenUp(c, e)

(* Every eligible case is eventually decided, or recovered before that. *)
EligibleIsDecided ==
    \A c \in Cases : status[c] = "ELIGIBLE" ~> status[c] # "ELIGIBLE"

(* Every scheduled action is eventually claimed or cancelled; in particular an
   action that a late capture failed to cancel does not stay approved. *)
ApprovedActionSettles ==
    \A c \in Cases : \A t \in ExecutableTypes :
        action[c][t] = "APPROVED" ~> action[c][t] # "APPROVED"

(* docs/system-design.md: RECOVERED, STOPPED and ESCALATED cannot regress. *)
TerminalNeverRegresses ==
    [][\A c \in Cases :
          is_terminal(status[c]) => status'[c] = status[c]]_vars

(* README.md: no stale side effect reaches an external system, that is, no link
   is created and no reminder sent for a case that is already closed. *)
NoStaleSideEffect ==
    [][\A c \in Cases : \A t \in { "CREATE_PAYMENT_LINK", "SEND_REMINDER" } :
          is_terminal(status[c]) => calls'[c][t] = calls[c][t]]_vars

-----------------------------------------------------------------------------
(* The inductive invariant behind EffectivelyOnce, NoHalfProcessedCase,
   NoLockCycle and ClosedStaysClosed. *)

CaseLockStages == { "deciding", "moving" }

ClaimedStages ==
    { "claimed", "succeeded", "failed", "finalizing", "moving", "recording" }

SameTask(w, x) ==
    job[w].case = job[x].case /\ job[w].event = job[x].event

(* A case row is locked by one worker at most, and stays as that worker's WHERE
   clause found it. *)
CaseLockInv ==
    /\ \A w, x \in Workers :
          /\ pc[w] \in CaseLockStages
          /\ pc[x] \in CaseLockStages
          /\ job[w].case = job[x].case
          => w = x
    /\ \A w \in Workers :
          /\ pc[w] = "eligible" => job[w].status = "ELIGIBLE"
          /\ pc[w] = "deciding" => status[job[w].case] = "ELIGIBLE"
          /\ pc[w] = "moving" => status[job[w].case] = "ACTION_SCHEDULED"

(* An action row is locked by one transaction at most, and only while it may
   still be cancelled. *)
ActionLockInv ==
    /\ \A w, x \in Workers :
          pc[w] = "stopping" /\ pc[x] = "stopping" /\ SameTask(w, x) => w = x
    /\ \A w \in Workers : pc[w] = "stopping" =>
          /\ action[job[w].case][job[w].event] = "APPROVED"
          /\ \A s \in Sources : job[w].event \notin hookRows[job[w].case][s]
    /\ \A c \in Cases : \A s \in Sources : \A t \in hookRows[c][s] :
          /\ action[c][t] \in CancellableStatuses
          /\ \A r \in Sources : t \in hookRows[c][r] => r = s

(* A case is decided once: it gets one action, when it leaves ELIGIBLE. *)
DecisionInv ==
    /\ \A c \in Cases : \A t, u \in ActionTypes :
          action[c][t] # NoRow /\ action[c][u] # NoRow => t = u
    /\ \A c \in Cases : \A t \in ActionTypes :
          action[c][t] # NoRow => status[c] \notin { NoRow, "ELIGIBLE" }
    /\ NoHalfProcessedCase

(* A worker past its claim owns the action, which has not been called before
   its call. *)
CallInv ==
    /\ \A w \in Workers :
          /\ pc[w] \in ClaimedStages =>
                action[job[w].case][job[w].event] = "EXECUTING"
          /\ pc[w] = "claimed" => calls[job[w].case][job[w].event] = 0
    /\ \A w, x \in Workers :
          pc[w] \in ClaimedStages /\ pc[x] \in ClaimedStages /\ SameTask(w, x)
          => w = x
    /\ \A c \in Cases : \A t \in ActionTypes :
          /\ calls[c][t] <= 1
          /\ calls[c][t] > 0 =>
                action[c][t] \in { "EXECUTING", "EXECUTED", "FAILED" }

(* What every step of the system preserves about locks, decisions and calls. *)
SafetyInv == CaseLockInv /\ ActionLockInv /\ DecisionInv /\ CallInv

-----------------------------------------------------------------------------
(* The inductive invariant behind CaseAgreesWithAction, CapturedPaymentClosesCase
   and ImplementsLifecycle. *)

(* The version belongs to the status as long as a guarded UPDATE may succeed, so
   one that misses has met another status. *)
VersionInv ==
    \A c \in Cases :
        /\ status[c] = "ELIGIBLE" => version[c] = 2
        /\ status[c] = "ACTION_SCHEDULED" => version[c] = 5

(* Nobody is asked to execute an action that does not exist. *)
EventInv ==
    \A c \in Cases : \A t \in ExecutableTypes :
        outbox[c][t] # NoRow \/ queue[c][t] > 0 => action[c][t] # NoRow

(* What a worker has read of its case may be stale, but still bounds what the
   case can be now. *)
ReadBounds(w) ==
    LET c == job[w].case
        t == job[w].event
        read == job[w].status
    IN  /\ pc[w] \in DecisionStages => job[w].version = 2
        /\ pc[w] # "idle" /\ pc[w] \notin DecisionStages =>
              /\ action[c][t] # NoRow
              /\ \/ read = "ACTION_SCHEDULED" /\ job[w].version = 5
                 \/ read = "WAITING" /\ action[c][t] = "EXECUTED"
                 \/ is_terminal(read) /\ is_terminal(status[c])
        /\ pc[w] = "stopping" => read = "ACTION_SCHEDULED"
        /\ pc[w] = "recording" => is_terminal(status[c])
        /\ pc[w] \in ClaimedStages \ { "claimed" } => calls[c][t] = 1

ReadInv == \A w \in Workers : ReadBounds(w)

(* A capture that has read a case, or a payment link that exists, is about a case
   that exists; before it does, only its own payment may have been captured for
   it. *)
HookInv ==
    \A c \in Cases :
        status[c] = NoRow =>
            /\ \A s \in Sources : hook[c][s] = "idle"
            /\ ~link[c]
            /\ \A s \in paid[c] : s = c /\ NotesOf[c] = None

(* A payment of a case is captured only where handle_payment_captured takes it. *)
SourceInv ==
    \A d, x \in Cases : x \in paid[d] \/ hook[d][x] # "idle" => d = CaseOf(x)

(* A case for which a payment was captured is closed, if there is one. *)
PaidIsClosed ==
    \A c \in Cases :
        paid[c] # {} /\ status[c] # NoRow => is_terminal(status[c])

(* No action is left PENDING: it is created as APPROVED. *)
NonePending ==
    \A c \in Cases : \A t \in ActionTypes : action[c][t] # "PENDING"

(* What every step preserves about rows and what is remembered of them. *)
AgreementInv ==
    /\ VersionInv
    /\ EventInv
    /\ ReadInv
    /\ HookInv
    /\ NonePending
    /\ CaseAgreesWithAction
    /\ PaidIsClosed

=============================================================================
