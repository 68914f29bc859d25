------------------------ MODULE RecoveryCore_proofs ------------------------
(***************************************************************************)
(* Theorems about RecoveryCore, for every set of cases, workers, amounts,  *)
(* categories and policies, and any number of faults, in three parts: the  *)
(* types; the safety of leases and locks (SafetyInv); and the agreement of *)
(* the rows with each other, with the payments, with the audit trail and   *)
(* with the work still to be done (AgreementInv), from which the write path*)
(* implements CaseLifecycle.                                               *)
(***************************************************************************)
EXTENDS RecoveryCore, TLAPS

(* evaluate_recovery always returns one of the five action types. *)
LEMMA EngineType ==
    ASSUME NEW amount, NEW category
    PROVE  evaluate_recovery(amount, category).action \in ActionTypes
BY DEF evaluate_recovery, RecoveryDecision, ActionTypes

(* evaluate_policy returns an action type whenever it is given one. *)
LEMMA PolicyType ==
    ASSUME NEW l, NEW st, NEW amount, NEW candidate \in ActionTypes,
           NEW counts, NEW delay
    PROVE  evaluate_policy(l, st, amount, candidate, counts, delay).action
             \in ActionTypes
BY DEF evaluate_policy, PolicyDecision, ActionTypes

(* Whatever the LLM answers, the action the worker stores is one of the five. *)
LEMMA FinalActionType ==
    ASSUME NEW c, NEW answer
    PROVE  final_action(c, answer) \in ActionTypes
<1> DEFINE amount == facts[c].amount
           counts == build_policy_input(action[c], {})
           engine == evaluate_recovery(amount, facts[c].category)
           policy == evaluate_policy(limits, "ANALYSING", amount, engine.action,
                                     counts, engine.delay)
           agent == run_recovery_agent(answer, policy)
           again == evaluate_policy(limits, "ANALYSING", amount, agent.action,
                                    counts, IF agent.action = "WAIT"
                                            THEN engine.delay ELSE NoDelay)
<1>1. engine.action \in ActionTypes
  BY EngineType
<1>2. policy.action \in ActionTypes
  BY <1>1, PolicyType
<1>3. agent.action \in ActionTypes
  BY <1>2 DEF run_recovery_agent, AgentDecision
<1>4. again.action \in ActionTypes
  BY <1>3, PolicyType
<1> HIDE DEF amount, counts, engine, policy, agent, again
<1>5. select_final(limits, "ANALYSING", amount, engine, policy, agent,
                   counts).action \in ActionTypes
  BY <1>2, <1>4 DEF select_final, again, PolicyDecision
<1> QED
  BY <1>5 DEF final_action, amount, counts, engine, policy, agent

-----------------------------------------------------------------------------
(* Type correctness. *)

(* How the names of the events and of the action types overlap. *)
LEMMA Names ==
    /\ "eligible" \in Events
    /\ "recovered" \in Events
    /\ ExecutableTypes \subseteq Events
    /\ ExecutableTypes \subseteq ActionTypes
BY DEF Events, ExecutableTypes, ActionTypes

(* Writing one action row, ... *)
LEMMA ActionWrite ==
    ASSUME action \in ActionRows, NEW c \in Cases, NEW t \in ActionTypes,
           NEW st \in ActionStatuses
    PROVE  [ action EXCEPT ![c][t] = st ] \in ActionRows
BY DEF ActionRows

(* ... cancelling some actions of a case, ... *)
LEMMA ActionCancel ==
    ASSUME action \in ActionRows, NEW c \in Cases, NEW ts
    PROVE  [ action EXCEPT ![c] =
               [ t \in ActionTypes |->
                   IF t \in ts THEN "CANCELLED" ELSE @[t] ] ] \in ActionRows
BY DEF ActionRows, ActionStatuses

(* ... writing one outbox row, ... *)
LEMMA OutboxWrite ==
    ASSUME outbox \in OutboxRows, NEW c \in Cases, NEW e \in Events,
           NEW st \in OutboxStatuses
    PROVE  [ outbox EXCEPT ![c][e] = st ] \in OutboxRows
BY DEF OutboxRows

(* ... and inserting some events of a case. *)
LEMMA OutboxInsert ==
    ASSUME outbox \in OutboxRows, NEW c \in Cases, NEW es
    PROVE  [ outbox EXCEPT ![c] =
               [ e \in Events |->
                   IF e \in es THEN "PENDING" ELSE @[e] ] ] \in OutboxRows
BY DEF OutboxRows, OutboxStatuses

(* Entering something into the audit trail. *)
LEMMA AuditWrite ==
    ASSUME audit \in AuditRows, NEW c \in Cases, NEW n \in AuditEntries,
           insert_audit(c, n)
    PROVE  audit' \in AuditRows
BY DEF AuditRows, insert_audit

(* The entries are all different. *)
LEMMA EntryNames ==
    { "eligible", "decision", "recovered", "claimed", "cancelled", "executed",
      "failed" } = AuditEntries
BY DEF AuditEntries, CaseEntries, ActionEntries

(* An idle worker's job, and one just read from the rows, are well formed. *)
LEMMA JobTypes ==
    /\ NoJob \in Jobs
    /\ RowTypes => \A c \in Cases, e \in Events : Job(c, e) \in Jobs
    /\ \A c, e : Job(c, e).case = c /\ Job(c, e).event = e
BY DEF NoJob, Job, Jobs, RowTypes, NoRow, None

(* What a busy worker is working on. *)
LEMMA HeldTask ==
    ASSUME TypeOK, NEW w \in Workers, pc[w] # "idle"
    PROVE  /\ job[w].case \in Cases
           /\ job[w].event \in Events
           /\ pc[w] \notin DecisionStages =>
                 job[w].event \in ExecutableTypes /\ job[w].event \in ActionTypes
           /\ job[w].version \in Nat
BY Names DEF TypeOK, WorkerTypes, Jobs

(* The type invariant holds in every behaviour, with any number of workers,
   cases and faults: rows keep the values their columns allow, and a worker past
   the decision always holds an executable action of a case. *)
THEOREM TypeCorrect == Spec => []TypeOK
<1>1. Init => TypeOK
  BY LimitsAssumption, FaultsAssumption, JobTypes
  DEF Init, TypeOK, RowTypes, ActionRows, OutboxRows, AuditRows, WorkerTypes, HookTypes,
      OutsideTypes, Stages,
      FailureCategories
<1>2. TypeOK /\ [Next]_vars => TypeOK'
  <2> SUFFICES ASSUME TypeOK, [Next]_vars
               PROVE  TypeOK'
    OBVIOUS
  <2> USE Names, FaultsAssumption
      DEF rows, workerVars, hookVars, faultVars
  <2>1. ASSUME NEW c \in Cases, NEW a \in Amounts, NEW k \in Categories,
               PaymentFailed(c, a, k)
        PROVE  TypeOK'
    <3>0. audit' \in AuditRows
      BY <2>1, AuditWrite, EntryNames DEF TypeOK, RowTypes, PaymentFailed
    <3>1. RowTypes'
      BY <2>1, <3>0, AmountsAssumption, CategoriesAssumption, OutboxWrite
      DEF TypeOK, RowTypes, PaymentFailed, CaseStatuses, OutboxStatuses
    <3>2. WorkerTypes'
      BY <2>1 DEF TypeOK, WorkerTypes, PaymentFailed
    <3>3. HookTypes'
      BY <2>1 DEF TypeOK, HookTypes, PaymentFailed
    <3>4. OutsideTypes'
      BY <2>1 DEF TypeOK, OutsideTypes, PaymentFailed
    <3> QED
      BY <3>1, <3>2, <3>3, <3>4 DEF TypeOK
  <2>2. ASSUME NEW c \in Cases, NEW s \in Sources, CaptureRecorded(c, s)
        PROVE  TypeOK'
    <3>1. RowTypes'
      BY <2>2 DEF TypeOK, RowTypes, CaptureRecorded, Sources
    <3>2. WorkerTypes'
      BY <2>2 DEF TypeOK, WorkerTypes, CaptureRecorded
    <3>3. HookTypes'
      BY <2>2 DEF TypeOK, HookTypes, CaptureRecorded
    <3>4. OutsideTypes'
      BY <2>2 DEF TypeOK, OutsideTypes, CaptureRecorded
    <3> QED
      BY <3>1, <3>2, <3>3, <3>4 DEF TypeOK
  <2>3. ASSUME NEW c \in Cases, NEW s \in Sources, CaptureRead(c, s)
        PROVE  TypeOK'
    <3>1. RowTypes'
      BY <2>3 DEF TypeOK, RowTypes, CaptureRead
    <3>2. WorkerTypes'
      BY <2>3 DEF TypeOK, WorkerTypes, CaptureRead
    <3>3. HookTypes'
      BY <2>3 DEF TypeOK, HookTypes, CaptureRead, RowTypes
    <3>4. OutsideTypes'
      BY <2>3 DEF TypeOK, OutsideTypes, CaptureRead
    <3> QED
      BY <3>1, <3>2, <3>3, <3>4 DEF TypeOK
  <2>4. ASSUME NEW c \in Cases, NEW s \in Sources, CaptureCancel(c, s)
        PROVE  TypeOK'
    <3>1. RowTypes'
      BY <2>4 DEF TypeOK, RowTypes, CaptureCancel
    <3>2. WorkerTypes'
      BY <2>4 DEF TypeOK, WorkerTypes, CaptureCancel
    <3>3. HookTypes'
      BY <2>4 DEF TypeOK, HookTypes, CaptureCancel
    <3>4. OutsideTypes'
      BY <2>4 DEF TypeOK, OutsideTypes, CaptureCancel
    <3> QED
      BY <3>1, <3>2, <3>3, <3>4 DEF TypeOK
  <2>5. ASSUME NEW c \in Cases, NEW s \in Sources, CaptureCommit(c, s)
        PROVE  TypeOK'
    <3>1. RowTypes'
      <4>1. action' \in ActionRows
        BY <2>5, ActionCancel DEF TypeOK, RowTypes, CaptureCommit
      <4>2. outbox' \in OutboxRows
        BY <2>5 DEF TypeOK, RowTypes, OutboxStatuses, OutboxRows, CaptureCommit
      <4>3. status' \in [ Cases -> CaseStatuses \cup { NoRow } ]
        BY <2>5 DEF TypeOK, RowTypes, CaptureCommit, CaseStatuses
      <4>4. version' \in [ Cases -> Nat ]
        <5>1. hookVersion[c][s] + 1 \in Nat
          BY DEF TypeOK, HookTypes
        <5> QED
          BY <5>1, <2>5 DEF TypeOK, RowTypes, CaptureCommit
      <4>5. paid' \in [ Cases -> SUBSET Sources ]
        BY <2>5 DEF TypeOK, RowTypes, CaptureCommit
      <4>6. audit' \in AuditRows
        BY <2>5, AuditWrite, EntryNames DEF TypeOK, RowTypes, CaptureCommit
      <4> QED
        BY <2>5, <4>1, <4>2, <4>3, <4>4, <4>5, <4>6
        DEF TypeOK, RowTypes, CaptureCommit
    <3>2. WorkerTypes'
      BY <2>5 DEF TypeOK, WorkerTypes, CaptureCommit
    <3>3. HookTypes'
      BY <2>5 DEF TypeOK, HookTypes, CaptureCommit
    <3>4. OutsideTypes'
      BY <2>5 DEF TypeOK, OutsideTypes, CaptureCommit
    <3> QED
      BY <3>1, <3>2, <3>3, <3>4 DEF TypeOK
  <2>6. ASSUME NEW c \in Cases, NEW s \in Sources, CaptureRollback(c, s)
        PROVE  TypeOK'
    <3>1. RowTypes'
      BY <2>6 DEF TypeOK, RowTypes, CaptureRollback
    <3>2. WorkerTypes'
      BY <2>6 DEF TypeOK, WorkerTypes, CaptureRollback
    <3>3. HookTypes'
      BY <2>6 DEF TypeOK, HookTypes, CaptureRollback
    <3>4. OutsideTypes'
      BY <2>6 DEF TypeOK, OutsideTypes, CaptureRollback
    <3> QED
      BY <3>1, <3>2, <3>3, <3>4 DEF TypeOK
  <2>7. ASSUME NEW c \in Cases, NEW e \in Events, Dispatch(c, e)
        PROVE  TypeOK'
    <3>1. RowTypes'
      BY <2>7, OutboxWrite DEF TypeOK, RowTypes, Dispatch, OutboxStatuses
    <3>2. WorkerTypes'
      BY <2>7 DEF TypeOK, WorkerTypes, Dispatch
    <3>3. HookTypes'
      BY <2>7 DEF TypeOK, HookTypes, Dispatch
    <3>4. OutsideTypes'
      BY <2>7 DEF TypeOK, OutsideTypes, Dispatch
    <3> QED
      BY <3>1, <3>2, <3>3, <3>4 DEF TypeOK
  <2>8. ASSUME NEW c \in Cases, NEW e \in Events, DispatchCrash(c, e)
        PROVE  TypeOK'
    <3>1. RowTypes'
      BY <2>8 DEF TypeOK, RowTypes, DispatchCrash
    <3>2. WorkerTypes'
      BY <2>8 DEF TypeOK, WorkerTypes, DispatchCrash
    <3>3. HookTypes'
      BY <2>8 DEF TypeOK, HookTypes, DispatchCrash
    <3>4. OutsideTypes'
      BY <2>8 DEF TypeOK, OutsideTypes, DispatchCrash
    <3> QED
      BY <3>1, <3>2, <3>3, <3>4 DEF TypeOK
  <2>9. ASSUME NEW c \in Cases, NEW e \in Events, DispatchGivesUp(c, e)
        PROVE  TypeOK'
    <3>1. RowTypes'
      BY <2>9, OutboxWrite DEF TypeOK, RowTypes, DispatchGivesUp, OutboxStatuses
    <3>2. WorkerTypes'
      BY <2>9 DEF TypeOK, WorkerTypes, DispatchGivesUp
    <3>3. HookTypes'
      BY <2>9 DEF TypeOK, HookTypes, DispatchGivesUp
    <3>4. OutsideTypes'
      BY <2>9 DEF TypeOK, OutsideTypes, DispatchGivesUp
    <3> QED
      BY <3>1, <3>2, <3>3, <3>4 DEF TypeOK
  <2>10. ASSUME NEW w \in Workers, NEW c \in Cases, IgnoreEvent(w, c)
        PROVE  TypeOK'
    <3>1. RowTypes'
      BY <2>10 DEF TypeOK, RowTypes, IgnoreEvent
    <3>2. WorkerTypes'
      BY <2>10 DEF TypeOK, WorkerTypes, IgnoreEvent
    <3>3. HookTypes'
      BY <2>10 DEF TypeOK, HookTypes, IgnoreEvent
    <3>4. OutsideTypes'
      BY <2>10 DEF TypeOK, OutsideTypes, IgnoreEvent, Receive, HasMessage
    <3> QED
      BY <3>1, <3>2, <3>3, <3>4 DEF TypeOK
  <2>11. ASSUME NEW w \in Workers, NEW c \in Cases, EligibleRead(w, c)
        PROVE  TypeOK'
    <3>1. RowTypes'
      BY <2>11 DEF TypeOK, RowTypes, EligibleRead
    <3>2. WorkerTypes'
      BY <2>11, JobTypes
      DEF TypeOK, WorkerTypes, EligibleRead, Receive, Stages, DecisionStages
    <3>3. HookTypes'
      BY <2>11 DEF TypeOK, HookTypes, EligibleRead
    <3>4. OutsideTypes'
      BY <2>11 DEF TypeOK, OutsideTypes, EligibleRead, Receive, HasMessage
    <3> QED
      BY <3>1, <3>2, <3>3, <3>4 DEF TypeOK
  <2>12. ASSUME NEW w \in Workers, NEW c \in Cases, NEW t \in ExecutableTypes,
                ClaimRead(w, c, t)
        PROVE  TypeOK'
    <3>1. RowTypes'
      BY <2>12 DEF TypeOK, RowTypes, ClaimRead
    <3>2. WorkerTypes'
      BY <2>12, JobTypes
      DEF TypeOK, WorkerTypes, ClaimRead, Receive, Stages, DecisionStages,
          ExecutableTypes
    <3>3. HookTypes'
      BY <2>12 DEF TypeOK, HookTypes, ClaimRead
    <3>4. OutsideTypes'
      BY <2>12 DEF TypeOK, OutsideTypes, ClaimRead, Receive, HasMessage
    <3> QED
      BY <3>1, <3>2, <3>3, <3>4 DEF TypeOK
  <2>13. ASSUME NEW w \in Workers, EligibleLock(w)
        PROVE  TypeOK'
    <3>1. /\ job[w].case \in Cases /\ job[w].event \in Events
          /\ job[w].version \in Nat
      BY <2>13, HeldTask DEF EligibleLock, DecisionStages
    <3>2. RowTypes'
      BY <2>13 DEF TypeOK, RowTypes, EligibleLock
    <3>3. WorkerTypes'
      BY <2>13, <3>1, JobTypes
      DEF TypeOK, WorkerTypes, EligibleLock, Goto, EndTask, Stages,
          DecisionStages
    <3>4. HookTypes'
      BY <2>13 DEF TypeOK, HookTypes, EligibleLock
    <3>5. OutsideTypes'
      BY <2>13 DEF TypeOK, OutsideTypes, EligibleLock
    <3> QED
      BY <3>2, <3>3, <3>4, <3>5 DEF TypeOK
  <2>14. ASSUME NEW w \in Workers, NEW answer \in LlmAnswers,
                EligibleDecide(w, answer)
        PROVE  TypeOK'
    <3>1. /\ job[w].case \in Cases /\ job[w].event \in Events
          /\ job[w].version \in Nat
      BY <2>14, HeldTask DEF EligibleDecide, DecisionStages
    <3>2. RowTypes'
      <4> DEFINE c == job[w].case
                 type == final_action(c, answer)
      <4>a. type \in ActionTypes /\ "APPROVED" \in ActionStatuses
        BY FinalActionType DEF ActionStatuses
      <4>b. /\ action' = [ action EXCEPT ![c][type] = "APPROVED" ] \/ action' = action
            /\ \/ outbox' = [ outbox EXCEPT ![c] =
                                [ e \in Events |->
                                    IF e \in scheduled_events(type)
                                    THEN "PENDING" ELSE @[e] ] ]
               \/ outbox' = outbox
        BY <2>14 DEF EligibleDecide
      <4>1. action' \in ActionRows
        BY <3>1, <4>a, <4>b, ActionWrite DEF TypeOK, RowTypes
      <4>2. outbox' \in OutboxRows
        <5>1. PICK es : \/ outbox' = [ outbox EXCEPT ![c] =
                                         [ e \in Events |->
                                             IF e \in es THEN "PENDING"
                                                         ELSE @[e] ] ]
                        \/ outbox' = outbox
          BY <4>b, Zenon
        <5>2. outbox \in OutboxRows /\ c \in Cases
          BY <3>1 DEF TypeOK, RowTypes
        <5>3. [ outbox EXCEPT ![c] =
                  [ e \in Events |->
                      IF e \in es THEN "PENDING" ELSE @[e] ] ] \in OutboxRows
          BY <5>2, OutboxInsert
        <5> QED
          BY <5>1, <5>2, <5>3, Zenon
      <4>3. status' \in [ Cases -> CaseStatuses \cup { NoRow } ]
        BY <2>14, <3>1
        DEF TypeOK, RowTypes, EligibleDecide, CaseStatuses, final_status
      <4>4. version' \in [ Cases -> Nat ]
        BY <2>14, <3>1 DEF TypeOK, RowTypes, EligibleDecide
      <4>5. audit' \in AuditRows
        BY <2>14, <3>1, AuditWrite, EntryNames
        DEF TypeOK, RowTypes, EligibleDecide, insert_decision_audit
      <4> QED
        BY <2>14, <4>1, <4>2, <4>3, <4>4, <4>5 DEF TypeOK, RowTypes, EligibleDecide
    <3>3. WorkerTypes'
      BY <2>14, <3>1, JobTypes
      DEF TypeOK, WorkerTypes, EligibleDecide, EndTask, Stages
    <3>4. HookTypes'
      BY <2>14 DEF TypeOK, HookTypes, EligibleDecide
    <3>5. OutsideTypes'
      BY <2>14 DEF TypeOK, OutsideTypes, EligibleDecide
    <3> QED
      BY <3>2, <3>3, <3>4, <3>5 DEF TypeOK
  <2>15. ASSUME NEW w \in Workers, Claim(w)
        PROVE  TypeOK'
    <3>1. /\ job[w].case \in Cases /\ job[w].event \in Events
          /\ job[w].version \in Nat
          /\ job[w].event \in ExecutableTypes /\ job[w].event \in ActionTypes
      BY <2>15, HeldTask DEF Claim, DecisionStages
    <3>0. audit' \in AuditRows
      BY <2>15, <3>1, AuditWrite, EntryNames
      DEF TypeOK, RowTypes, Claim, action_audit
    <3>2. RowTypes'
      BY <2>15, <3>0, <3>1, ActionWrite DEF TypeOK, RowTypes, Claim, ActionStatuses
    <3>3. WorkerTypes'
      BY <2>15, <3>1, JobTypes
      DEF TypeOK, WorkerTypes, Claim, Goto, EndTask, Stages, DecisionStages
    <3>4. HookTypes'
      BY <2>15 DEF TypeOK, HookTypes, Claim
    <3>5. OutsideTypes'
      BY <2>15 DEF TypeOK, OutsideTypes, Claim
    <3> QED
      BY <3>2, <3>3, <3>4, <3>5 DEF TypeOK
  <2>16. ASSUME NEW w \in Workers, ClaimRefuse(w)
        PROVE  TypeOK'
    <3>1. /\ job[w].case \in Cases /\ job[w].event \in Events
          /\ job[w].version \in Nat
          /\ job[w].event \in ExecutableTypes /\ job[w].event \in ActionTypes
      BY <2>16, HeldTask DEF ClaimRefuse, DecisionStages
    <3>0. audit' \in AuditRows
      BY <2>16, <3>1, AuditWrite, EntryNames
      DEF TypeOK, RowTypes, ClaimRefuse, action_audit
    <3>2. RowTypes'
      BY <2>16, <3>0, <3>1, ActionWrite
      DEF TypeOK, RowTypes, ClaimRefuse, ActionStatuses
    <3>3. WorkerTypes'
      BY <2>16, <3>1, JobTypes
      DEF TypeOK, WorkerTypes, ClaimRefuse, Goto, EndTask, Stages,
          DecisionStages
    <3>4. HookTypes'
      BY <2>16 DEF TypeOK, HookTypes, ClaimRefuse
    <3>5. OutsideTypes'
      BY <2>16 DEF TypeOK, OutsideTypes, ClaimRefuse
    <3> QED
      BY <3>2, <3>3, <3>4, <3>5 DEF TypeOK
  <2>17. ASSUME NEW w \in Workers, ClaimStop(w)
        PROVE  TypeOK'
    <3>1. /\ job[w].case \in Cases /\ job[w].event \in Events
          /\ job[w].version \in Nat
          /\ job[w].event \in ExecutableTypes /\ job[w].event \in ActionTypes
      BY <2>17, HeldTask DEF ClaimStop, DecisionStages
    <3>2. RowTypes'
      <4>1. action' \in ActionRows
        BY <2>17, <3>1, ActionWrite
        DEF TypeOK, RowTypes, ClaimStop, ActionStatuses
      <4>2. status' \in [ Cases -> CaseStatuses \cup { NoRow } ]
        BY <2>17, <3>1 DEF TypeOK, RowTypes, ClaimStop, CaseStatuses
      <4>3. version' \in [ Cases -> Nat ]
        BY <2>17, <3>1 DEF TypeOK, RowTypes, ClaimStop
      <4>4. audit' \in AuditRows
        BY <2>17, <3>1, AuditWrite, EntryNames
        DEF TypeOK, RowTypes, ClaimStop, action_audit
      <4> QED
        BY <2>17, <4>1, <4>2, <4>3, <4>4 DEF TypeOK, RowTypes, ClaimStop
    <3>3. WorkerTypes'
      BY <2>17, <3>1, JobTypes
      DEF TypeOK, WorkerTypes, ClaimStop, EndTask, Stages
    <3>4. HookTypes'
      BY <2>17 DEF TypeOK, HookTypes, ClaimStop
    <3>5. OutsideTypes'
      BY <2>17 DEF TypeOK, OutsideTypes, ClaimStop
    <3> QED
      BY <3>2, <3>3, <3>4, <3>5 DEF TypeOK
  <2>18. ASSUME NEW w \in Workers, CallSucceeds(w)
        PROVE  TypeOK'
    <3>1. /\ job[w].case \in Cases /\ job[w].event \in Events
          /\ job[w].version \in Nat
          /\ job[w].event \in ExecutableTypes /\ job[w].event \in ActionTypes
      BY <2>18, HeldTask DEF CallSucceeds, DecisionStages
    <3>2. RowTypes'
      BY <2>18 DEF TypeOK, RowTypes, CallSucceeds
    <3>3. WorkerTypes'
      BY <2>18, <3>1, JobTypes
      DEF TypeOK, WorkerTypes, CallSucceeds, Goto, Stages, DecisionStages
    <3>4. HookTypes'
      BY <2>18 DEF TypeOK, HookTypes, CallSucceeds
    <3>5. OutsideTypes'
      BY <2>18, <3>1 DEF TypeOK, OutsideTypes, CallSucceeds
    <3> QED
      BY <3>2, <3>3, <3>4, <3>5 DEF TypeOK
  <2>19. ASSUME NEW w \in Workers, NEW created \in BOOLEAN,
                CallFails(w, created)
        PROVE  TypeOK'
    <3>1. /\ job[w].case \in Cases /\ job[w].event \in Events
          /\ job[w].version \in Nat
          /\ job[w].event \in ExecutableTypes /\ job[w].event \in ActionTypes
      BY <2>19, HeldTask DEF CallFails, DecisionStages
    <3>2. RowTypes'
      BY <2>19 DEF TypeOK, RowTypes, CallFails
    <3>3. WorkerTypes'
      BY <2>19, <3>1, JobTypes
      DEF TypeOK, WorkerTypes, CallFails, Goto, Stages, DecisionStages
    <3>4. HookTypes'
      BY <2>19 DEF TypeOK, HookTypes, CallFails
    <3>5. OutsideTypes'
      BY <2>19, <3>1 DEF TypeOK, OutsideTypes, CallFails
    <3> QED
      BY <3>2, <3>3, <3>4, <3>5 DEF TypeOK
  <2>20. ASSUME NEW w \in Workers, FinalizeRead(w)
        PROVE  TypeOK'
    <3>1. /\ job[w].case \in Cases /\ job[w].event \in Events
          /\ job[w].version \in Nat
          /\ job[w].event \in ExecutableTypes /\ job[w].event \in ActionTypes
      BY <2>20, HeldTask DEF FinalizeRead, DecisionStages
    <3>2. RowTypes'
      BY <2>20 DEF TypeOK, RowTypes, FinalizeRead
    <3>3. WorkerTypes'
      BY <2>20, <3>1, JobTypes
      DEF TypeOK, WorkerTypes, FinalizeRead, EndTask, Stages, DecisionStages
    <3>4. HookTypes'
      BY <2>20 DEF TypeOK, HookTypes, FinalizeRead
    <3>5. OutsideTypes'
      BY <2>20 DEF TypeOK, OutsideTypes, FinalizeRead
    <3> QED
      BY <3>2, <3>3, <3>4, <3>5 DEF TypeOK
  <2>21. ASSUME NEW w \in Workers, FinalizeLock(w)
        PROVE  TypeOK'
    <3>1. /\ job[w].case \in Cases /\ job[w].event \in Events
          /\ job[w].version \in Nat
          /\ job[w].event \in ExecutableTypes /\ job[w].event \in ActionTypes
      BY <2>21, HeldTask DEF FinalizeLock, DecisionStages
    <3>2. RowTypes'
      BY <2>21 DEF TypeOK, RowTypes, FinalizeLock
    <3>3. WorkerTypes'
      BY <2>21, <3>1, JobTypes
      DEF TypeOK, WorkerTypes, FinalizeLock, Goto, Stages, DecisionStages
    <3>4. HookTypes'
      BY <2>21 DEF TypeOK, HookTypes, FinalizeLock
    <3>5. OutsideTypes'
      BY <2>21 DEF TypeOK, OutsideTypes, FinalizeLock
    <3> QED
      BY <3>2, <3>3, <3>4, <3>5 DEF TypeOK
  <2>22. ASSUME NEW w \in Workers, FinalizeCommit(w)
        PROVE  TypeOK'
    <3>1. /\ job[w].case \in Cases /\ job[w].event \in Events
          /\ job[w].version \in Nat
          /\ job[w].event \in ExecutableTypes /\ job[w].event \in ActionTypes
      BY <2>22, HeldTask DEF FinalizeCommit, DecisionStages
    <3>2. RowTypes'
      <4>1. action' \in ActionRows
        BY <2>22, <3>1, ActionWrite
        DEF TypeOK, RowTypes, FinalizeCommit, ActionStatuses
      <4>2. status' \in [ Cases -> CaseStatuses \cup { NoRow } ]
        BY <2>22, <3>1 DEF TypeOK, RowTypes, FinalizeCommit, CaseStatuses
      <4>3. version' \in [ Cases -> Nat ]
        BY <2>22, <3>1 DEF TypeOK, RowTypes, FinalizeCommit
      <4>4. audit' \in AuditRows
        BY <2>22, <3>1, AuditWrite, EntryNames
        DEF TypeOK, RowTypes, FinalizeCommit, action_audit
      <4> QED
        BY <2>22, <4>1, <4>2, <4>3, <4>4 DEF TypeOK, RowTypes, FinalizeCommit
    <3>3. WorkerTypes'
      BY <2>22, <3>1, JobTypes
      DEF TypeOK, WorkerTypes, FinalizeCommit, EndTask, Stages
    <3>4. HookTypes'
      BY <2>22 DEF TypeOK, HookTypes, FinalizeCommit
    <3>5. OutsideTypes'
      BY <2>22 DEF TypeOK, OutsideTypes, FinalizeCommit
    <3> QED
      BY <3>2, <3>3, <3>4, <3>5 DEF TypeOK
  <2>23. ASSUME NEW w \in Workers, FinalizeFailure(w)
        PROVE  TypeOK'
    <3>1. /\ job[w].case \in Cases /\ job[w].event \in Events
          /\ job[w].version \in Nat
          /\ job[w].event \in ExecutableTypes /\ job[w].event \in ActionTypes
      BY <2>23, HeldTask DEF FinalizeFailure, DecisionStages
    <3>0. audit' \in AuditRows
      BY <2>23, <3>1, AuditWrite, EntryNames
      DEF TypeOK, RowTypes, FinalizeFailure, action_audit
    <3>2. RowTypes'
      BY <2>23, <3>0, <3>1, ActionWrite
      DEF TypeOK, RowTypes, FinalizeFailure, ActionStatuses
    <3>3. WorkerTypes'
      BY <2>23, <3>1, JobTypes
      DEF TypeOK, WorkerTypes, FinalizeFailure, EndTask, Stages
    <3>4. HookTypes'
      BY <2>23 DEF TypeOK, HookTypes, FinalizeFailure
    <3>5. OutsideTypes'
      BY <2>23 DEF TypeOK, OutsideTypes, FinalizeFailure
    <3> QED
      BY <3>2, <3>3, <3>4, <3>5 DEF TypeOK
  <2>24. ASSUME NEW w \in Workers, BrokerDuplicate(w)
        PROVE  TypeOK'
    <3>1. /\ job[w].case \in Cases /\ job[w].event \in Events
          /\ job[w].version \in Nat
      BY <2>24, HeldTask DEF BrokerDuplicate, DecisionStages
    <3>2. RowTypes'
      BY <2>24 DEF TypeOK, RowTypes, BrokerDuplicate
    <3>3. WorkerTypes'
      BY <2>24 DEF TypeOK, WorkerTypes, BrokerDuplicate
    <3>4. HookTypes'
      BY <2>24 DEF TypeOK, HookTypes, BrokerDuplicate
    <3>5. OutsideTypes'
      BY <2>24, <3>1 DEF TypeOK, OutsideTypes, BrokerDuplicate
    <3> QED
      BY <3>2, <3>3, <3>4, <3>5 DEF TypeOK
  <2>25. ASSUME NEW w \in Workers, NEW kind \in FaultKinds, WorkerFault(w, kind)
        PROVE  TypeOK'
    <3>1. /\ job[w].case \in Cases /\ job[w].event \in Events
          /\ job[w].version \in Nat
      BY <2>25, HeldTask DEF WorkerFault, DecisionStages
    <3>2. RowTypes'
      BY <2>25 DEF TypeOK, RowTypes, WorkerFault
    <3>3. WorkerTypes'
      BY <2>25, <3>1, JobTypes
      DEF TypeOK, WorkerTypes, WorkerFault, EndTask, Stages
    <3>4. HookTypes'
      BY <2>25 DEF TypeOK, HookTypes, WorkerFault
    <3>5. OutsideTypes'
      BY <2>25, <3>1 DEF TypeOK, OutsideTypes, WorkerFault, copies_returned
    <3> QED
      BY <3>2, <3>3, <3>4, <3>5 DEF TypeOK
  <2>26. ASSUME NEW new \in LimitsSet, PolicyChange(new)
        PROVE  TypeOK'
    <3>1. RowTypes'
      BY <2>26 DEF TypeOK, RowTypes, PolicyChange
    <3>2. WorkerTypes'
      BY <2>26 DEF TypeOK, WorkerTypes, PolicyChange
    <3>3. HookTypes'
      BY <2>26 DEF TypeOK, HookTypes, PolicyChange
    <3>4. OutsideTypes'
      BY <2>26 DEF TypeOK, OutsideTypes, PolicyChange
    <3> QED
      BY <3>1, <3>2, <3>3, <3>4 DEF TypeOK
  <2>27. CASE UNCHANGED vars
    BY <2>27 DEF vars, TypeOK, RowTypes, WorkerTypes, HookTypes, OutsideTypes
  <2> QED
    BY <2>1, <2>2, <2>3, <2>4, <2>5, <2>6, <2>7, <2>8, <2>9, <2>10, <2>11,
       <2>12, <2>13, <2>14, <2>15, <2>16, <2>17, <2>18, <2>19, <2>20, <2>21,
       <2>22, <2>23, <2>24, <2>25, <2>26, <2>27
    DEF Next, CaseNext, HookNext, ReceiveNext, WorkerNext
<1> QED
  BY <1>1, <1>2, PTL DEF Spec

-----------------------------------------------------------------------------
(***************************************************************************)
(* Leases, locks and side effects, from SafetyInv.                         *)
(***************************************************************************)

(* The shape of the state, with the sets of values left opaque. *)
LEMMA Shapes ==
    ASSUME TypeOK
    PROVE  /\ status \in [ Cases -> CaseStatuses \cup { NoRow } ]
           /\ action \in [ Cases -> [ ActionTypes -> ActionStatuses \cup { NoRow } ] ]
           /\ pc \in [ Workers -> Stages ]
           /\ job \in [ Workers -> Jobs ]
           /\ hookRows \in [ Cases -> [ Sources -> SUBSET ActionTypes ] ]
           /\ calls \in [ Cases -> [ ActionTypes -> Nat ] ]
           /\ \A w \in Workers : pc[w] # "idle" => job[w].case \in Cases
           /\ \A w \in Workers : pc[w] # "idle" /\ pc[w] \notin DecisionStages =>
                 job[w].event \in ActionTypes
BY Names DEF TypeOK, RowTypes, WorkerTypes, HookTypes, OutsideTypes, ActionRows

(* A worker that ends its task, or loses it, lets go of its locks and of its
   action: that disturbs nothing. *)
LEMMA EndTaskSafe ==
    ASSUME TypeOK, SafetyInv, NEW w \in Workers, EndTask(w),
           UNCHANGED << status, action, hookRows, calls >>
    PROVE  SafetyInv'
<1> USE Shapes DEF CaseLockStages, ClaimedStages, SameTask, SafetyInv, EndTask
<1>1. CaseLockInv'
  BY DEF CaseLockInv
<1>2. ActionLockInv'
  BY DEF ActionLockInv
<1>3. DecisionInv'
  BY DEF DecisionInv, NoHalfProcessedCase
<1>4. CallInv'
  BY DEF CallInv
<1> QED
  BY <1>1, <1>2, <1>3, <1>4

(* Nor does a worker that starts a task: it has read rows and locked none. *)
LEMMA StartTaskSafe ==
    ASSUME TypeOK, SafetyInv, NEW w \in Workers, NEW j,
           NEW stage \in { "eligible", "claiming", "refusing" },
           stage = "eligible" => j.status = "ELIGIBLE",
           pc' = [ pc EXCEPT ![w] = stage ],
           job' = [ job EXCEPT ![w] = j ],
           UNCHANGED << status, action, hookRows, calls >>
    PROVE  SafetyInv'
<1> USE Shapes DEF CaseLockStages, ClaimedStages, SameTask, SafetyInv
<1>1. CaseLockInv'
  BY DEF CaseLockInv
<1>2. ActionLockInv'
  BY DEF ActionLockInv
<1>3. DecisionInv'
  BY DEF DecisionInv, NoHalfProcessedCase
<1>4. CallInv'
  BY DEF CallInv
<1> QED
  BY <1>1, <1>2, <1>3, <1>4

(* A step that changes none of the variables the invariant speaks of, such as
   a step of the dispatcher or of the broker, preserves it. *)
LEMMA FrameSafe ==
    ASSUME SafetyInv, UNCHANGED << status, action, pc, job, hookRows, calls >>
    PROVE  SafetyInv'
BY DEF SafetyInv, CaseLockInv, ActionLockInv, DecisionInv, CallInv,
       NoHalfProcessedCase, CaseLockStages, ClaimedStages, SameTask

(* Every step preserves the invariant about locks, decisions and calls. *)
LEMMA SafetyStep ==
    ASSUME TypeOK, SafetyInv, [Next]_vars
    PROVE  SafetyInv'
<1> USE Shapes DEF rows, workerVars, hookVars, faultVars, CaseLockStages, ClaimedStages,
                   DecisionStages, SameTask, SafetyInv
<1>1. ASSUME NEW c \in Cases, NEW a \in Amounts, NEW k \in Categories,
             PaymentFailed(c, a, k)
      PROVE  SafetyInv'
  <2>1. CaseLockInv'
    BY <1>1 DEF CaseLockInv, PaymentFailed, NoRow
  <2>2. ActionLockInv'
    BY <1>1 DEF ActionLockInv, PaymentFailed
  <2>3. DecisionInv'
    BY <1>1 DEF DecisionInv, NoHalfProcessedCase, PaymentFailed, NoRow
  <2>4. CallInv'
    BY <1>1 DEF CallInv, PaymentFailed
  <2> QED
    BY <2>1, <2>2, <2>3, <2>4
<1>2. ASSUME NEW c \in Cases, NEW s \in Sources, CaptureRecorded(c, s)
      PROVE  SafetyInv'
  BY <1>2, FrameSafe DEF CaptureRecorded
<1>3. ASSUME NEW c \in Cases, NEW s \in Sources, CaptureRead(c, s)
      PROVE  SafetyInv'
  BY <1>3, FrameSafe DEF CaptureRead
<1>4. ASSUME NEW c \in Cases, NEW s \in Sources, CaptureCancel(c, s)
      PROVE  SafetyInv'
  <2>1. CaseLockInv'
    BY <1>4 DEF CaseLockInv, CaptureCancel
  <2>2. ActionLockInv'
    BY <1>4 DEF ActionLockInv, CaptureCancel, ActionLocked, CancellableStatuses
  <2>3. DecisionInv'
    BY <1>4 DEF DecisionInv, NoHalfProcessedCase, CaptureCancel
  <2>4. CallInv'
    BY <1>4 DEF CallInv, CaptureCancel
  <2> QED
    BY <2>1, <2>2, <2>3, <2>4
<1>5. ASSUME NEW c \in Cases, NEW s \in Sources, CaptureCommit(c, s)
      PROVE  SafetyInv'
  <2>1. /\ \A d \in Cases : status'[d] = status[d] \/ (d = c /\ status'[d] = "RECOVERED")
        /\ UNCHANGED << pc, job, calls >>
        /\ \A x \in Workers : pc[x] \in CaseLockStages => job[x].case # c
    BY <1>5 DEF CaptureCommit, CaseLocked
  <2>2. \A t \in hookRows[c][s] : action[c][t] \in { "PENDING", "APPROVED" }
    BY DEF ActionLockInv, CancellableStatuses
  <2>3. \A d \in Cases, t \in ActionTypes :
           \/ action'[d][t] = action[d][t] /\ ~(d = c /\ t \in hookRows[c][s])
           \/ /\ d = c /\ t \in hookRows[c][s]
              /\ action'[d][t] = "CANCELLED"
              /\ action[d][t] \in { "PENDING", "APPROVED" }
    BY <1>5, <2>2 DEF CaptureCommit
  <2>4. \A d \in Cases, r \in Sources :
           \/ hookRows'[d][r] = hookRows[d][r] /\ ~(d = c /\ r = s)
           \/ hookRows'[d][r] = {}
    BY <1>5 DEF CaptureCommit
  <2>5. CaseLockInv'
    BY <2>1 DEF CaseLockInv
  <2>6. ActionLockInv'
    <3>1. ASSUME NEW d \in Cases, NEW r \in Sources, NEW t \in hookRows'[d][r]
          PROVE  /\ t \in hookRows[d][r] /\ t \in ActionTypes
                 /\ ~(d = c /\ t \in hookRows[c][s])
      <4>1. hookRows'[d][r] = hookRows[d][r] /\ ~(d = c /\ r = s)
        BY <2>4
      <4>2. t \in hookRows[d][r] /\ hookRows[d][r] \subseteq ActionTypes
        BY <4>1
      <4>3. t \in hookRows[c][s] /\ d = c => r = s
        BY <4>2 DEF ActionLockInv
      <4> QED
        BY <4>1, <4>2, <4>3
    <3>2. ASSUME NEW d \in Cases, NEW r \in Sources, NEW t \in hookRows'[d][r]
          PROVE  /\ action'[d][t] \in CancellableStatuses
                 /\ \A q \in Sources : t \in hookRows'[d][q] => q = r
      <4>1. /\ action[d][t] \in CancellableStatuses
            /\ \A q \in Sources : t \in hookRows[d][q] => q = r
        BY <3>1 DEF ActionLockInv
      <4>2. action'[d][t] = action[d][t]
        BY <3>1, <2>3
      <4>3. \A q \in Sources : t \in hookRows'[d][q] => t \in hookRows[d][q]
        BY <3>1
      <4> QED
        BY <4>1, <4>2, <4>3
    <3>3. ASSUME NEW w \in Workers, pc[w] = "stopping"
          PROVE  /\ action'[job[w].case][job[w].event] = "APPROVED"
                 /\ \A r \in Sources : job[w].event \notin hookRows'[job[w].case][r]
      <4>1. job[w].case \in Cases /\ job[w].event \in ActionTypes
        BY <3>3
      <4>2. /\ action[job[w].case][job[w].event] = "APPROVED"
            /\ \A r \in Sources : job[w].event \notin hookRows[job[w].case][r]
        BY <3>3 DEF ActionLockInv
      <4>3. action'[job[w].case][job[w].event] = action[job[w].case][job[w].event]
        <5>1. ~(job[w].case = c /\ job[w].event \in hookRows[c][s])
          BY <4>2
        <5> QED
          BY <4>1, <5>1, <2>3
      <4>4. \A r \in Sources : job[w].event \notin hookRows'[job[w].case][r]
        BY <4>1, <4>2, <2>4
      <4> QED
        BY <4>2, <4>3, <4>4
    <3> QED
      BY <2>1, <3>2, <3>3 DEF ActionLockInv
  <2>7. DecisionInv'
    <3>1. ASSUME NEW d \in Cases, NEW t \in ActionTypes
          PROVE  action'[d][t] # NoRow <=> action[d][t] # NoRow
      BY <2>3 DEF NoRow
    <3>2. ASSUME NEW d \in Cases
          PROVE  /\ status'[d] \in { NoRow, "ELIGIBLE" } => status'[d] = status[d]
                 /\ status'[d] \notin { "FAILED", "ANALYSING", "ACTION_SELECTED" }
      BY <2>1 DEF DecisionInv, NoHalfProcessedCase, NoRow
    <3> QED
      BY <3>1, <3>2 DEF DecisionInv, NoHalfProcessedCase
  <2>8. CallInv'
    <3>1. ASSUME NEW d \in Cases, NEW t \in ActionTypes,
                 action[d][t] \in { "EXECUTING", "EXECUTED", "FAILED" }
          PROVE  action'[d][t] = action[d][t]
      BY <2>3, <3>1
    <3>2. ASSUME NEW w \in Workers, pc[w] \in ClaimedStages
          PROVE  action'[job[w].case][job[w].event] = "EXECUTING"
      <4>1. /\ job[w].case \in Cases /\ job[w].event \in ActionTypes
            /\ action[job[w].case][job[w].event] = "EXECUTING"
        BY <3>2 DEF CallInv
      <4> QED
        BY <4>1, <3>1
    <3>3. ASSUME NEW d \in Cases, NEW t \in ActionTypes, calls[d][t] > 0
          PROVE  action'[d][t] \in { "EXECUTING", "EXECUTED", "FAILED" }
      <4>1. action[d][t] \in { "EXECUTING", "EXECUTED", "FAILED" }
        BY <3>3 DEF CallInv
      <4> QED
        BY <4>1, <3>1
    <3> QED
      BY <2>1, <3>2, <3>3 DEF CallInv
  <2> QED
    BY <2>5, <2>6, <2>7, <2>8
<1>6. ASSUME NEW c \in Cases, NEW s \in Sources, CaptureRollback(c, s)
      PROVE  SafetyInv'
  <2>1. CaseLockInv'
    BY <1>6 DEF CaseLockInv, CaptureRollback
  <2>2. ActionLockInv'
    BY <1>6 DEF ActionLockInv, CaptureRollback
  <2>3. DecisionInv'
    BY <1>6 DEF DecisionInv, NoHalfProcessedCase, CaptureRollback
  <2>4. CallInv'
    BY <1>6 DEF CallInv, CaptureRollback
  <2> QED
    BY <2>1, <2>2, <2>3, <2>4
<1>7. ASSUME NEW c \in Cases, NEW e \in Events, Dispatch(c, e)
      PROVE  SafetyInv'
  BY <1>7, FrameSafe DEF Dispatch
<1>8. ASSUME NEW c \in Cases, NEW e \in Events, DispatchCrash(c, e)
      PROVE  SafetyInv'
  BY <1>8, FrameSafe DEF DispatchCrash
<1>9. ASSUME NEW c \in Cases, NEW e \in Events, DispatchGivesUp(c, e)
      PROVE  SafetyInv'
  BY <1>9, FrameSafe DEF DispatchGivesUp
<1>10. ASSUME NEW w \in Workers, NEW c \in Cases, IgnoreEvent(w, c)
      PROVE  SafetyInv'
  BY <1>10, FrameSafe DEF IgnoreEvent
<1>11. ASSUME NEW w \in Workers, NEW c \in Cases, EligibleRead(w, c)
      PROVE  SafetyInv'
  <2>1. CASE status[c] = "ELIGIBLE"
    <3>1. Job(c, "eligible").status = "ELIGIBLE"
      BY <2>1 DEF Job
    <3> QED
      BY <1>11, <2>1, <3>1, StartTaskSafe DEF EligibleRead
  <2>2. CASE status[c] # "ELIGIBLE"
    BY <1>11, <2>2, FrameSafe DEF EligibleRead
  <2> QED
    BY <2>1, <2>2
<1>12. ASSUME NEW w \in Workers, NEW c \in Cases, NEW t \in ExecutableTypes,
             ClaimRead(w, c, t)
      PROVE  SafetyInv'
  <2>1. \/ UNCHANGED workerVars
        \/ \E stage \in { "claiming", "refusing" } :
              /\ pc' = [ pc EXCEPT ![w] = stage ]
              /\ job' = [ job EXCEPT ![w] = Job(c, t) ]
    BY <1>12 DEF ClaimRead
  <2>2. UNCHANGED << status, action, hookRows, calls >>
    BY <1>12 DEF ClaimRead
  <2> QED
    BY <2>1, <2>2, StartTaskSafe, FrameSafe
<1>13. ASSUME NEW w \in Workers, EligibleLock(w)
      PROVE  SafetyInv'
  <2>1. CASE atomic_transition_recovery_case(job[w].case, job[w].status,
                                              job[w].version, "ANALYSING")
    <3>1. /\ pc[w] = "eligible"
          /\ pc' = [ pc EXCEPT ![w] = "deciding" ]
          /\ job' = job
          /\ UNCHANGED << status, action, hookRows, calls >>
          /\ \A x \in Workers : pc[x] \in CaseLockStages => job[x].case # job[w].case
          /\ status[job[w].case] = job[w].status
      BY <1>13, <2>1 DEF EligibleLock, Goto, CaseLocked,
            atomic_transition_recovery_case
    <3>2. status[job[w].case] = "ELIGIBLE"
      BY <3>1 DEF CaseLockInv
    <3>3. CaseLockInv'
      BY <3>1, <3>2 DEF CaseLockInv
    <3>4. ActionLockInv'
      BY <3>1, <3>2 DEF ActionLockInv
    <3>5. DecisionInv'
      BY <3>1, <3>2 DEF DecisionInv, NoHalfProcessedCase
    <3>6. CallInv'
      BY <3>1, <3>2 DEF CallInv
    <3> QED
      BY <3>3, <3>4, <3>5, <3>6
  <2>2. CASE ~atomic_transition_recovery_case(job[w].case, job[w].status,
                                               job[w].version, "ANALYSING")
    BY <1>13, <2>2, EndTaskSafe DEF EligibleLock
  <2> QED
    BY <2>1, <2>2
<1>14. ASSUME NEW w \in Workers, NEW answer \in LlmAnswers,
             EligibleDecide(w, answer)
      PROVE  SafetyInv'
  <2> DEFINE c == job[w].case
             type == final_action(c, answer)
  <2>1. c \in Cases /\ type \in ActionTypes /\ status[c] = "ELIGIBLE"
    BY <1>14, FinalActionType DEF EligibleDecide, CaseLockInv
  <2>2. \A t \in ActionTypes : action[c][t] = NoRow
    BY <2>1 DEF DecisionInv
  <2>3. /\ pc[w] = "deciding"
        /\ pc' = [ pc EXCEPT ![w] = "idle" ]
        /\ job' = [ job EXCEPT ![w] = NoJob ]
        /\ status' = [ status EXCEPT ![c] = final_status(type) ]
        /\ action' = [ action EXCEPT ![c][type] = "APPROVED" ]
        /\ UNCHANGED << hookRows, calls >>
    BY <1>14, <2>1, <2>2 DEF EligibleDecide, EndTask,
       create_recovery_action_idempotent
  <2>4. final_status(type) \in { "STOPPED", "ESCALATED", "ACTION_SCHEDULED" }
    BY DEF final_status
  <2> HIDE DEF type
  <2>5. CaseLockInv'
    BY <2>1, <2>2, <2>3, <2>4 DEF CaseLockInv
  <2>6. ActionLockInv'
    BY <2>1, <2>2, <2>3, <2>4 DEF ActionLockInv, CancellableStatuses, NoRow
  <2>7. DecisionInv'
    BY <2>1, <2>2, <2>3, <2>4 DEF DecisionInv, NoHalfProcessedCase, NoRow
  <2>8. CallInv'
    BY <2>1, <2>2, <2>3, <2>4 DEF CallInv, NoRow
  <2> QED
    BY <2>5, <2>6, <2>7, <2>8
<1>15. ASSUME NEW w \in Workers, Claim(w)
      PROVE  SafetyInv'
  <2>1. CASE action[job[w].case][job[w].event] = "APPROVED"
    <3>1. /\ pc[w] = "claiming"
          /\ pc' = [ pc EXCEPT ![w] = "claimed" ]
          /\ job' = job
          /\ action' = [ action EXCEPT ![job[w].case][job[w].event] = "EXECUTING" ]
          /\ UNCHANGED << status, hookRows, calls >>
          /\ \A x \in Workers : pc[x] = "stopping" => ~SameTask(x, w)
          /\ \A s \in Sources : job[w].event \notin hookRows[job[w].case][s]
      BY <1>15, <2>1 DEF Claim, Goto, ActionLocked, atomic_action_transition
    <3>2. /\ job[w].case \in Cases /\ job[w].event \in ActionTypes
          /\ calls[job[w].case][job[w].event] \in Nat
      BY <3>1
    <3>3. calls[job[w].case][job[w].event] = 0
      <4>1. ~(calls[job[w].case][job[w].event] > 0)
        BY <2>1, <3>2 DEF CallInv
      <4> QED
        BY <3>2, <4>1
    <3>4. \A x \in Workers : pc[x] \in ClaimedStages => ~SameTask(x, w)
      BY <2>1 DEF CallInv
    <3>5. CaseLockInv'
      BY <2>1, <3>1, <3>2, <3>3, <3>4 DEF CaseLockInv
    <3>6. ActionLockInv'
      BY <2>1, <3>1, <3>2, <3>3, <3>4 DEF ActionLockInv
    <3>7. DecisionInv'
      BY <2>1, <3>1, <3>2, <3>3, <3>4
      DEF DecisionInv, NoHalfProcessedCase, NoRow
    <3>8. CallInv'
      BY <2>1, <3>1, <3>2, <3>3, <3>4 DEF CallInv
    <3> QED
      BY <3>5, <3>6, <3>7, <3>8
  <2>2. CASE action[job[w].case][job[w].event] # "APPROVED"
    BY <1>15, <2>2, EndTaskSafe DEF Claim, atomic_action_transition
  <2> QED
    BY <2>1, <2>2
<1>16. ASSUME NEW w \in Workers, ClaimRefuse(w)
      PROVE  SafetyInv'
  <2> DEFINE cancelled == action[job[w].case][job[w].event] = "APPROVED"
  <2>1. CASE cancelled /\ stops_case(job[w].status)
    <3>1. /\ pc[w] = "refusing"
          /\ pc' = [ pc EXCEPT ![w] = "stopping" ]
          /\ job' = job
          /\ UNCHANGED << status, action, hookRows, calls >>
          /\ \A x \in Workers : pc[x] = "stopping" => ~SameTask(x, w)
          /\ \A s \in Sources : job[w].event \notin hookRows[job[w].case][s]
      BY <1>16, <2>1
      DEF ClaimRefuse, Goto, ActionLocked, atomic_action_transition
    <3>2. CaseLockInv'
      BY <2>1, <3>1 DEF CaseLockInv
    <3>3. ActionLockInv'
      BY <2>1, <3>1 DEF ActionLockInv
    <3>4. DecisionInv'
      BY <2>1, <3>1 DEF DecisionInv, NoHalfProcessedCase
    <3>5. CallInv'
      BY <2>1, <3>1 DEF CallInv
    <3> QED
      BY <3>2, <3>3, <3>4, <3>5
  <2>2. CASE cancelled /\ ~stops_case(job[w].status)
    <3>1. /\ pc[w] = "refusing"
          /\ pc' = [ pc EXCEPT ![w] = "idle" ]
          /\ job' = [ job EXCEPT ![w] = NoJob ]
          /\ action' = [ action EXCEPT ![job[w].case][job[w].event] = "CANCELLED" ]
          /\ UNCHANGED << status, hookRows, calls >>
          /\ \A x \in Workers : pc[x] = "stopping" => ~SameTask(x, w)
          /\ \A s \in Sources : job[w].event \notin hookRows[job[w].case][s]
      BY <1>16, <2>2
      DEF ClaimRefuse, EndTask, ActionLocked, atomic_action_transition
    <3>2. CaseLockInv'
      BY <2>2, <3>1 DEF CaseLockInv
    <3>3. ActionLockInv'
      BY <2>2, <3>1 DEF ActionLockInv
    <3>4. DecisionInv'
      BY <2>2, <3>1 DEF DecisionInv, NoHalfProcessedCase, NoRow
    <3>5. CallInv'
      BY <2>2, <3>1 DEF CallInv
    <3> QED
      BY <3>2, <3>3, <3>4, <3>5
  <2>3. CASE ~cancelled
    BY <1>16, <2>3, EndTaskSafe DEF ClaimRefuse, atomic_action_transition
  <2> QED
    BY <2>1, <2>2, <2>3
<1>17. ASSUME NEW w \in Workers, ClaimStop(w)
      PROVE  SafetyInv'
  <2>1. /\ pc[w] = "stopping"
        /\ pc' = [ pc EXCEPT ![w] = "idle" ]
        /\ job' = [ job EXCEPT ![w] = NoJob ]
        /\ action' = [ action EXCEPT ![job[w].case][job[w].event] = "CANCELLED" ]
        /\ UNCHANGED << hookRows, calls >>
        /\ status' = [ status EXCEPT ![job[w].case] = "STOPPED" ] \/ status' = status
        /\ \A x \in Workers : pc[x] \in CaseLockStages => job[x].case # job[w].case
    BY <1>17 DEF ClaimStop, EndTask, CaseLocked
  <2>2. /\ action[job[w].case][job[w].event] = "APPROVED"
        /\ job[w].case \in Cases /\ job[w].event \in ActionTypes
    BY <2>1 DEF ActionLockInv
  <2>3. CaseLockInv'
    BY <2>1, <2>2 DEF CaseLockInv
  <2>4. ActionLockInv'
    BY <2>1, <2>2 DEF ActionLockInv
  <2>5. DecisionInv'
    BY <2>1, <2>2 DEF DecisionInv, NoHalfProcessedCase, NoRow
  <2>6. CallInv'
    BY <2>1, <2>2 DEF CallInv
  <2> QED
    BY <2>3, <2>4, <2>5, <2>6
<1>18. ASSUME NEW w \in Workers, CallSucceeds(w)
      PROVE  SafetyInv'
  <2>1. /\ pc[w] = "claimed"
        /\ pc' = [ pc EXCEPT ![w] = "succeeded" ]
        /\ job' = job
        /\ calls' = [ calls EXCEPT ![job[w].case][job[w].event] = @ + 1 ]
        /\ UNCHANGED << status, action, hookRows >>
    BY <1>18 DEF CallSucceeds, Goto
  <2>2. /\ action[job[w].case][job[w].event] = "EXECUTING"
        /\ calls[job[w].case][job[w].event] = 0
        /\ job[w].case \in Cases /\ job[w].event \in ActionTypes
    BY <2>1 DEF CallInv
  <2>3. CaseLockInv'
    BY <2>1, <2>2 DEF CaseLockInv
  <2>4. ActionLockInv'
    BY <2>1, <2>2 DEF ActionLockInv
  <2>5. DecisionInv'
    BY <2>1, <2>2 DEF DecisionInv, NoHalfProcessedCase
  <2>6. CallInv'
    BY <2>1, <2>2 DEF CallInv
  <2> QED
    BY <2>3, <2>4, <2>5, <2>6
<1>19. ASSUME NEW w \in Workers, NEW created \in BOOLEAN, CallFails(w, created)
      PROVE  SafetyInv'
  <2>1. /\ pc[w] = "claimed"
        /\ pc' = [ pc EXCEPT ![w] = "failed" ]
        /\ job' = job
        /\ calls' = [ calls EXCEPT ![job[w].case][job[w].event] = @ + 1 ]
        /\ UNCHANGED << status, action, hookRows >>
    BY <1>19 DEF CallFails, Goto
  <2>2. /\ action[job[w].case][job[w].event] = "EXECUTING"
        /\ calls[job[w].case][job[w].event] = 0
        /\ job[w].case \in Cases /\ job[w].event \in ActionTypes
    BY <2>1 DEF CallInv
  <2>3. CaseLockInv'
    BY <2>1, <2>2 DEF CaseLockInv
  <2>4. ActionLockInv'
    BY <2>1, <2>2 DEF ActionLockInv
  <2>5. DecisionInv'
    BY <2>1, <2>2 DEF DecisionInv, NoHalfProcessedCase
  <2>6. CallInv'
    BY <2>1, <2>2 DEF CallInv
  <2> QED
    BY <2>3, <2>4, <2>5, <2>6
<1>20. ASSUME NEW w \in Workers, FinalizeRead(w)
      PROVE  SafetyInv'
  <2>1. CASE action[job[w].case][job[w].event] = "EXECUTING"
    <3>1. /\ pc[w] = "succeeded"
          /\ pc' = [ pc EXCEPT ![w] = "finalizing" ]
          /\ job' = [ job EXCEPT ![w] = Job(job[w].case, job[w].event) ]
          /\ UNCHANGED << status, action, hookRows, calls >>
      BY <1>20, <2>1 DEF FinalizeRead
    <3>2. /\ \A x \in Workers : job'[x].case = job[x].case
          /\ \A x \in Workers : job'[x].event = job[x].event
      BY <3>1, JobTypes
    <3>3. CaseLockInv'
      BY <3>1, <3>2 DEF CaseLockInv
    <3>4. ActionLockInv'
      BY <3>1, <3>2 DEF ActionLockInv
    <3>5. DecisionInv'
      BY <3>1, <3>2 DEF DecisionInv, NoHalfProcessedCase
    <3>6. CallInv'
      BY <3>1, <3>2 DEF CallInv
    <3> QED
      BY <3>3, <3>4, <3>5, <3>6
  <2>2. CASE action[job[w].case][job[w].event] # "EXECUTING"
    BY <1>20, <2>2, EndTaskSafe DEF FinalizeRead
  <2> QED
    BY <2>1, <2>2
<1>21. ASSUME NEW w \in Workers, FinalizeLock(w)
      PROVE  SafetyInv'
  <2>1. /\ pc[w] = "finalizing"
        /\ job' = job
        /\ UNCHANGED << status, action, hookRows, calls >>
        /\ \/ pc' = [ pc EXCEPT ![w] = "recording" ]
           \/ /\ pc' = [ pc EXCEPT ![w] = "moving" ]
              /\ status[job[w].case] = "ACTION_SCHEDULED"
              /\ \A x \in Workers :
                    pc[x] \in CaseLockStages => job[x].case # job[w].case
    BY <1>21 DEF FinalizeLock, Goto, CaseLocked, atomic_transition_recovery_case
  <2>2. CASE pc' = [ pc EXCEPT ![w] = "recording" ]
    <3>1. CaseLockInv'
      BY <2>1, <2>2 DEF CaseLockInv
    <3>2. ActionLockInv'
      BY <2>1, <2>2 DEF ActionLockInv
    <3>3. DecisionInv'
      BY <2>1, <2>2 DEF DecisionInv, NoHalfProcessedCase
    <3>4. CallInv'
      BY <2>1, <2>2 DEF CallInv
    <3> QED
      BY <3>1, <3>2, <3>3, <3>4
  <2>3. CASE pc' = [ pc EXCEPT ![w] = "moving" ]
    <3>1. /\ status[job[w].case] = "ACTION_SCHEDULED"
          /\ \A x \in Workers : pc[x] \in CaseLockStages => job[x].case # job[w].case
      BY <2>1, <2>3
    <3>2. CaseLockInv'
      BY <2>1, <2>3, <3>1 DEF CaseLockInv
    <3>3. ActionLockInv'
      BY <2>1, <2>3, <3>1 DEF ActionLockInv
    <3>4. DecisionInv'
      BY <2>1, <2>3, <3>1 DEF DecisionInv, NoHalfProcessedCase
    <3>5. CallInv'
      BY <2>1, <2>3, <3>1 DEF CallInv
    <3> QED
      BY <3>2, <3>3, <3>4, <3>5
  <2> QED
    BY <2>1, <2>2, <2>3
<1>22. ASSUME NEW w \in Workers, FinalizeCommit(w)
      PROVE  SafetyInv'
  <2>1. /\ pc[w] \in { "moving", "recording" }
        /\ action[job[w].case][job[w].event] = "EXECUTING"
        /\ job[w].case \in Cases /\ job[w].event \in ActionTypes
    BY <1>22 DEF FinalizeCommit, CallInv
  <2>2. /\ pc' = [ pc EXCEPT ![w] = "idle" ]
        /\ job' = [ job EXCEPT ![w] = NoJob ]
        /\ UNCHANGED << hookRows, calls >>
        /\ action' = [ action EXCEPT ![job[w].case][job[w].event] = "EXECUTED" ]
        /\ \/ pc[w] = "moving" /\ status' = [ status EXCEPT ![job[w].case] = "WAITING" ]
           \/ status' = status
    BY <1>22, <2>1 DEF FinalizeCommit, EndTask
  <2>3. CaseLockInv'
    BY <2>1, <2>2 DEF CaseLockInv
  <2>4. ActionLockInv'
    BY <2>1, <2>2 DEF ActionLockInv, CancellableStatuses
  <2>5. DecisionInv'
    BY <2>1, <2>2 DEF DecisionInv, NoHalfProcessedCase, NoRow
  <2>6. CallInv'
    BY <2>1, <2>2 DEF CallInv
  <2> QED
    BY <2>3, <2>4, <2>5, <2>6
<1>23. ASSUME NEW w \in Workers, FinalizeFailure(w)
      PROVE  SafetyInv'
  <2>1. /\ pc[w] = "failed"
        /\ action[job[w].case][job[w].event] = "EXECUTING"
        /\ job[w].case \in Cases /\ job[w].event \in ActionTypes
    BY <1>23 DEF FinalizeFailure, CallInv
  <2>2. /\ pc' = [ pc EXCEPT ![w] = "idle" ]
        /\ job' = [ job EXCEPT ![w] = NoJob ]
        /\ UNCHANGED << hookRows, calls >>
        /\ action' = [ action EXCEPT ![job[w].case][job[w].event] = "FAILED" ]
        /\ status' = status
    BY <1>23, <2>1 DEF FinalizeFailure, EndTask
  <2>3. CaseLockInv'
    BY <2>1, <2>2 DEF CaseLockInv
  <2>4. ActionLockInv'
    BY <2>1, <2>2 DEF ActionLockInv, CancellableStatuses
  <2>5. DecisionInv'
    BY <2>1, <2>2 DEF DecisionInv, NoHalfProcessedCase, NoRow
  <2>6. CallInv'
    BY <2>1, <2>2 DEF CallInv
  <2> QED
    BY <2>3, <2>4, <2>5, <2>6
<1>24. ASSUME NEW w \in Workers, BrokerDuplicate(w)
      PROVE  SafetyInv'
  BY <1>24, FrameSafe DEF BrokerDuplicate
<1>25. ASSUME NEW w \in Workers, NEW kind \in FaultKinds, WorkerFault(w, kind)
      PROVE  SafetyInv'
  BY <1>25, EndTaskSafe DEF WorkerFault
<1>26. ASSUME NEW new \in LimitsSet, PolicyChange(new)
      PROVE  SafetyInv'
  BY <1>26, FrameSafe DEF PolicyChange
<1>27. CASE UNCHANGED vars
  BY <1>27, FrameSafe DEF vars
<1> QED
  BY <1>1, <1>2, <1>3, <1>4, <1>5, <1>6, <1>7, <1>8, <1>9, <1>10, <1>11, <1>12,
     <1>13, <1>14, <1>15, <1>16, <1>17, <1>18, <1>19, <1>20, <1>21, <1>22,
     <1>23, <1>24, <1>25, <1>26, <1>27
  DEF Next, CaseNext, HookNext, ReceiveNext, WorkerNext

(* The invariant holds of an empty database. *)
LEMMA SafetyInit ==
    ASSUME Init
    PROVE  SafetyInv
<1> USE DEF Init, NoRow, NoJob
<1>1. CaseLockInv
  BY DEF CaseLockInv, CaseLockStages
<1>2. ActionLockInv
  BY DEF ActionLockInv
<1>3. DecisionInv
  BY DEF DecisionInv, NoHalfProcessedCase
<1>4. CallInv
  BY DEF CallInv, ClaimedStages
<1> QED
  BY <1>1, <1>2, <1>3, <1>4 DEF SafetyInv

(* The locks, the single decision and the ownership of a claimed action hold in
   every reachable state, for any number of cases, workers and faults. *)
THEOREM Safety == Spec => []SafetyInv
<1>1. Init => SafetyInv
  BY SafetyInit
<1>2. TypeOK /\ SafetyInv /\ [Next]_vars => SafetyInv'
  BY SafetyStep
<1> QED
  BY <1>1, <1>2, TypeCorrect, PTL DEF Spec

(* _execute_external runs at most once for a case, and only for an action that
   was claimed and not cancelled, whatever is redelivered and whoever dies. *)
THEOREM OnceOnly == Spec => []EffectivelyOnce
<1>1. TypeOK /\ SafetyInv => EffectivelyOnce
  <2> SUFFICES ASSUME TypeOK, SafetyInv, NEW c \in Cases, NEW t \in ActionTypes
               PROVE  /\ calls[c][t] <= 1
                      /\ calls[c][t] > 0 =>
                           /\ action[c][t] \in { "EXECUTING", "EXECUTED", "FAILED" }
                           /\ \A u \in ActionTypes \ { t } : calls[c][u] = 0
    BY DEF EffectivelyOnce
  <2>1. \A u \in ActionTypes :
           /\ calls[c][u] \in Nat /\ calls[c][u] <= 1
           /\ calls[c][u] > 0 =>
                 action[c][u] \in { "EXECUTING", "EXECUTED", "FAILED" }
    BY Shapes DEF SafetyInv, CallInv
  <2>2. ASSUME NEW u \in ActionTypes \ { t }, calls[c][t] > 0, calls[c][u] > 0
        PROVE  FALSE
    <3>1. action[c][t] # NoRow /\ action[c][u] # NoRow
      BY <2>1, <2>2 DEF NoRow
    <3> QED
      BY <2>2, <3>1 DEF SafetyInv, DecisionInv
  <2>3. \A u \in ActionTypes \ { t } : calls[c][t] > 0 => calls[c][u] = 0
    BY <2>1, <2>2
  <2> QED
    BY <2>1, <2>3
<1> QED
  BY <1>1, TypeCorrect, Safety, PTL

(* No commit of the worker, early returns included, leaves a case in one of the
   states it only passes through. *)
THEOREM NoneHalfProcessed == Spec => []NoHalfProcessedCase
<1>1. SafetyInv => NoHalfProcessedCase
  BY DEF SafetyInv, DecisionInv
<1> QED
  BY <1>1, Safety, PTL

(* The two orders in which the code locks a case row and an action row never
   meet: a row being finalized is EXECUTING, a row being cancelled is not. *)
THEOREM LocksNeverCross == Spec => []NoLockCycle
<1>1. TypeOK /\ SafetyInv => NoLockCycle
  <2> SUFFICES ASSUME TypeOK, SafetyInv, NEW w \in Workers, pc[w] = "moving"
               PROVE  ~ActionLocked(job[w].case, job[w].event)
    BY DEF NoLockCycle
  <2>1. /\ action[job[w].case][job[w].event] = "EXECUTING"
        /\ job[w].case \in Cases
    BY Shapes DEF SafetyInv, CallInv, ClaimedStages
  <2>2. \A x \in Workers : pc[x] = "stopping" => ~SameTask(x, w)
    BY <2>1 DEF SafetyInv, ActionLockInv, SameTask
  <2>3. \A s \in Sources : job[w].event \notin hookRows[job[w].case][s]
    BY <2>1 DEF SafetyInv, ActionLockInv, CancellableStatuses
  <2> QED
    BY <2>2, <2>3 DEF ActionLocked, SameTask
<1> QED
  BY <1>1, TypeCorrect, Safety, PTL

(* A step moves a closed case nowhere, or to RECOVERED.  Only five actions write
   the case row; a worker that does has found it open and holds its lock. *)
LEMMA ClosedStep ==
    ASSUME TypeOK, SafetyInv, Next, NEW c \in Cases, is_terminal(status[c])
    PROVE  status'[c] \in { status[c], "RECOVERED" }
<1> USE Shapes DEF is_terminal, TERMINAL_STATES
<1>1. ASSUME NEW d \in Cases, NEW a \in Amounts, NEW k \in Categories,
             PaymentFailed(d, a, k)
      PROVE  status'[c] = status[c]
  BY <1>1 DEF PaymentFailed, NoRow
<1>2. ASSUME NEW d \in Cases, NEW s \in Sources, CaptureCommit(d, s)
      PROVE  status'[c] \in { status[c], "RECOVERED" }
  BY <1>2 DEF CaptureCommit
<1>3. ASSUME NEW w \in Workers, NEW answer \in LlmAnswers,
             EligibleDecide(w, answer)
      PROVE  status'[c] = status[c]
  <2>1. pc[w] = "deciding" /\ status[job[w].case] = "ELIGIBLE"
    BY <1>3 DEF EligibleDecide, SafetyInv, CaseLockInv
  <2>2. job[w].case # c
    BY <2>1
  <2>3. \/ status' = [ status EXCEPT ![job[w].case] =
                          final_status(final_action(job[w].case, answer)) ]
        \/ status' = [ status EXCEPT ![job[w].case] = "ANALYSING" ]
    BY <1>3 DEF EligibleDecide
  <2> QED
    BY <2>2, <2>3
<1>4. ASSUME NEW w \in Workers, ClaimStop(w)
      PROVE  status'[c] = status[c]
  <2>1. CASE status' = status
    BY <2>1
  <2>2. CASE /\ validate_transition(status[job[w].case], "STOPPED")
             /\ status' = [ status EXCEPT ![job[w].case] = "STOPPED" ]
    <3>1. status[job[w].case] = "STOPPED" \/ ~is_terminal(status[job[w].case])
      BY <2>2 DEF validate_transition
    <3> QED
      BY <2>2, <3>1
  <2> QED
    BY <1>4, <2>1, <2>2 DEF ClaimStop, atomic_transition_recovery_case
<1>5. ASSUME NEW w \in Workers, FinalizeCommit(w)
      PROVE  status'[c] = status[c]
  <2>1. pc[w] = "moving" => status[job[w].case] = "ACTION_SCHEDULED"
    BY DEF SafetyInv, CaseLockInv
  <2> QED
    BY <1>5, <2>1 DEF FinalizeCommit
<1>6. \/ \E d \in Cases, a \in Amounts, k \in Categories : PaymentFailed(d, a, k)
      \/ \E d \in Cases, s \in Sources : CaptureCommit(d, s)
      \/ \E w \in Workers, answer \in LlmAnswers : EligibleDecide(w, answer)
      \/ \E w \in Workers : ClaimStop(w) \/ FinalizeCommit(w)
      \/ status' = status
  <2> HIDE Shapes DEF is_terminal, TERMINAL_STATES
  <2>1. ASSUME NEW d \in Cases, CaseNext(d)
        PROVE  \/ \E a \in Amounts, k \in Categories : PaymentFailed(d, a, k)
               \/ \E s \in Sources : CaptureCommit(d, s)
               \/ status' = status
    BY <2>1 DEF CaseNext, HookNext, rows, CaptureRecorded, CaptureRead,
                CaptureCancel, CaptureRollback, Dispatch, DispatchCrash,
                DispatchGivesUp
  <2>2. ASSUME NEW w \in Workers, NEW d \in Cases, ReceiveNext(w, d)
        PROVE  status' = status
    BY <2>2 DEF ReceiveNext, rows, IgnoreEvent, EligibleRead, ClaimRead
  <2>3. ASSUME NEW w \in Workers, WorkerNext(w)
        PROVE  \/ \E answer \in LlmAnswers : EligibleDecide(w, answer)
               \/ ClaimStop(w) \/ FinalizeCommit(w)
               \/ status' = status
    BY <2>3 DEF WorkerNext, rows, EligibleLock, Claim, ClaimRefuse, CallSucceeds,
                CallFails, FinalizeRead, FinalizeLock, FinalizeFailure
  <2>4. ASSUME NEW w \in Workers, BrokerDuplicate(w)
        PROVE  status' = status
    BY <2>4 DEF BrokerDuplicate, rows
  <2>5. ASSUME NEW w \in Workers, NEW kind \in FaultKinds, WorkerFault(w, kind)
        PROVE  status' = status
    BY <2>5 DEF WorkerFault, rows
  <2>6. ASSUME NEW new \in LimitsSet, PolicyChange(new)
        PROVE  status' = status
    BY <2>6 DEF PolicyChange
  <2> QED
    BY <2>1, <2>2, <2>3, <2>4, <2>5, <2>6 DEF Next
<1> QED
  BY <1>1, <1>2, <1>3, <1>4, <1>5, <1>6

(* No step of a stale worker or of a late webhook reopens a case that was
   stopped, escalated or recovered, and none moves it out of RECOVERED. *)
THEOREM ClosedForGood == Spec => ClosedStaysClosed
<1>1. TypeOK /\ SafetyInv /\ [Next]_vars =>
        [\A c \in Cases :
            is_terminal(status[c]) => status'[c] \in { status[c], "RECOVERED" }]_vars
  BY ClosedStep
<1> QED
  BY <1>1, TypeCorrect, Safety, PTL DEF Spec, ClosedStaysClosed

-----------------------------------------------------------------------------
(***************************************************************************)
(* Rows that agree, from AgreementInv.                                     *)
(***************************************************************************)

(* The abstract specification speaks of the same names and variables. *)
LEMMA LifecycleNames ==
    /\ Lifecycle!ActionTypes = ActionTypes
    /\ Lifecycle!NoCase = NoRow
    /\ Lifecycle!vars = << status, action, calls >>
    /\ \A t : Lifecycle!StatusAfter(t) = final_status(t)
BY DEF Lifecycle!ActionTypes, ActionTypes, Lifecycle!NoCase, NoRow, Lifecycle!vars,
       Lifecycle!StatusAfter, final_status

(* A decision that schedules something schedules an action a worker executes. *)
LEMMA FinalStatus ==
    ASSUME NEW type \in ActionTypes
    PROVE  \/ final_status(type) \in TERMINAL_STATES
           \/ final_status(type) = "ACTION_SCHEDULED" /\ type \in ExecutableTypes
BY DEF final_status, TERMINAL_STATES, ActionTypes, ExecutableTypes

(* A case that exists and is not closed is in one of three states, and every one
   of them may become RECOVERED. *)
LEMMA OpenStates ==
    ASSUME TypeOK, SafetyInv, NEW c \in Cases
    PROVE  /\ \/ status[c] \in { NoRow, "ELIGIBLE", "ACTION_SCHEDULED", "WAITING" }
              \/ is_terminal(status[c])
           /\ status[c] # NoRow /\ ~is_terminal(status[c]) => CaseIsOpen(c)
<1>1. \/ status[c] \in { NoRow, "ELIGIBLE", "ACTION_SCHEDULED", "WAITING" }
      \/ is_terminal(status[c])
  BY Shapes DEF SafetyInv, DecisionInv, NoHalfProcessedCase, CaseStatuses,
                is_terminal, TERMINAL_STATES
<1>2. \A st \in { "ELIGIBLE", "ACTION_SCHEDULED", "WAITING" } :
         "RECOVERED" \in ALLOWED_TRANSITIONS[st]
  BY DEF ALLOWED_TRANSITIONS, CaseStatuses, TERMINAL_STATES
<1> QED
  BY <1>1, <1>2 DEF CaseIsOpen, validate_transition, can_transition

(* A worker's guarded UPDATE of a scheduled case misses only if the case is in
   another state: the versions cannot differ. *)
LEMMA GuardedMiss ==
    ASSUME TypeOK, AgreementInv, NEW c \in Cases, NEW new \in { "STOPPED", "WAITING" }
    PROVE  atomic_transition_recovery_case(c, "ACTION_SCHEDULED", 5, new)
             <=> status[c] = "ACTION_SCHEDULED"
<1>1. new \in ALLOWED_TRANSITIONS["ACTION_SCHEDULED"]
  BY DEF ALLOWED_TRANSITIONS, CaseStatuses, TERMINAL_STATES
<1>2. ~is_terminal("ACTION_SCHEDULED")
  BY DEF is_terminal, TERMINAL_STATES
<1> QED
  BY <1>1, <1>2 DEF atomic_transition_recovery_case, validate_transition,
                    can_transition, AgreementInv, VersionInv

(* An action that waits to be executed, or is being executed, has a case that is
   scheduled or already closed. *)
LEMMA UnfinishedAction ==
    ASSUME TypeOK, SafetyInv, AgreementInv, NEW c \in Cases, NEW t \in ActionTypes,
           action[c][t] \in { "APPROVED", "EXECUTING" }
    PROVE  status[c] = "ACTION_SCHEDULED" \/ is_terminal(status[c])
<1>1. status[c] \notin { NoRow, "ELIGIBLE" }
  BY DEF SafetyInv, DecisionInv, NoRow
<1>2. status[c] # "WAITING"
  BY Names DEF SafetyInv, DecisionInv, AgreementInv, CaseAgreesWithAction, NoRow
<1> QED
  BY <1>1, <1>2, OpenStates

(* Every step of the write path is a step of CaseLifecycle, or invisible to it:
   a stale worker or a late webhook commits nothing that CaseLifecycle forbids. *)
LEMMA LifecycleStep ==
    ASSUME TypeOK, SafetyInv, AgreementInv, [Next]_vars
    PROVE  Lifecycle!Next \/ UNCHANGED << status, action, calls >>
<1> USE LifecycleNames, Shapes DEF rows, workerVars, hookVars, faultVars
<1>1. ASSUME NEW c \in Cases, NEW a \in Amounts, NEW k \in Categories,
             PaymentFailed(c, a, k)
      PROVE  Lifecycle!Open(c)
  BY <1>1 DEF PaymentFailed, Lifecycle!Open
<1>2. ASSUME NEW c \in Cases, NEW s \in Sources, CaptureCommit(c, s)
      PROVE  \E found \in SUBSET ActionTypes : Lifecycle!Recover(c, found)
  <2>1. status[c] # NoRow
    BY <1>2 DEF CaptureCommit, AgreementInv, HookInv
  <2>2. hookRows[c][s] \in SUBSET ActionTypes
    OBVIOUS
  <2>3. \A t \in hookRows[c][s] : action[c][t] = "APPROVED"
    BY <2>2 DEF SafetyInv, ActionLockInv, CancellableStatuses, AgreementInv, NonePending
  <2>4. Lifecycle!Recover(c, hookRows[c][s])
    BY <1>2, <2>1, <2>3 DEF CaptureCommit, recovered_flush, Lifecycle!Recover
  <2> QED
    BY <2>2, <2>4
<1>3. ASSUME NEW w \in Workers, NEW answer \in LlmAnswers, EligibleDecide(w, answer)
      PROVE  \E t \in ActionTypes : Lifecycle!Decide(job[w].case, t)
  <2> DEFINE c == job[w].case
             type == final_action(c, answer)
  <2>1. c \in Cases /\ type \in ActionTypes /\ status[c] = "ELIGIBLE"
    BY <1>3, FinalActionType DEF EligibleDecide, SafetyInv, CaseLockInv
  <2>2. \A t \in ActionTypes : action[c][t] = NoRow
    BY <2>1 DEF SafetyInv, DecisionInv
  <2>3. /\ status' = [ status EXCEPT ![c] = final_status(type) ]
        /\ action' = [ action EXCEPT ![c][type] = "APPROVED" ]
        /\ UNCHANGED calls
    BY <1>3, <2>1, <2>2 DEF EligibleDecide, create_recovery_action_idempotent
  <2> HIDE DEF type
  <2>4. Lifecycle!Decide(c, type)
    BY <2>1, <2>2, <2>3 DEF Lifecycle!Decide
  <2> QED
    BY <2>1, <2>4
<1>4. ASSUME NEW w \in Workers, Claim(w)
      PROVE  \/ Lifecycle!Start(job[w].case, job[w].event)
             \/ UNCHANGED << status, action, calls >>
  BY <1>4 DEF Claim, atomic_action_transition, Lifecycle!Start
<1>5. ASSUME NEW w \in Workers,
             CallSucceeds(w) \/ \E created \in BOOLEAN : CallFails(w, created)
      PROVE  Lifecycle!Call(job[w].case, job[w].event)
  <2>1. pc[w] = "claimed"
    BY <1>5 DEF CallSucceeds, CallFails
  <2>2. /\ job[w].case \in Cases /\ job[w].event \in ActionTypes
        /\ action[job[w].case][job[w].event] = "EXECUTING"
        /\ calls[job[w].case][job[w].event] = 0
    BY <2>1 DEF SafetyInv, CallInv, ClaimedStages, DecisionStages
  <2>3. /\ calls' = [ calls EXCEPT ![job[w].case][job[w].event] = @ + 1 ]
        /\ UNCHANGED << status, action >>
    BY <1>5 DEF CallSucceeds, CallFails
  <2> QED
    BY <2>2, <2>3 DEF Lifecycle!Call
<1>6. ASSUME NEW w \in Workers, FinalizeCommit(w)
      PROVE  Lifecycle!Succeed(job[w].case, job[w].event)
  <2>1. pc[w] \in { "moving", "recording" }
    BY <1>6 DEF FinalizeCommit
  <2>2. /\ action[job[w].case][job[w].event] = "EXECUTING"
        /\ calls[job[w].case][job[w].event] = 1
    BY <2>1 DEF SafetyInv, CallInv, ClaimedStages, AgreementInv, ReadInv, ReadBounds
  <2>3. CASE pc[w] = "moving"
    <3>1. status[job[w].case] = "ACTION_SCHEDULED"
      BY <2>3 DEF SafetyInv, CaseLockInv
    <3> QED
      BY <1>6, <2>2, <2>3, <3>1 DEF FinalizeCommit, Lifecycle!Succeed
  <2>4. CASE pc[w] = "recording"
    <3>1. is_terminal(status[job[w].case])
      BY <2>4 DEF AgreementInv, ReadInv, ReadBounds
    <3>2. status[job[w].case] # "ACTION_SCHEDULED"
      BY <3>1 DEF is_terminal, TERMINAL_STATES
    <3> QED
      BY <1>6, <2>2, <2>4, <3>2 DEF FinalizeCommit, Lifecycle!Succeed
  <2> QED
    BY <2>1, <2>3, <2>4
<1>7. ASSUME NEW w \in Workers, FinalizeFailure(w)
      PROVE  Lifecycle!Fail(job[w].case, job[w].event)
  <2>1. /\ action[job[w].case][job[w].event] = "EXECUTING"
        /\ calls[job[w].case][job[w].event] = 1
    BY <1>7 DEF FinalizeFailure, SafetyInv, CallInv, ClaimedStages, AgreementInv, ReadInv, ReadBounds
  <2> QED
    BY <1>7, <2>1 DEF FinalizeFailure, Lifecycle!Fail
<1>8. ASSUME NEW w \in Workers, ClaimStop(w)
      PROVE  Lifecycle!Cancel(job[w].case, job[w].event)
  <2>1. pc[w] = "stopping"
    BY <1>8 DEF ClaimStop
  <2>2. /\ action[job[w].case][job[w].event] = "APPROVED"
        /\ job[w].case \in Cases
    BY <2>1 DEF SafetyInv, ActionLockInv
  <2>3. job[w].status = "ACTION_SCHEDULED" /\ job[w].version = 5
    BY <2>1 DEF AgreementInv, ReadInv, ReadBounds, DecisionStages, is_terminal, TERMINAL_STATES
  <2>4. atomic_transition_recovery_case(job[w].case, job[w].status, job[w].version,
                                        "STOPPED")
          <=> status[job[w].case] = "ACTION_SCHEDULED"
    BY <2>2, <2>3, GuardedMiss
  <2> QED
    BY <1>8, <2>2, <2>4 DEF ClaimStop, Lifecycle!Cancel
<1>9. ASSUME NEW w \in Workers, ClaimRefuse(w)
      PROVE  \/ Lifecycle!Cancel(job[w].case, job[w].event)
             \/ UNCHANGED << status, action, calls >>
  <2>1. CASE UNCHANGED action
    BY <1>9, <2>1 DEF ClaimRefuse
  <2>2. CASE ~UNCHANGED action
    <3>1. /\ pc[w] = "refusing"
          /\ action[job[w].case][job[w].event] = "APPROVED"
          /\ ~stops_case(job[w].status)
          /\ action' = [ action EXCEPT ![job[w].case][job[w].event] = "CANCELLED" ]
          /\ UNCHANGED << status, calls >>
      BY <1>9, <2>2 DEF ClaimRefuse, atomic_action_transition
    <3>2. is_terminal(job[w].status) /\ is_terminal(status[job[w].case])
      BY <3>1 DEF AgreementInv, ReadInv, ReadBounds, DecisionStages, stops_case, is_terminal,
                  TERMINAL_STATES
    <3>3. status[job[w].case] # "ACTION_SCHEDULED"
      BY <3>2 DEF is_terminal, TERMINAL_STATES
    <3> QED
      BY <3>1, <3>3 DEF Lifecycle!Cancel
  <2> QED
    BY <2>1, <2>2
<1>10. \/ \E c \in Cases, a \in Amounts, k \in Categories : PaymentFailed(c, a, k)
       \/ \E c \in Cases, s \in Sources : CaptureCommit(c, s)
       \/ \E w \in Workers, answer \in LlmAnswers : EligibleDecide(w, answer)
       \/ \E w \in Workers :
             \/ Claim(w)
             \/ CallSucceeds(w) \/ \E created \in BOOLEAN : CallFails(w, created)
             \/ FinalizeCommit(w)
             \/ FinalizeFailure(w)
             \/ ClaimStop(w)
             \/ ClaimRefuse(w)
       \/ UNCHANGED << status, action, calls >>
  <2> HIDE LifecycleNames, Shapes
  <2>1. ASSUME NEW c \in Cases, CaseNext(c)
        PROVE  \/ \E a \in Amounts, k \in Categories : PaymentFailed(c, a, k)
               \/ \E s \in Sources : CaptureCommit(c, s)
               \/ UNCHANGED << status, action, calls >>
    BY <2>1 DEF CaseNext, HookNext, CaptureRecorded, CaptureRead, CaptureCancel,
                CaptureRollback, Dispatch, DispatchCrash, DispatchGivesUp
  <2>2. ASSUME NEW w \in Workers, NEW c \in Cases, ReceiveNext(w, c)
        PROVE  UNCHANGED << status, action, calls >>
    BY <2>2 DEF ReceiveNext, IgnoreEvent, EligibleRead, ClaimRead
  <2>3. ASSUME NEW w \in Workers, EligibleLock(w) \/ FinalizeRead(w) \/ FinalizeLock(w)
        PROVE  UNCHANGED << status, action, calls >>
    BY <2>3 DEF EligibleLock, FinalizeRead, FinalizeLock
  <2>4. ASSUME NEW w \in Workers, BrokerDuplicate(w) \/ \E kind : WorkerFault(w, kind)
        PROVE  UNCHANGED << status, action, calls >>
    BY <2>4 DEF BrokerDuplicate, WorkerFault
  <2>5. ASSUME NEW new, PolicyChange(new)
        PROVE  UNCHANGED << status, action, calls >>
    BY <2>5 DEF PolicyChange
  <2>6. CASE UNCHANGED vars
    BY <2>6 DEF vars
  <2> QED
    BY <2>1, <2>2, <2>3, <2>4, <2>5, <2>6 DEF Next, WorkerNext
<1>11. \A w \in Workers :
          /\ \/ Claim(w) \/ CallSucceeds(w) \/ \E created \in BOOLEAN : CallFails(w, created)
             \/ FinalizeCommit(w) \/ FinalizeFailure(w) \/ ClaimStop(w) \/ ClaimRefuse(w)
             => job[w].case \in Cases /\ job[w].event \in ActionTypes
          /\ \A answer : EligibleDecide(w, answer) => job[w].case \in Cases
  BY DEF Claim, CallSucceeds, CallFails, FinalizeCommit, FinalizeFailure, ClaimStop,
         ClaimRefuse, EligibleDecide, DecisionStages
<1> QED
  BY <1>1, <1>2, <1>3, <1>4, <1>5, <1>6, <1>7, <1>8, <1>9, <1>10, <1>11
  DEF Lifecycle!Next

(* What a step of CaseLifecycle preserves: rows do not disappear, a closed case
   stays closed, an executed action stays executed, and the case row keeps
   telling the same story as the action rows. *)
LEMMA LifecyclePreserves ==
    ASSUME TypeOK, SafetyInv, AgreementInv,
           Lifecycle!Next \/ UNCHANGED << status, action, calls >>
    PROVE  /\ \A c \in Cases :
                 /\ status[c] # NoRow => status'[c] # NoRow
                 /\ is_terminal(status[c]) => is_terminal(status'[c])
           /\ \A c \in Cases, t \in ActionTypes :
                 /\ action[c][t] # NoRow => action'[c][t] # NoRow
                 /\ action[c][t] = "EXECUTED" => action'[c][t] = "EXECUTED"
                 /\ calls[c][t] = 1 => calls'[c][t] = 1
           /\ NonePending'
           /\ CaseAgreesWithAction'
<1> DEFINE Keeps ==
              /\ \A d \in Cases :
                    /\ status[d] # NoRow => status'[d] # NoRow
                    /\ is_terminal(status[d]) => is_terminal(status'[d])
              /\ \A d \in Cases, u \in ActionTypes :
                    /\ action[d][u] # NoRow => action'[d][u] # NoRow
                    /\ action[d][u] = "EXECUTED" => action'[d][u] = "EXECUTED"
                    /\ calls[d][u] = 1 => calls'[d][u] = 1
              /\ NonePending'
<1> SUFFICES Keeps /\ CaseAgreesWithAction'
  OBVIOUS
<1> USE LifecycleNames, Shapes DEF is_terminal, TERMINAL_STATES, NoRow
<1>0. /\ NonePending
      /\ CaseAgreesWithAction
      /\ \A c \in Cases : \A t, u \in ActionTypes :
            action[c][t] # NoRow /\ action[c][u] # NoRow => t = u
      /\ \A c \in Cases : \A t \in ActionTypes :
            action[c][t] # NoRow => status[c] \notin { NoRow, "ELIGIBLE" }
      /\ ExecutableTypes \subseteq ActionTypes
  BY Names DEF AgreementInv, SafetyInv, DecisionInv
<1>1. ASSUME NEW c \in Cases, Lifecycle!Open(c)
      PROVE  Keeps /\ CaseAgreesWithAction'
  <2>1. Keeps
    BY <1>0, <1>1 DEF Lifecycle!Open, NonePending
  <2>2. CaseAgreesWithAction'
    BY <1>0, <1>1 DEF Lifecycle!Open, CaseAgreesWithAction
  <2> QED
    BY <2>1, <2>2
<1>2. ASSUME NEW c \in Cases, NEW t \in ActionTypes, Lifecycle!Decide(c, t)
      PROVE  Keeps /\ CaseAgreesWithAction'
  <2>1. Keeps
    BY <1>0, <1>2, FinalStatus DEF Lifecycle!Decide, NonePending
  <2>2. CaseAgreesWithAction'
    BY <1>0, <1>2, FinalStatus DEF Lifecycle!Decide, CaseAgreesWithAction
  <2> QED
    BY <2>1, <2>2
<1>3. ASSUME NEW c \in Cases, NEW t \in ActionTypes, Lifecycle!Start(c, t)
      PROVE  Keeps /\ CaseAgreesWithAction'
  <2>1. Keeps
    BY <1>0, <1>3 DEF Lifecycle!Start, NonePending
  <2>2. CaseAgreesWithAction'
    BY <1>0, <1>3 DEF Lifecycle!Start, CaseAgreesWithAction
  <2> QED
    BY <2>1, <2>2
<1>4. ASSUME NEW c \in Cases, NEW t \in ActionTypes, Lifecycle!Call(c, t)
      PROVE  Keeps /\ CaseAgreesWithAction'
  <2>1. Keeps
    BY <1>0, <1>4 DEF Lifecycle!Call, NonePending
  <2>2. CaseAgreesWithAction'
    BY <1>0, <1>4 DEF Lifecycle!Call, CaseAgreesWithAction
  <2> QED
    BY <2>1, <2>2
<1>5. ASSUME NEW c \in Cases, NEW t \in ActionTypes, Lifecycle!Succeed(c, t)
      PROVE  Keeps /\ CaseAgreesWithAction'
  <2>0. status[c] = "ACTION_SCHEDULED" \/ is_terminal(status[c])
    BY <1>5, UnfinishedAction DEF Lifecycle!Succeed
  <2>1. Keeps
    BY <1>0, <1>5, <2>0 DEF Lifecycle!Succeed, NonePending
  <2>2. CaseAgreesWithAction'
    <3>1. ASSUME status[c] = "ACTION_SCHEDULED" PROVE t \in ExecutableTypes
      <4>1. PICK u \in ExecutableTypes :
               action[c][u] \in { "APPROVED", "EXECUTING", "FAILED" }
        BY <1>0, <3>1 DEF CaseAgreesWithAction
      <4>2. u \in ActionTypes /\ action[c][u] # NoRow /\ action[c][t] # NoRow
        BY <1>0, <1>5, <4>1 DEF Lifecycle!Succeed
      <4> QED
        BY <1>0, <4>2
    <3>2. /\ \A d \in Cases \ { c } : status'[d] = status[d] /\ action'[d] = action[d]
          /\ \A u \in ActionTypes \ { t } : action'[c][u] = action[c][u]
          /\ action[c][t] = "EXECUTING" /\ action'[c][t] = "EXECUTED"
          /\ status'[c] = IF status[c] = "ACTION_SCHEDULED" THEN "WAITING" ELSE status[c]
      BY <1>5 DEF Lifecycle!Succeed
    <3>3. \A u \in ActionTypes \ { t } : action[c][u] = NoRow
      BY <1>0, <3>2
    <3>4. (status'[c] = "WAITING" /\ t \in ExecutableTypes) \/ is_terminal(status'[c])
      BY <2>0, <3>1, <3>2
    <3>5. \A u \in ActionTypes :
             /\ action'[c][u] # "CANCELLED"
             /\ action'[c][u] = "EXECUTED" => u = t
      BY <3>2, <3>3
    <3>6. /\ status'[c] = "WAITING" =>
                \E u \in ExecutableTypes : action'[c][u] = "EXECUTED"
          /\ status'[c] # "ACTION_SCHEDULED"
      BY <3>2, <3>4
    <3>7. \A d \in Cases \ { c } : status'[d] = status[d] /\ action'[d] = action[d]
      BY <3>2
    <3> HIDE LifecycleNames, Shapes
    <3> QED
      BY <1>0, <3>4, <3>5, <3>6, <3>7 DEF CaseAgreesWithAction
  <2> QED
    BY <2>1, <2>2
<1>6. ASSUME NEW c \in Cases, NEW t \in ActionTypes, Lifecycle!Fail(c, t)
      PROVE  Keeps /\ CaseAgreesWithAction'
  <2>1. Keeps
    BY <1>0, <1>6 DEF Lifecycle!Fail, NonePending
  <2>2. CaseAgreesWithAction'
    BY <1>0, <1>6 DEF Lifecycle!Fail, CaseAgreesWithAction
  <2> QED
    BY <2>1, <2>2
<1>7. ASSUME NEW c \in Cases, NEW t \in ActionTypes, Lifecycle!Cancel(c, t)
      PROVE  Keeps /\ CaseAgreesWithAction'
  <2>0. status[c] = "ACTION_SCHEDULED" \/ is_terminal(status[c])
    BY <1>7, UnfinishedAction DEF Lifecycle!Cancel
  <2>1. Keeps
    BY <1>0, <1>7, <2>0 DEF Lifecycle!Cancel, NonePending
  <2>2. CaseAgreesWithAction'
    BY <1>0, <1>7, <2>0 DEF Lifecycle!Cancel, CaseAgreesWithAction
  <2> QED
    BY <2>1, <2>2
<1>8. ASSUME NEW c \in Cases, NEW found \in SUBSET ActionTypes,
             Lifecycle!Recover(c, found)
      PROVE  Keeps /\ CaseAgreesWithAction'
  <2>1. Keeps
    BY <1>0, <1>8 DEF Lifecycle!Recover, NonePending
  <2>2. CaseAgreesWithAction'
    BY <1>0, <1>8 DEF Lifecycle!Recover, CaseAgreesWithAction
  <2> QED
    BY <2>1, <2>2
<1>9. CASE UNCHANGED << status, action, calls >>
  BY <1>0, <1>9 DEF NonePending, CaseAgreesWithAction
<1> HIDE DEF Keeps
<1> QED
  BY <1>1, <1>2, <1>3, <1>4, <1>5, <1>6, <1>7, <1>8, <1>9 DEF Lifecycle!Next

(* The five actions that write the case row. *)
LEMMA CaseWriters ==
    ASSUME [Next]_vars
    PROVE  \/ \E c \in Cases, a \in Amounts, k \in Categories : PaymentFailed(c, a, k)
           \/ \E c \in Cases, s \in Sources : CaptureCommit(c, s)
           \/ \E w \in Workers, answer \in LlmAnswers : EligibleDecide(w, answer)
           \/ \E w \in Workers : ClaimStop(w) \/ FinalizeCommit(w)
           \/ UNCHANGED << status, version >>
<1> USE DEF rows, workerVars, hookVars, faultVars
<1>1. ASSUME NEW c \in Cases, CaseNext(c)
      PROVE  \/ \E a \in Amounts, k \in Categories : PaymentFailed(c, a, k)
             \/ \E s \in Sources : CaptureCommit(c, s)
             \/ UNCHANGED << status, version >>
  BY <1>1 DEF CaseNext, HookNext, CaptureRecorded, CaptureRead, CaptureCancel,
              CaptureRollback, Dispatch, DispatchCrash, DispatchGivesUp
<1>2. ASSUME NEW w \in Workers, NEW c \in Cases, ReceiveNext(w, c)
      PROVE  UNCHANGED << status, version >>
  BY <1>2 DEF ReceiveNext, IgnoreEvent, EligibleRead, ClaimRead
<1>3. ASSUME NEW w \in Workers, WorkerNext(w)
      PROVE  \/ \E answer \in LlmAnswers : EligibleDecide(w, answer)
             \/ ClaimStop(w) \/ FinalizeCommit(w)
             \/ UNCHANGED << status, version >>
  BY <1>3 DEF WorkerNext, EligibleLock, Claim, ClaimRefuse, CallSucceeds, CallFails,
              FinalizeRead, FinalizeLock, FinalizeFailure
<1>4. ASSUME NEW w \in Workers, BrokerDuplicate(w) \/ \E kind : WorkerFault(w, kind)
      PROVE  UNCHANGED << status, version >>
  BY <1>4 DEF BrokerDuplicate, WorkerFault
<1>5. ASSUME NEW new, PolicyChange(new)
      PROVE  UNCHANGED << status, version >>
  BY <1>5 DEF PolicyChange
<1>6. CASE UNCHANGED vars
  BY <1>6 DEF vars
<1> QED
  BY <1>1, <1>2, <1>3, <1>4, <1>5, <1>6 DEF Next

(* Every write of a case row that leaves it ELIGIBLE or ACTION_SCHEDULED leaves it
   with version 2 or 5. *)
LEMMA VersionStep ==
    ASSUME TypeOK, SafetyInv, AgreementInv, [Next]_vars
    PROVE  VersionInv'
<1> USE Shapes
<1>0. VersionInv /\ version \in [ Cases -> Nat ]
  BY DEF AgreementInv, TypeOK, RowTypes
<1>1. ASSUME NEW c \in Cases, NEW a \in Amounts, NEW k \in Categories,
             PaymentFailed(c, a, k)
      PROVE  VersionInv'
  BY <1>0, <1>1 DEF PaymentFailed, VersionInv
<1>2. ASSUME NEW c \in Cases, NEW s \in Sources, CaptureCommit(c, s)
      PROVE  VersionInv'
  BY <1>0, <1>2 DEF CaptureCommit, VersionInv
<1>3. ASSUME NEW w \in Workers, NEW answer \in LlmAnswers, EligibleDecide(w, answer)
      PROVE  VersionInv'
  <2> DEFINE c == job[w].case
  <2>1. job[w].version = 2 /\ c \in Cases
    BY <1>3 DEF EligibleDecide, AgreementInv, ReadInv, ReadBounds, DecisionStages
  <2>2. \/ /\ status' = [ status EXCEPT ![c] = final_status(final_action(c, answer)) ]
           /\ version' = [ version EXCEPT ![c] = 5 ]
        \/ status' = [ status EXCEPT ![c] = "ANALYSING" ]
           /\ version' = [ version EXCEPT ![c] = 3 ]
    BY <1>3, <2>1 DEF EligibleDecide
  <2>3. final_status(final_action(c, answer)) # "ELIGIBLE"
    BY DEF final_status
  <2> QED
    BY <1>0, <2>1, <2>2, <2>3 DEF VersionInv
<1>4. ASSUME NEW w \in Workers, ClaimStop(w)
      PROVE  VersionInv'
  BY <1>0, <1>4 DEF ClaimStop, VersionInv
<1>5. ASSUME NEW w \in Workers, FinalizeCommit(w)
      PROVE  VersionInv'
  BY <1>0, <1>5 DEF FinalizeCommit, VersionInv
<1>6. CASE UNCHANGED << status, version >>
  BY <1>0, <1>6 DEF VersionInv
<1> QED
  BY <1>1, <1>2, <1>3, <1>4, <1>5, <1>6, CaseWriters

(* What a worker has read goes on bounding its case while others write, and every
   read and every guarded UPDATE of its own keeps it so. *)
LEMMA ReadStep ==
    ASSUME TypeOK, SafetyInv, AgreementInv, [Next]_vars
    PROVE  ReadInv'
<1> SUFFICES ASSUME NEW x \in Workers
             PROVE  ReadBounds(x)'
  BY DEF ReadInv
<1> USE Shapes DEF rows, workerVars, hookVars, faultVars
<1>0. /\ ReadBounds(x)
      /\ \A c \in Cases : is_terminal(status[c]) => is_terminal(status'[c])
      /\ \A c \in Cases, t \in ActionTypes :
            /\ action[c][t] # NoRow => action'[c][t] # NoRow
            /\ action[c][t] = "EXECUTED" => action'[c][t] = "EXECUTED"
            /\ calls[c][t] = 1 => calls'[c][t] = 1
  BY LifecycleStep, LifecyclePreserves DEF AgreementInv, ReadInv
<1>1. CASE pc'[x] = pc[x] /\ job'[x] = job[x]
  BY <1>0, <1>1 DEF ReadBounds, DecisionStages, ClaimedStages
<1>2. CASE pc'[x] = "idle"
  BY <1>2 DEF ReadBounds, DecisionStages, ClaimedStages
<1>3. ASSUME NEW c \in Cases, EligibleRead(x, c), pc'[x] # "idle"
      PROVE  ReadBounds(x)'
  <2>1. pc[x] = "idle" /\ status[c] = "ELIGIBLE"
    BY <1>3 DEF EligibleRead, Receive
  <2>2. pc'[x] = "eligible" /\ job'[x].version = version[c]
    BY <1>3, <2>1 DEF EligibleRead, Job
  <2>3. version[c] = 2
    BY <2>1 DEF AgreementInv, VersionInv
  <2> QED
    BY <2>2, <2>3 DEF ReadBounds, DecisionStages, ClaimedStages
<1>4. ASSUME NEW c \in Cases, NEW t \in ExecutableTypes, ClaimRead(x, c, t),
             pc'[x] # "idle"
      PROVE  ReadBounds(x)'
  <2>1. /\ pc[x] = "idle" /\ queue[c][t] > 0 /\ t \in ActionTypes
        /\ UNCHANGED << status, action, calls >>
    BY <1>4, Names DEF ClaimRead, Receive, HasMessage
  <2>2. pc'[x] \in { "claiming", "refusing" } /\ job'[x] = Job(c, t)
    BY <1>4, <2>1 DEF ClaimRead
  <2>3. action[c][t] # NoRow
    BY <2>1 DEF AgreementInv, EventInv
  <2>4. \/ status[c] = "ACTION_SCHEDULED" /\ version[c] = 5
        \/ status[c] = "WAITING" /\ action[c][t] = "EXECUTED"
        \/ is_terminal(status[c])
    <3>1. status[c] \notin { NoRow, "ELIGIBLE" }
      BY <2>1, <2>3 DEF SafetyInv, DecisionInv
    <3>2. status[c] = "WAITING" => action[c][t] = "EXECUTED"
      BY <2>1, <2>3, Names DEF SafetyInv, DecisionInv, AgreementInv,
         CaseAgreesWithAction, NoRow
    <3>3. status[c] = "ACTION_SCHEDULED" => version[c] = 5
      BY DEF AgreementInv, VersionInv
    <3> QED
      BY <3>1, <3>2, <3>3, OpenStates
  <2>5. /\ job'[x].case = c /\ job'[x].event = t
        /\ job'[x].status = status[c] /\ job'[x].version = version[c]
    BY <2>2 DEF Job
  <2> QED
    BY <2>1, <2>2, <2>3, <2>4, <2>5 DEF ReadBounds, DecisionStages, ClaimedStages
<1>5. ASSUME EligibleLock(x), pc'[x] # "idle"
      PROVE  ReadBounds(x)'
  <2>1. pc[x] = "eligible" /\ pc'[x] = "deciding" /\ job' = job
    BY <1>5 DEF EligibleLock, Goto, EndTask
  <2> QED
    BY <1>0, <2>1 DEF ReadBounds, DecisionStages, ClaimedStages
<1>6. ASSUME Claim(x), pc'[x] # "idle"
      PROVE  ReadBounds(x)'
  <2>1. pc[x] = "claiming" /\ pc'[x] = "claimed" /\ job' = job
    BY <1>6 DEF Claim, Goto, EndTask
  <2> QED
    BY <1>0, <2>1 DEF ReadBounds, DecisionStages, ClaimedStages
<1>7. ASSUME ClaimRefuse(x), pc'[x] # "idle"
      PROVE  ReadBounds(x)'
  <2>1. /\ pc[x] = "refusing" /\ pc'[x] = "stopping" /\ job' = job
        /\ job[x].status = "ACTION_SCHEDULED"
    BY <1>7 DEF ClaimRefuse, Goto, EndTask, stops_case
  <2> QED
    BY <1>0, <2>1 DEF ReadBounds, DecisionStages, ClaimedStages
<1>8. ASSUME CallSucceeds(x) \/ \E created \in BOOLEAN : CallFails(x, created)
      PROVE  ReadBounds(x)'
  <2>1. /\ pc[x] = "claimed" /\ pc'[x] \in { "succeeded", "failed" } /\ job' = job
        /\ calls' = [ calls EXCEPT ![job[x].case][job[x].event] = @ + 1 ]
    BY <1>8 DEF CallSucceeds, CallFails, Goto
  <2>2. /\ job[x].case \in Cases /\ job[x].event \in ActionTypes
        /\ calls[job[x].case][job[x].event] = 0
    BY <2>1 DEF SafetyInv, CallInv, DecisionStages
  <2>3. calls'[job[x].case][job[x].event] = 1
    BY <2>1, <2>2
  <2> QED
    BY <1>0, <2>1, <2>2, <2>3 DEF ReadBounds, DecisionStages, ClaimedStages
<1>9. ASSUME FinalizeRead(x), pc'[x] # "idle"
      PROVE  ReadBounds(x)'
  <2> DEFINE c == job[x].case
             t == job[x].event
  <2>1. /\ pc[x] = "succeeded" /\ pc'[x] = "finalizing" /\ job'[x] = Job(c, t)
        /\ UNCHANGED << status, action, calls >>
    BY <1>9 DEF FinalizeRead, EndTask
  <2>2. /\ c \in Cases /\ t \in ActionTypes
        /\ action[c][t] = "EXECUTING" /\ calls[c][t] = 1
    BY <1>0, <2>1 DEF SafetyInv, CallInv, ReadBounds, DecisionStages, ClaimedStages
  <2>3. \/ status[c] = "ACTION_SCHEDULED" /\ version[c] = 5
        \/ is_terminal(status[c])
    BY <2>2, UnfinishedAction DEF AgreementInv, VersionInv
  <2>4. /\ job'[x].case = c /\ job'[x].event = t
        /\ job'[x].status = status[c] /\ job'[x].version = version[c]
    BY <2>1 DEF Job
  <2> HIDE DEF c, t
  <2> QED
    BY <2>1, <2>2, <2>3, <2>4 DEF ReadBounds, DecisionStages, ClaimedStages, NoRow
<1>10. ASSUME FinalizeLock(x)
       PROVE  ReadBounds(x)'
  <2>1. /\ pc[x] = "finalizing" /\ job' = job
        /\ pc'[x] \in { "moving", "recording" }
        /\ UNCHANGED << status, action, calls >>
    BY <1>10 DEF FinalizeLock, Goto
  <2>2. /\ job[x].case \in Cases
        /\ action[job[x].case][job[x].event] = "EXECUTING"
        /\ job[x].event \in ActionTypes
    BY <2>1 DEF SafetyInv, CallInv, ClaimedStages, DecisionStages
  <2>3. ASSUME pc'[x] = "recording"
        PROVE  is_terminal(status[job[x].case])
    <3>1. CASE job[x].status = "ACTION_SCHEDULED"
      <4>1. job[x].version = 5
        BY <1>0, <2>1, <3>1 DEF ReadBounds, DecisionStages, is_terminal, TERMINAL_STATES
      <4>2. status[job[x].case] # "ACTION_SCHEDULED"
        BY <1>10, <2>2, <2>3, <3>1, <4>1, GuardedMiss DEF FinalizeLock, Goto
      <4> QED
        BY <2>2, <4>2, UnfinishedAction
    <3>2. CASE job[x].status # "ACTION_SCHEDULED"
      BY <1>0, <2>1, <2>2, <3>2 DEF ReadBounds, DecisionStages
    <3> QED
      BY <3>1, <3>2
  <2> QED
    BY <1>0, <2>1, <2>3 DEF ReadBounds, DecisionStages, ClaimedStages
<1>11. ASSUME NEW w \in Workers, WorkerNext(w), w # x
       PROVE  pc'[x] = pc[x] /\ job'[x] = job[x]
  BY <1>11 DEF WorkerNext, Goto, EndTask, EligibleLock, EligibleDecide, Claim,
     ClaimRefuse, ClaimStop, CallSucceeds, CallFails, FinalizeRead, FinalizeLock,
     FinalizeCommit, FinalizeFailure
<1>12. ASSUME NEW w \in Workers, NEW c \in Cases, ReceiveNext(w, c), w # x
       PROVE  pc'[x] = pc[x] /\ job'[x] = job[x]
  BY <1>12 DEF ReceiveNext, IgnoreEvent, EligibleRead, ClaimRead
<1>13. ASSUME NEW c \in Cases, IgnoreEvent(x, c)
       PROVE  pc'[x] = pc[x] /\ job'[x] = job[x]
  BY <1>13 DEF IgnoreEvent
<1>14. ASSUME \/ \E answer \in LlmAnswers : EligibleDecide(x, answer)
              \/ ClaimStop(x) \/ FinalizeCommit(x) \/ FinalizeFailure(x)
       PROVE  pc'[x] = "idle"
  BY <1>14 DEF EligibleDecide, ClaimStop, FinalizeCommit, FinalizeFailure, EndTask
<1>15. ASSUME NEW w \in Workers, NEW kind, WorkerFault(w, kind)
       PROVE  pc'[x] = "idle" \/ (pc'[x] = pc[x] /\ job'[x] = job[x])
  <2>1. EndTask(w)
    BY <1>15 DEF WorkerFault
  <2> QED
    BY <2>1 DEF EndTask
<1>16. ASSUME \/ \E c \in Cases : CaseNext(c)
              \/ \E w \in Workers : BrokerDuplicate(w)
              \/ \E new : PolicyChange(new)
              \/ UNCHANGED vars
       PROVE  UNCHANGED << pc, job >>
  <2>1. ASSUME NEW c \in Cases, CaseNext(c)
        PROVE  UNCHANGED << pc, job >>
    BY <2>1 DEF CaseNext, HookNext, PaymentFailed, CaptureRecorded, CaptureRead,
       CaptureCancel, CaptureCommit, CaptureRollback, Dispatch, DispatchCrash,
       DispatchGivesUp
  <2> QED
    BY <1>16, <2>1 DEF BrokerDuplicate, PolicyChange, vars
<1>17. ASSUME NEW c \in Cases, ReceiveNext(x, c)
       PROVE  ReadBounds(x)'
  BY <1>1, <1>2, <1>3, <1>4, <1>13, <1>17 DEF ReceiveNext
<1>18. ASSUME WorkerNext(x)
       PROVE  ReadBounds(x)'
  BY <1>2, <1>5, <1>6, <1>7, <1>8, <1>9, <1>10, <1>14, <1>18 DEF WorkerNext
<1> QED
  BY <1>1, <1>2, <1>11, <1>12, <1>15, <1>16, <1>17, <1>18 DEF Next

(* An action_scheduled event, and every copy of its message, is about an action
   that exists. *)
LEMMA EventStep ==
    ASSUME TypeOK, SafetyInv, AgreementInv, [Next]_vars
    PROVE  EventInv'
<1> USE DEF rows, workerVars, hookVars, faultVars
<1>0. /\ \A c \in Cases : \A t \in ExecutableTypes :
            /\ action[c][t] # NoRow => action'[c][t] # NoRow
            /\ outbox[c][t] # NoRow => action[c][t] # NoRow
            /\ queue[c][t] > 0 => action[c][t] # NoRow
      /\ outbox \in [ Cases -> [ Events -> OutboxStatuses \cup { NoRow } ] ]
      /\ queue \in [ Cases -> [ Events -> Nat ] ]
      /\ ExecutableTypes \subseteq Events
  BY LifecycleStep, LifecyclePreserves, Names
  DEF AgreementInv, EventInv, TypeOK, RowTypes, OutsideTypes, OutboxRows
<1>1. ASSUME \A c \in Cases : \A t \in ExecutableTypes :
                /\ outbox'[c][t] # NoRow => outbox[c][t] # NoRow \/ action'[c][t] # NoRow
                /\ queue'[c][t] > 0 => queue[c][t] > 0 \/ action'[c][t] # NoRow
      PROVE  EventInv'
  BY <1>0, <1>1 DEF EventInv
<1>2. \A c \in Cases : \A t \in ExecutableTypes :
         outbox'[c][t] # NoRow => outbox[c][t] # NoRow \/ action'[c][t] # NoRow
  <2> SUFFICES ASSUME NEW c \in Cases, NEW t \in ExecutableTypes
               PROVE  outbox'[c][t] # NoRow => outbox[c][t] # NoRow \/ action'[c][t] # NoRow
    OBVIOUS
  <2>1. t \notin { "eligible", "recovered" } /\ t \in ActionTypes
    BY Names DEF ExecutableTypes
  <2>2. ASSUME NEW d \in Cases, NEW a \in Amounts, NEW k \in Categories,
               PaymentFailed(d, a, k)
        PROVE  outbox'[c][t] = outbox[c][t]
    BY <1>0, <2>1, <2>2 DEF PaymentFailed
  <2>3. ASSUME NEW d \in Cases, NEW s \in Sources, CaptureCommit(d, s)
        PROVE  outbox'[c][t] = outbox[c][t]
    BY <1>0, <2>1, <2>3 DEF CaptureCommit
  <2>4. ASSUME NEW d \in Cases, NEW e \in Events,
               Dispatch(d, e) \/ DispatchCrash(d, e) \/ DispatchGivesUp(d, e)
        PROVE  outbox'[c][t] # NoRow => outbox[c][t] # NoRow
    BY <1>0, <2>1, <2>4 DEF Dispatch, DispatchCrash, DispatchGivesUp, NoRow
  <2>5. ASSUME NEW w \in Workers, NEW answer \in LlmAnswers, EligibleDecide(w, answer)
        PROVE  outbox'[c][t] # NoRow => outbox[c][t] # NoRow \/ action'[c][t] # NoRow
    <3> DEFINE type == final_action(job[w].case, answer)
    <3>1. type \in ActionTypes /\ scheduled_events(type) \subseteq { type }
      BY FinalActionType DEF scheduled_events
    <3>2. CASE create_recovery_action_idempotent(job[w].case, type)
      <4>1. /\ outbox' = [ outbox EXCEPT ![job[w].case] =
                             [ e \in Events |-> IF e \in scheduled_events(type)
                                                THEN "PENDING" ELSE @[e] ] ]
            /\ action' = [ action EXCEPT ![job[w].case][type] = "APPROVED" ]
        BY <2>5, <3>2 DEF EligibleDecide
      <4> HIDE DEF type
      <4> QED
        BY <1>0, <2>1, <3>1, <4>1, Shapes DEF NoRow
    <3>3. CASE ~create_recovery_action_idempotent(job[w].case, type)
      BY <2>5, <3>3 DEF EligibleDecide
    <3> QED
      BY <3>2, <3>3
  <2>6. \/ outbox' = outbox
        \/ \E d \in Cases, a \in Amounts, k \in Categories : PaymentFailed(d, a, k)
        \/ \E d \in Cases, s \in Sources : CaptureCommit(d, s)
        \/ \E d \in Cases, e \in Events :
              Dispatch(d, e) \/ DispatchCrash(d, e) \/ DispatchGivesUp(d, e)
        \/ \E w \in Workers, answer \in LlmAnswers : EligibleDecide(w, answer)
    <3>1. ASSUME NEW d \in Cases, NEW s \in Sources,
                 \/ CaptureRecorded(d, s) \/ CaptureRead(d, s) \/ CaptureCancel(d, s)
                 \/ CaptureRollback(d, s)
          PROVE  outbox' = outbox
      BY <3>1 DEF CaptureRecorded, CaptureRead, CaptureCancel, CaptureRollback
    <3>2. ASSUME NEW w \in Workers, NEW d \in Cases, ReceiveNext(w, d)
          PROVE  outbox' = outbox
      BY <3>2 DEF ReceiveNext, IgnoreEvent, EligibleRead, ClaimRead
    <3>3. ASSUME NEW w \in Workers, WorkerNext(w)
          PROVE  outbox' = outbox \/ \E answer \in LlmAnswers : EligibleDecide(w, answer)
      BY <3>3 DEF WorkerNext, EligibleLock, Claim, ClaimRefuse, ClaimStop, CallSucceeds,
         CallFails, FinalizeRead, FinalizeLock, FinalizeCommit, FinalizeFailure
    <3>4. ASSUME \/ \E w \in Workers : BrokerDuplicate(w)
                 \/ \E w \in Workers, kind \in FaultKinds : WorkerFault(w, kind)
                 \/ \E new \in LimitsSet : PolicyChange(new)
                 \/ UNCHANGED vars
          PROVE  outbox' = outbox
      BY <3>4 DEF BrokerDuplicate, WorkerFault, PolicyChange, vars
    <3> QED
      BY <3>1, <3>2, <3>3, <3>4 DEF Next, CaseNext, HookNext
  <2> QED
    BY <2>2, <2>3, <2>4, <2>5, <2>6
<1>3. \A c \in Cases : \A t \in ExecutableTypes :
         queue'[c][t] > 0 => queue[c][t] > 0 \/ action'[c][t] # NoRow
  <2> SUFFICES ASSUME NEW c \in Cases, NEW t \in ExecutableTypes
               PROVE  queue'[c][t] > 0 => queue[c][t] > 0 \/ action'[c][t] # NoRow
    OBVIOUS
  <2>1. t # "eligible" /\ queue[c][t] \in Nat
    BY <1>0 DEF ExecutableTypes
  <2>2. ASSUME NEW d \in Cases, NEW e \in Events, Dispatch(d, e) \/ DispatchCrash(d, e)
        PROVE  queue'[c][t] > 0 => queue[c][t] > 0 \/ action'[c][t] # NoRow
    <3>1. /\ queue' = [ queue EXCEPT ![d][e] = @ + 1 ]
          /\ outbox[d][e] # NoRow
      BY <2>2 DEF Dispatch, DispatchCrash, NoRow
    <3>2. CASE d = c /\ e = t
      BY <1>0, <3>1, <3>2
    <3>3. CASE ~(d = c /\ e = t)
      BY <1>0, <3>1, <3>3
    <3> QED
      BY <3>2, <3>3
  <2>3. ASSUME NEW w \in Workers, NEW n \in Nat, pc[w] # "idle",
               queue' = [ queue EXCEPT ![job[w].case][job[w].event] = @ + n ]
        PROVE  queue'[c][t] > 0 => queue[c][t] > 0 \/ action'[c][t] # NoRow
    <3>1. CASE job[w].case = c /\ job[w].event = t
      <4>1. pc[w] \notin DecisionStages
        BY <2>1, <2>3, <3>1 DEF TypeOK, WorkerTypes
      <4>2. action[c][t] # NoRow
        BY <2>3, <3>1, <4>1 DEF AgreementInv, ReadInv, ReadBounds
      <4> QED
        BY <1>0, <4>2
    <3>2. CASE ~(job[w].case = c /\ job[w].event = t)
      BY <1>0, <2>3, <3>2
    <3> QED
      BY <3>1, <3>2
  <2>4. ASSUME NEW w \in Workers, NEW kind \in FaultKinds, WorkerFault(w, kind)
        PROVE  queue'[c][t] > 0 => queue[c][t] > 0 \/ action'[c][t] # NoRow
    <3>1. /\ copies_returned(kind) \in Nat /\ pc[w] # "idle"
          /\ queue' = [ queue EXCEPT ![job[w].case][job[w].event] =
                                       @ + copies_returned(kind) ]
      BY <2>4 DEF WorkerFault, copies_returned
    <3> HIDE DEF copies_returned
    <3> QED
      BY <2>3, <3>1
  <2>5. ASSUME NEW w \in Workers, BrokerDuplicate(w)
        PROVE  queue'[c][t] > 0 => queue[c][t] > 0 \/ action'[c][t] # NoRow
    BY <2>3, <2>5 DEF BrokerDuplicate
  <2>6. ASSUME NEW w \in Workers, NEW d \in Cases, NEW e \in Events, Receive(w, d, e)
        PROVE  queue'[c][t] > 0 => queue[c][t] > 0
    <3>1. queue' = [ queue EXCEPT ![d][e] = @ - 1 ] /\ queue[d][e] > 0
      BY <2>6 DEF Receive, HasMessage
    <3>2. CASE d = c /\ e = t
      BY <3>1, <3>2
    <3>3. CASE ~(d = c /\ e = t)
      BY <1>0, <3>1, <3>3
    <3> QED
      BY <3>2, <3>3
  <2>7. \/ queue' = queue
        \/ \E d \in Cases, e \in Events : Dispatch(d, e) \/ DispatchCrash(d, e)
        \/ \E w \in Workers, d \in Cases, e \in Events : Receive(w, d, e)
        \/ \E w \in Workers : BrokerDuplicate(w)
        \/ \E w \in Workers, kind \in FaultKinds : WorkerFault(w, kind)
    <3>1. ASSUME NEW d \in Cases, CaseNext(d)
          PROVE  queue' = queue \/ \E e \in Events : Dispatch(d, e) \/ DispatchCrash(d, e)
      BY <3>1 DEF CaseNext, HookNext, PaymentFailed, CaptureRecorded, CaptureRead,
         CaptureCancel, CaptureCommit, CaptureRollback, DispatchGivesUp
    <3>2. ASSUME NEW w \in Workers, NEW d \in Cases, ReceiveNext(w, d)
          PROVE  \E e \in Events : Receive(w, d, e)
      BY <3>2, Names DEF ReceiveNext, IgnoreEvent, EligibleRead, ClaimRead
    <3>3. ASSUME NEW w \in Workers, WorkerNext(w)
          PROVE  queue' = queue
      BY <3>3 DEF WorkerNext, EligibleLock, EligibleDecide, Claim, ClaimRefuse,
         ClaimStop, CallSucceeds, CallFails, FinalizeRead, FinalizeLock,
         FinalizeCommit, FinalizeFailure
    <3>4. ASSUME NEW new \in LimitsSet, PolicyChange(new)
          PROVE  queue' = queue
      BY <3>4 DEF PolicyChange
    <3>5. CASE UNCHANGED vars
      BY <3>5 DEF vars
    <3> QED
      BY <3>1, <3>2, <3>3, <3>4, <3>5 DEF Next
  <2> QED
    BY <2>2, <2>4, <2>5, <2>6, <2>7
<1> QED
  BY <1>1, <1>2, <1>3

(* A capture that goes on has found a case, and a link is made for one. *)
LEMMA HookStep ==
    ASSUME TypeOK, SafetyInv, AgreementInv, [Next]_vars
    PROVE  HookInv'
<1> USE Shapes DEF rows, workerVars, hookVars, faultVars
<1> SUFFICES ASSUME NEW c \in Cases, status'[c] = NoRow
             PROVE  /\ \A s \in Sources : hook'[c][s] = "idle"
                    /\ ~link'[c]
                    /\ \A s \in paid'[c] : s = c /\ NotesOf[c] = None
  BY DEF HookInv
<1>0. /\ status[c] = NoRow
      /\ \A s \in Sources : hook[c][s] = "idle"
      /\ ~link[c]
      /\ \A s \in paid[c] : s = c /\ NotesOf[c] = None
      /\ hook \in [ Cases -> [ Sources -> { "idle", "read", "cancelling" } ] ]
      /\ link \in [ Cases -> BOOLEAN ]
      /\ paid \in [ Cases -> SUBSET Sources ]
  BY LifecycleStep, LifecyclePreserves
  DEF AgreementInv, HookInv, TypeOK, RowTypes, HookTypes, OutsideTypes
<1>1. \A s \in Sources : hook'[c][s] = "idle"
  <2>1. ASSUME NEW d \in Cases, CaseNext(d)
        PROVE  \A s \in Sources : hook'[c][s] = "idle"
    BY <1>0, <2>1 DEF CaseNext, HookNext, PaymentFailed, CaptureRecorded, CaptureRead,
       CaptureCancel, CaptureCommit, CaptureRollback, Dispatch, DispatchCrash,
       DispatchGivesUp, CaseIsOpen
  <2>2. hook' = hook \/ \E d \in Cases : CaseNext(d)
    BY DEF Next, vars, ReceiveNext, IgnoreEvent, EligibleRead, ClaimRead, WorkerNext,
       EligibleLock, EligibleDecide, Claim, ClaimRefuse, ClaimStop, CallSucceeds,
       CallFails, FinalizeRead, FinalizeLock, FinalizeCommit, FinalizeFailure,
       BrokerDuplicate, WorkerFault, PolicyChange
  <2> QED
    BY <1>0, <2>1, <2>2
<1>2. ~link'[c]
  <2>1. ASSUME NEW w \in Workers,
               CallSucceeds(w) \/ \E created \in BOOLEAN : CallFails(w, created)
        PROVE  link'[c] = link[c]
    <3>1. job[w].case \in Cases /\ status[job[w].case] # NoRow
      <4>1. pc[w] = "claimed"
        BY <2>1 DEF CallSucceeds, CallFails
      <4>2. /\ job[w].case \in Cases /\ job[w].event \in ActionTypes
            /\ action[job[w].case][job[w].event] # NoRow
        BY <4>1 DEF AgreementInv, ReadInv, ReadBounds, DecisionStages
      <4> QED
        BY <4>2 DEF SafetyInv, DecisionInv
    <3> QED
      BY <1>0, <2>1, <3>1 DEF CallSucceeds, CallFails
  <2>2. \/ link' = link
        \/ \E w \in Workers : \/ CallSucceeds(w)
                              \/ \E created \in BOOLEAN : CallFails(w, created)
    <3>1. ASSUME NEW d \in Cases, CaseNext(d)
          PROVE  link' = link
      BY <3>1 DEF CaseNext, HookNext, PaymentFailed, CaptureRecorded, CaptureRead,
         CaptureCancel, CaptureCommit, CaptureRollback, Dispatch, DispatchCrash,
         DispatchGivesUp
    <3> QED
      BY <3>1 DEF Next, vars, ReceiveNext, IgnoreEvent, EligibleRead, ClaimRead,
         WorkerNext, EligibleLock, EligibleDecide, Claim, ClaimRefuse, ClaimStop,
         FinalizeRead, FinalizeLock, FinalizeCommit, FinalizeFailure, BrokerDuplicate,
         WorkerFault, PolicyChange
  <2> QED
    BY <1>0, <2>1, <2>2
<1>3. \A r \in paid'[c] : r = c /\ NotesOf[c] = None
  <2>1. ASSUME NEW d \in Cases, CaseNext(d)
        PROVE  \A r \in paid'[c] : r = c /\ NotesOf[c] = None
    <3>1. ASSUME NEW s \in Sources, CaptureRecorded(d, s)
          PROVE  \A r \in paid'[c] : r = c /\ NotesOf[c] = None
      <4>1. CASE d # c
        BY <1>0, <3>1, <4>1 DEF CaptureRecorded
      <4>2. CASE d = c
        <5>1. s \in Cases /\ c = CaseOf(s) /\ MayBePaid(s)
          BY <1>0, <3>1, <4>2 DEF CaptureRecorded, CaptureArrives, Sources
        <5>2. s = c /\ NotesOf[c] = None
          BY <1>0, <5>1 DEF CaseOf, MayBePaid
        <5>3. paid'[c] = paid[c] \cup { s }
          BY <1>0, <3>1, <4>2 DEF CaptureRecorded
        <5> QED
          BY <1>0, <5>2, <5>3
      <4> QED
        BY <4>1, <4>2
    <3>2. ASSUME NEW s \in Sources, CaptureCommit(d, s)
          PROVE  \A r \in paid'[c] : r = c /\ NotesOf[c] = None
      BY <1>0, <3>2 DEF CaptureCommit
    <3> QED
      BY <1>0, <2>1, <3>1, <3>2 DEF CaseNext, HookNext, PaymentFailed, CaptureRead,
         CaptureCancel, CaptureRollback, Dispatch, DispatchCrash, DispatchGivesUp
  <2>2. paid' = paid \/ \E d \in Cases : CaseNext(d)
    BY DEF Next, vars, ReceiveNext, IgnoreEvent, EligibleRead, ClaimRead, WorkerNext,
       EligibleLock, EligibleDecide, Claim, ClaimRefuse, ClaimStop, CallSucceeds,
       CallFails, FinalizeRead, FinalizeLock, FinalizeCommit, FinalizeFailure,
       BrokerDuplicate, WorkerFault, PolicyChange
  <2> QED
    BY <1>0, <2>1, <2>2
<1> QED
  BY <1>1, <1>2, <1>3

(* A capture is recorded without touching the case only if the case is closed or
   does not exist, and no case is opened for which a payment was captured: before
   it is open it has no link, so that only its own payment could have been. *)
LEMMA PaidStep ==
    ASSUME TypeOK, SafetyInv, AgreementInv, [Next]_vars
    PROVE  PaidIsClosed'
<1> USE DEF rows, workerVars, hookVars, faultVars
<1> SUFFICES ASSUME NEW c \in Cases, paid'[c] # {}, status'[c] # NoRow
             PROVE  is_terminal(status'[c])
  BY DEF PaidIsClosed
<1>0. /\ paid \in [ Cases -> SUBSET Sources ]
      /\ status \in [ Cases -> CaseStatuses \cup { NoRow } ]
      /\ paid[c] # {} /\ status[c] # NoRow => is_terminal(status[c])
      /\ is_terminal(status[c]) => is_terminal(status'[c])
  <2>1. /\ paid \in [ Cases -> SUBSET Sources ]
        /\ status \in [ Cases -> CaseStatuses \cup { NoRow } ]
    BY DEF TypeOK, RowTypes
  <2>2. paid[c] # {} /\ status[c] # NoRow => is_terminal(status[c])
    BY DEF AgreementInv, PaidIsClosed
  <2>3. is_terminal(status[c]) => is_terminal(status'[c])
    <3> HIDE DEF rows, workerVars, hookVars, faultVars
    <3> QED
      BY LifecycleStep, LifecyclePreserves
  <2> QED
    BY <2>1, <2>2, <2>3
<1>1. ASSUME NEW d \in Cases, NEW a \in Amounts, NEW k \in Categories,
             PaymentFailed(d, a, k)
      PROVE  is_terminal(status'[c])
  <2>1. CASE d = c
    <3>1. /\ c \notin paid[CaseOf(c)] /\ paid' = paid
          /\ \A s \in paid[c] : s = c /\ NotesOf[c] = None
      BY <1>1, <2>1 DEF PaymentFailed, AgreementInv, HookInv
    <3>2. paid[c] = {}
      BY <3>1 DEF CaseOf
    <3> QED
      BY <3>1, <3>2
  <2>2. CASE d # c
    BY <1>0, <1>1, <2>2 DEF PaymentFailed
  <2> QED
    BY <2>1, <2>2
<1>2. ASSUME NEW d \in Cases, NEW s \in Sources, CaptureRecorded(d, s)
      PROVE  is_terminal(status'[c])
  <2>1. UNCHANGED status /\ (d = c => ~CaseIsOpen(c)) /\ (d # c => paid'[c] = paid[c])
    BY <1>0, <1>2 DEF CaptureRecorded
  <2> QED
    BY <1>0, <2>1, OpenStates
<1>3. ASSUME NEW d \in Cases, NEW s \in Sources, CaptureCommit(d, s)
      PROVE  is_terminal(status'[c])
  <2>1. status[d] # NoRow
    BY <1>3 DEF CaptureCommit, AgreementInv, HookInv
  <2>2. /\ d = c => status'[c] = "RECOVERED"
        /\ d # c => paid'[c] = paid[c] /\ status'[c] = status[c]
    BY <1>0, <1>3, <2>1 DEF CaptureCommit, recovered_flush
  <2> QED
    BY <1>0, <2>2 DEF is_terminal, TERMINAL_STATES
<1>4. CASE paid' = paid /\ status[c] # NoRow
  BY <1>0, <1>4
<1>5. ASSUME NEW w \in Workers, NEW answer, EligibleDecide(w, answer)
      PROVE  status[c] = NoRow => status'[c] = NoRow
  <2>1. status[job[w].case] = "ELIGIBLE"
    BY <1>5 DEF EligibleDecide, SafetyInv, CaseLockInv
  <2> QED
    BY <1>0, <1>5, <2>1 DEF EligibleDecide, NoRow
<1>6. ASSUME NEW w \in Workers, ClaimStop(w) \/ FinalizeCommit(w)
      PROVE  status[c] = NoRow => status'[c] = NoRow
  <2>1. /\ pc[w] \in { "stopping", "moving", "recording" }
        /\ action[job[w].case][job[w].event] # NoRow
        /\ job[w].case \in Cases /\ job[w].event \in ActionTypes
    BY <1>6, Shapes DEF ClaimStop, FinalizeCommit, AgreementInv, ReadInv, ReadBounds,
       DecisionStages
  <2>2. status[job[w].case] # NoRow
    BY <2>1 DEF SafetyInv, DecisionInv
  <2> QED
    BY <1>0, <1>6, <2>2 DEF ClaimStop, FinalizeCommit
<1>7. \/ paid' = paid
      \/ \E d \in Cases, s \in Sources : CaptureRecorded(d, s) \/ CaptureCommit(d, s)
  <2>1. ASSUME NEW d \in Cases, CaseNext(d)
        PROVE  \/ paid' = paid
               \/ \E s \in Sources : CaptureRecorded(d, s) \/ CaptureCommit(d, s)
    BY <2>1 DEF CaseNext, HookNext, PaymentFailed, CaptureRead,
       CaptureCancel, CaptureRollback, Dispatch, DispatchCrash, DispatchGivesUp
  <2>2. paid' = paid \/ \E d \in Cases : CaseNext(d)
    BY DEF Next, vars, ReceiveNext, IgnoreEvent, EligibleRead, ClaimRead, WorkerNext,
       EligibleLock, EligibleDecide, Claim, ClaimRefuse, ClaimStop, CallSucceeds,
       CallFails, FinalizeRead, FinalizeLock, FinalizeCommit, FinalizeFailure,
       BrokerDuplicate, WorkerFault, PolicyChange
  <2> QED
    BY <2>1, <2>2
<1>8. CASE status[c] = NoRow
  BY <1>1, <1>3, <1>5, <1>6, <1>8, CaseWriters
<1> QED
  BY <1>2, <1>3, <1>4, <1>7, <1>8

(* Every step preserves what the rows and the remembered values say together. *)
LEMMA AgreementStep ==
    ASSUME TypeOK, SafetyInv, AgreementInv, [Next]_vars
    PROVE  AgreementInv'
BY VersionStep, EventStep, ReadStep, HookStep, PaidStep, LifecycleStep,
   LifecyclePreserves
DEF AgreementInv

(* It holds of an empty database. *)
LEMMA AgreementInit ==
    ASSUME Init
    PROVE  AgreementInv
<1> USE Names DEF Init, NoRow
<1>1. VersionInv
  BY DEF VersionInv
<1>2. EventInv
  BY DEF EventInv
<1>3. ReadInv
  BY DEF ReadInv, ReadBounds, DecisionStages, ClaimedStages
<1>4. HookInv
  BY DEF HookInv
<1>5. NonePending /\ CaseAgreesWithAction
  BY DEF NonePending, CaseAgreesWithAction
<1>6. PaidIsClosed
  BY DEF PaidIsClosed
<1> QED
  BY <1>1, <1>2, <1>3, <1>4, <1>5, <1>6 DEF AgreementInv

(* The agreement of versions, events, stale reads, captures and rows holds in
   every reachable state, for any number of cases, workers and faults. *)
THEOREM Agreement == Spec => []AgreementInv
<1>1. Init => AgreementInv
  BY AgreementInit
<1>2. TypeOK /\ SafetyInv /\ AgreementInv /\ [Next]_vars => AgreementInv'
  BY AgreementStep
<1> QED
  BY <1>1, <1>2, TypeCorrect, Safety, PTL DEF Spec

(* The case row and the action row never contradict each other, although the
   executor and the webhook write them under separate guards. *)
THEOREM RowsAgree == Spec => []CaseAgreesWithAction
<1>1. AgreementInv => CaseAgreesWithAction
  BY DEF AgreementInv
<1> QED
  BY <1>1, Agreement, PTL

(* Every payment that was captured was taken for the case handle_payment_captured
   looks up, and for no other. *)
LEMMA SourceStep == TypeOK /\ SourceInv /\ [Next]_vars => SourceInv'
<1> SUFFICES ASSUME TypeOK, SourceInv, [Next]_vars, NEW d \in Cases, NEW x \in Cases,
                    x \in paid'[d] \/ hook'[d][x] # "idle"
             PROVE  d = CaseOf(x)
  BY DEF SourceInv, CaseOf
<1> USE DEF rows, workerVars, hookVars, faultVars
<1>0. /\ paid \in [ Cases -> SUBSET Sources ]
      /\ hook \in [ Cases -> [ Sources -> { "idle", "read", "cancelling" } ] ]
      /\ x \in Sources
      /\ x \in paid[d] \/ hook[d][x] # "idle" => d = CaseOf(x)
  BY DEF TypeOK, RowTypes, HookTypes, Sources, SourceInv
<1>1. ASSUME NEW c \in Cases, NEW s \in Sources, CaptureRecorded(c, s) \/ CaptureRead(c, s)
      PROVE  d = CaseOf(x)
  <2>1. CASE d = c /\ x = s
    BY <1>1, <2>1 DEF CaptureRecorded, CaptureRead, CaptureArrives
  <2>2. CASE ~(d = c /\ x = s)
    <3>1. x \in paid'[d] => x \in paid[d]
      BY <1>0, <1>1, <2>2 DEF CaptureRecorded, CaptureRead
    <3>2. hook'[d][x] = hook[d][x]
      BY <1>0, <1>1, <2>2 DEF CaptureRecorded, CaptureRead
    <3> QED
      BY <1>0, <3>1, <3>2
  <2> QED
    BY <2>1, <2>2
<1>2. ASSUME NEW c \in Cases, NEW s \in Sources,
             CaptureCancel(c, s) \/ CaptureCommit(c, s) \/ CaptureRollback(c, s)
      PROVE  d = CaseOf(x)
  <2>1. CASE d = c /\ x = s
    BY <1>0, <1>2, <2>1 DEF CaptureCancel, CaptureCommit, CaptureRollback
  <2>2. CASE ~(d = c /\ x = s)
    <3>1. x \in paid'[d] => x \in paid[d]
      BY <1>0, <1>2, <2>2 DEF CaptureCancel, CaptureCommit, CaptureRollback
    <3>2. hook'[d][x] = hook[d][x]
      BY <1>0, <1>2, <2>2 DEF CaptureCancel, CaptureCommit, CaptureRollback
    <3> QED
      BY <1>0, <3>1, <3>2
  <2> QED
    BY <2>1, <2>2
<1>3. CASE paid' = paid /\ hook' = hook
  BY <1>0, <1>3
<1>4. \/ paid' = paid /\ hook' = hook
      \/ \E c \in Cases : CaseNext(c)
  <2>1. paid' = paid \/ \E c \in Cases : CaseNext(c)
    BY DEF Next, vars, ReceiveNext, IgnoreEvent, EligibleRead, ClaimRead, WorkerNext,
       EligibleLock, EligibleDecide, Claim, ClaimRefuse, ClaimStop, CallSucceeds,
       CallFails, FinalizeRead, FinalizeLock, FinalizeCommit, FinalizeFailure,
       BrokerDuplicate, WorkerFault, PolicyChange
  <2>2. hook' = hook \/ \E c \in Cases : CaseNext(c)
    BY DEF Next, vars, ReceiveNext, IgnoreEvent, EligibleRead, ClaimRead, WorkerNext,
       EligibleLock, EligibleDecide, Claim, ClaimRefuse, ClaimStop, CallSucceeds,
       CallFails, FinalizeRead, FinalizeLock, FinalizeCommit, FinalizeFailure,
       BrokerDuplicate, WorkerFault, PolicyChange
  <2> QED
    BY <2>1, <2>2
<1>5. ASSUME NEW c \in Cases, CaseNext(c)
      PROVE  \/ paid' = paid /\ hook' = hook
             \/ \E s \in Sources :
                   \/ CaptureRecorded(c, s) \/ CaptureRead(c, s)
                   \/ CaptureCancel(c, s) \/ CaptureCommit(c, s) \/ CaptureRollback(c, s)
  BY <1>5 DEF CaseNext, HookNext, PaymentFailed, Dispatch, DispatchCrash,
     DispatchGivesUp
<1> QED
  BY <1>1, <1>2, <1>3, <1>4, <1>5

(* The case a captured payment was made for is closed: its own, or that of the link
   it was made through, for any number of cases and any chain of links. *)
THEOREM CaptureCloses == Spec => []CapturedPaymentClosesCase
<1>1. Init => SourceInv
  BY DEF Init, SourceInv, Sources
<1>2. TypeOK /\ AgreementInv /\ SourceInv => CapturedPaymentClosesCase
  <2> SUFFICES ASSUME TypeOK, AgreementInv, SourceInv,
                      NEW d \in Cases, NEW s \in paid[d],
                      status[MadeFor(d, s)] # NoRow
               PROVE  is_terminal(status[MadeFor(d, s)])
    BY DEF CapturedPaymentClosesCase
  <2>1. s \in Sources
    BY DEF TypeOK, RowTypes
  <2>2. MadeFor(d, s) = d
    BY <2>1, NamesAssumption DEF MadeFor, SourceInv, CaseOf, Sources
  <2> QED
    BY <2>2 DEF AgreementInv, PaidIsClosed
<1> QED
  BY <1>1, <1>2, SourceStep, TypeCorrect, Agreement, PTL DEF Spec

(* RecoveryCore implements CaseLifecycle: with its transactions, messages, stale
   reads and retries it commits nothing else than the steps of a case's life. *)
THEOREM RefinesLifecycle == Spec => ImplementsLifecycle
<1>1. Init => Lifecycle!Init
  BY LifecycleNames DEF Init, Lifecycle!Init
<1>2. TypeOK /\ SafetyInv /\ AgreementInv /\ [Next]_vars
        => [Lifecycle!Next]_(Lifecycle!vars)
  BY LifecycleStep DEF Lifecycle!vars
<1> QED
  BY <1>1, <1>2, TypeCorrect, Safety, Agreement, PTL
  DEF Spec, ImplementsLifecycle, Lifecycle!Spec

(* A step that changes no row of a case and nothing of its trail. *)
LEMMA AuditFrame ==
    ASSUME NEW c \in Cases, AuditTells(c),
           status'[c] = status[c], action'[c] = action[c], audit'[c] = audit[c]
    PROVE  AuditTells(c)'
BY DEF AuditTells, Entered, HasAction

(* The executor's steps: the action moves on and the entry for it is made. *)
LEMMA AuditAction ==
    ASSUME TypeOK, SafetyInv, AuditMatchesRows,
           NEW c \in Cases, NEW t \in ActionTypes, NEW entry, NEW new,
           \/ entry = "claimed" /\ action[c][t] = "APPROVED" /\ new = "EXECUTING"
           \/ entry = "executed" /\ action[c][t] = "EXECUTING" /\ new = "EXECUTED"
           \/ entry = "failed" /\ action[c][t] = "EXECUTING" /\ new = "FAILED"
           \/ entry = "cancelled" /\ action[c][t] = "APPROVED" /\ new = "CANCELLED",
           insert_audit(c, entry),
           action' = [ action EXCEPT ![c][t] = new ],
           \A d \in Cases \ { c } : status'[d] = status[d],
           status'[c] # NoRow,
           status'[c] = "RECOVERED" <=> status[c] = "RECOVERED"
    PROVE  AuditMatchesRows'
<1> USE Shapes DEF NoRow
<1>1. \A u \in ActionTypes \ { t } : action[c][u] = NoRow /\ action'[c][u] = NoRow
  BY DEF SafetyInv, DecisionInv
<1>2. action[c][t] # NoRow /\ action'[c][t] = new /\ status[c] # NoRow
  BY DEF SafetyInv, DecisionInv
<1>3. \A d \in Cases \ { c } : action'[d] = action[d] /\ audit'[d] = audit[d]
  BY DEF insert_audit, TypeOK, RowTypes, AuditRows
<1>4. /\ audit'[c][entry] = audit[c][entry] + 1
      /\ \A n \in AuditEntries \ { entry } : audit'[c][n] = audit[c][n]
      /\ \A n \in AuditEntries : audit[c][n] \in Nat
  BY EntryNames DEF insert_audit, TypeOK, RowTypes, AuditRows
<1>5. /\ HasAction(c, ActionStatuses)
      /\ HasAction(c, { "EXECUTING", "EXECUTED", "FAILED" }) <=> action[c][t] # "APPROVED"
      /\ ~HasAction(c, { "EXECUTED" })
      /\ ~HasAction(c, { "FAILED" })
      /\ ~HasAction(c, { "CANCELLED" })
  <2>1. NoRow \notin ActionStatuses /\ action[c][t] \in ActionStatuses
    BY DEF ActionStatuses
  <2> QED
    BY <1>1, <1>2, <2>1 DEF HasAction
<1>6. /\ HasAction(c, ActionStatuses)'
      /\ HasAction(c, { "EXECUTING", "EXECUTED", "FAILED" })' <=> entry # "cancelled"
      /\ HasAction(c, { "EXECUTED" })' <=> entry = "executed"
      /\ HasAction(c, { "FAILED" })' <=> entry = "failed"
      /\ HasAction(c, { "CANCELLED" })' <=> entry = "cancelled"
  <2>1. NoRow \notin ActionStatuses /\ new \in ActionStatuses
    BY DEF ActionStatuses
  <2> QED
    BY <1>1, <1>2, <2>1 DEF HasAction
<1>7. /\ audit[c]["eligible"] = 1
      /\ audit[c]["decision"] = 1
      /\ audit[c]["claimed"] = IF action[c][t] # "APPROVED" THEN 1 ELSE 0
      /\ audit[c]["executed"] = 0
      /\ audit[c]["failed"] = 0
      /\ audit[c]["cancelled"] = 0
      /\ audit[c]["recovered"] > 0 <=> status[c] = "RECOVERED"
  <2>1. AuditTells(c) /\ audit[c]["cancelled"] \in Nat
    BY <1>4, EntryNames DEF AuditMatchesRows
  <2> HIDE Shapes
  <2> QED
    BY <1>2, <1>5, <2>1 DEF AuditTells, Entered
<1>8. /\ audit'[c]["eligible"] = 1
      /\ audit'[c]["decision"] = 1
      /\ audit'[c]["claimed"] = IF entry # "cancelled" THEN 1 ELSE 0
      /\ audit'[c]["executed"] = IF entry = "executed" THEN 1 ELSE 0
      /\ audit'[c]["failed"] = IF entry = "failed" THEN 1 ELSE 0
      /\ audit'[c]["cancelled"] = IF entry = "cancelled" THEN 1 ELSE 0
      /\ audit'[c]["recovered"] > 0 <=> status'[c] = "RECOVERED"
  <2> HIDE Shapes
  <2> QED
    BY <1>4, <1>7, EntryNames
<1>9. AuditTells(c)'
  <2> HIDE Shapes
  <2>1. CASE entry = "claimed"
    BY <1>6, <1>8, <2>1 DEF AuditTells, Entered
  <2>2. CASE entry = "executed"
    BY <1>6, <1>8, <2>2 DEF AuditTells, Entered
  <2>3. CASE entry = "failed"
    BY <1>6, <1>8, <2>3 DEF AuditTells, Entered
  <2>4. CASE entry = "cancelled"
    BY <1>6, <1>8, <2>4 DEF AuditTells, Entered
  <2> QED
    BY <2>1, <2>2, <2>3, <2>4
<1> QED
  BY <1>3, <1>9, AuditFrame DEF AuditMatchesRows

(* Every commit makes exactly the entries that belong to the rows it writes. *)
LEMMA AuditStep ==
    ASSUME TypeOK, SafetyInv, AgreementInv, AuditMatchesRows, [Next]_vars
    PROVE  AuditMatchesRows'
<1> USE DEF rows, workerVars, hookVars, faultVars
<1>0. /\ status \in [ Cases -> CaseStatuses \cup { NoRow } ]
      /\ action \in [ Cases -> [ ActionTypes -> ActionStatuses \cup { NoRow } ] ]
      /\ audit \in [ Cases -> [ AuditEntries -> Nat ] ]
  BY Shapes DEF TypeOK, RowTypes, AuditRows
<1>1. ASSUME NEW c \in Cases, NEW a \in Amounts, NEW k \in Categories,
             PaymentFailed(c, a, k)
      PROVE  AuditMatchesRows'
  <2>1. /\ status[c] = NoRow /\ status'[c] = "ELIGIBLE" /\ UNCHANGED action
        /\ audit'[c] = [ audit[c] EXCEPT !["eligible"] = @ + 1 ]
    BY <1>0, <1>1 DEF PaymentFailed, insert_audit
  <2>2. \A d \in Cases \ { c } : status'[d] = status[d] /\ audit'[d] = audit[d]
    BY <1>0, <1>1 DEF PaymentFailed, insert_audit
  <2>3. /\ audit[c]["eligible"] = 0
        /\ \A n \in AuditEntries \ { "eligible" } : audit'[c][n] = audit[c][n]
        /\ audit'[c]["eligible"] = 1
    BY <1>0, <2>1, EntryNames DEF AuditMatchesRows, AuditTells, Entered
  <2>4. AuditTells(c)'
    <3>1. AuditTells(c)
      BY DEF AuditMatchesRows
    <3> QED
      BY <2>1, <2>3, <3>1, EntryNames DEF AuditTells, Entered, HasAction, NoRow
  <2> QED
    BY <2>1, <2>2, <2>4, AuditFrame DEF AuditMatchesRows
<1>2. ASSUME NEW c \in Cases, NEW s \in Sources, CaptureCommit(c, s)
      PROVE  AuditMatchesRows'
  <2>1. status[c] # NoRow
    BY <1>2 DEF CaptureCommit, AgreementInv, HookInv
  <2>2. /\ status'[c] = "RECOVERED"
        /\ audit'[c] = [ audit[c] EXCEPT !["recovered"] = @ + 1 ]
        /\ action'[c] = [ t \in ActionTypes |->
                            IF t \in hookRows[c][s] THEN "CANCELLED" ELSE action[c][t] ]
    BY <1>0, <1>2, <2>1 DEF CaptureCommit, recovered_flush, insert_audit
  <2>3. \A d \in Cases \ { c } :
           status'[d] = status[d] /\ audit'[d] = audit[d] /\ action'[d] = action[d]
    BY <1>0, <1>2 DEF CaptureCommit, insert_audit
  <2>4. /\ \A n \in AuditEntries \ { "recovered" } : audit'[c][n] = audit[c][n]
        /\ audit'[c]["recovered"] > 0
    BY <1>0, <2>2, EntryNames
  <2>5. \A t \in ActionTypes :
           \/ action'[c][t] = action[c][t]
           \/ action[c][t] \in { "PENDING", "APPROVED" } /\ action'[c][t] = "CANCELLED"
    BY <2>2 DEF SafetyInv, ActionLockInv, CancellableStatuses
  <2>6. AuditTells(c)'
    <3>1. AuditTells(c)
      BY DEF AuditMatchesRows
    <3>2. \A t \in ActionTypes :
             /\ action'[c][t] \in ActionStatuses <=> action[c][t] \in ActionStatuses
             /\ \A S \in { { "EXECUTING", "EXECUTED", "FAILED" }, { "EXECUTED" },
                           { "FAILED" } } :
                   action'[c][t] \in S <=> action[c][t] \in S
             /\ action[c][t] \in { "CANCELLED" } => action'[c][t] \in { "CANCELLED" }
      BY <2>5 DEF ActionStatuses
    <3>3. Entered(c, "eligible", status[c] # NoRow)'
      BY <2>1, <2>2, <2>4, <3>1, EntryNames DEF AuditTells, Entered, NoRow
    <3>4. Entered(c, "decision", HasAction(c, ActionStatuses))'
      BY <2>4, <3>1, <3>2, EntryNames DEF AuditTells, Entered, HasAction
    <3>5. Entered(c, "claimed", HasAction(c, { "EXECUTING", "EXECUTED", "FAILED" }))'
      BY <2>4, <3>1, <3>2, EntryNames DEF AuditTells, Entered, HasAction
    <3>6. /\ Entered(c, "executed", HasAction(c, { "EXECUTED" }))'
          /\ Entered(c, "failed", HasAction(c, { "FAILED" }))'
      BY <2>4, <3>1, <3>2, EntryNames DEF AuditTells, Entered, HasAction
    <3>7. /\ audit'[c]["cancelled"] <= 1
          /\ audit'[c]["cancelled"] > 0 => HasAction(c, { "CANCELLED" })'
      BY <2>4, <3>1, <3>2, EntryNames DEF AuditTells, HasAction
    <3> QED
      BY <2>2, <2>4, <3>3, <3>4, <3>5, <3>6, <3>7 DEF AuditTells
  <2> QED
    BY <2>3, <2>6, AuditFrame DEF AuditMatchesRows
<1>3. ASSUME NEW w \in Workers, NEW answer \in LlmAnswers, EligibleDecide(w, answer)
      PROVE  AuditMatchesRows'
  <2>1. PICK c \in Cases : c = job[w].case
    BY <1>3, Shapes DEF EligibleDecide
  <2>2. PICK type \in ActionTypes : type = final_action(job[w].case, answer)
    BY FinalActionType
  <2>3. status[c] = "ELIGIBLE"
    BY <1>3, <2>1 DEF EligibleDecide, SafetyInv, CaseLockInv
  <2>4. \A t \in ActionTypes : action[c][t] = NoRow
    BY <2>3 DEF SafetyInv, DecisionInv
  <2>5. /\ status' = [ status EXCEPT ![c] = final_status(type) ]
        /\ action' = [ action EXCEPT ![c][type] = "APPROVED" ]
        /\ insert_audit(c, "decision")
    BY <1>3, <2>1, <2>2, <2>4
    DEF EligibleDecide, create_recovery_action_idempotent, insert_decision_audit
  <2>6. final_status(type) \in { "STOPPED", "ESCALATED", "ACTION_SCHEDULED" }
    BY DEF final_status
  <2>7. /\ \A t \in ActionTypes : action'[c][t] = IF t = type THEN "APPROVED" ELSE NoRow
        /\ status'[c] \in { "STOPPED", "ESCALATED", "ACTION_SCHEDULED" }
        /\ \A n \in AuditEntries \ { "decision" } : audit'[c][n] = audit[c][n]
        /\ audit'[c]["decision"] = audit[c]["decision"] + 1
    BY <1>0, <2>3, <2>4, <2>5, <2>6, EntryNames DEF insert_audit
  <2>8. \A d \in Cases \ { c } :
           status'[d] = status[d] /\ audit'[d] = audit[d] /\ action'[d] = action[d]
    BY <1>0, <2>5 DEF insert_audit
  <2>9. ~HasAction(c, ActionStatuses) /\ HasAction(c, ActionStatuses)'
    BY <2>3, <2>4, <2>7 DEF HasAction, ActionStatuses, NoRow
  <2>10. \A n \in { "EXECUTING", "EXECUTED", "FAILED", "CANCELLED" } :
           \A t \in ActionTypes : action[c][t] # n /\ action'[c][t] # n
    BY <2>4, <2>7 DEF NoRow
  <2>11. AuditTells(c)'
    <3>1. AuditTells(c)
      BY <2>3 DEF AuditMatchesRows
    <3>2. Entered(c, "eligible", status[c] # NoRow)'
      BY <2>3, <2>7, <3>1, EntryNames DEF AuditTells, Entered, NoRow
    <3>3. Entered(c, "decision", HasAction(c, ActionStatuses))'
      BY <2>7, <2>9, <3>1, EntryNames DEF AuditTells, Entered
    <3>4. Entered(c, "claimed", HasAction(c, { "EXECUTING", "EXECUTED", "FAILED" }))'
      BY <2>7, <2>10, <3>1, EntryNames DEF AuditTells, Entered, HasAction
    <3>5. /\ Entered(c, "executed", HasAction(c, { "EXECUTED" }))'
          /\ Entered(c, "failed", HasAction(c, { "FAILED" }))'
      BY <2>7, <2>10, <3>1, EntryNames DEF AuditTells, Entered, HasAction
    <3>6. /\ audit'[c]["cancelled"] <= 1
          /\ audit'[c]["cancelled"] > 0 => HasAction(c, { "CANCELLED" })'
      BY <2>7, <2>10, <3>1, EntryNames DEF AuditTells, HasAction
    <3>7. audit'[c]["recovered"] > 0 <=> status'[c] = "RECOVERED"
      BY <2>3, <2>7, <3>1, EntryNames DEF AuditTells
    <3> QED
      BY <3>2, <3>3, <3>4, <3>5, <3>6, <3>7 DEF AuditTells
  <2> QED
    BY <2>8, <2>11, AuditFrame DEF AuditMatchesRows
<1>4. ASSUME NEW w \in Workers,
             \/ Claim(w) \/ ClaimRefuse(w) \/ ClaimStop(w) \/ FinalizeCommit(w)
             \/ FinalizeFailure(w)
      PROVE  \/ UNCHANGED << status, action, audit >>
             \/ AuditMatchesRows'
  <2> DEFINE c == job[w].case
             t == job[w].event
  <2>1. c \in Cases /\ t \in ActionTypes
    BY <1>4, Shapes DEF Claim, ClaimRefuse, ClaimStop, FinalizeCommit, FinalizeFailure,
       DecisionStages
  <2>2. ASSUME action[c][t] # NoRow
        PROVE  status[c] # NoRow
    BY <2>1, <2>2 DEF SafetyInv, DecisionInv
  <2>3. CASE Claim(w)
    <3>1. CASE action[c][t] = "APPROVED"
      <4>1. /\ insert_audit(c, "claimed")
            /\ action' = [ action EXCEPT ![c][t] = "EXECUTING" ]
            /\ status' = status
        BY <2>3, <3>1 DEF Claim, atomic_action_transition, action_audit
      <4> QED
        BY <2>1, <2>2, <3>1, <4>1, AuditAction DEF NoRow
    <3>2. CASE action[c][t] # "APPROVED"
      BY <2>3, <3>2 DEF Claim, atomic_action_transition
    <3> QED
      BY <3>1, <3>2
  <2>4. CASE ClaimRefuse(w)
    <3>1. CASE action[c][t] = "APPROVED" /\ ~stops_case(job[w].status)
      <4>1. /\ insert_audit(c, "cancelled")
            /\ action' = [ action EXCEPT ![c][t] = "CANCELLED" ]
            /\ status' = status
        BY <2>4, <3>1 DEF ClaimRefuse, atomic_action_transition, action_audit
      <4> QED
        BY <2>1, <2>2, <3>1, <4>1, AuditAction DEF NoRow
    <3>2. CASE ~(action[c][t] = "APPROVED" /\ ~stops_case(job[w].status))
      BY <2>4, <3>2 DEF ClaimRefuse, atomic_action_transition
    <3> QED
      BY <3>1, <3>2
  <2>5. CASE ClaimStop(w)
    <3>1. action[c][t] = "APPROVED" /\ job[w].status = "ACTION_SCHEDULED"
      BY <2>5 DEF ClaimStop, SafetyInv, ActionLockInv, AgreementInv, ReadInv, ReadBounds
    <3>2. /\ insert_audit(c, "cancelled")
          /\ action' = [ action EXCEPT ![c][t] = "CANCELLED" ]
          /\ \/ status' = status
             \/ /\ status' = [ status EXCEPT ![c] = "STOPPED" ]
                /\ status[c] = "ACTION_SCHEDULED"
      BY <2>5, <3>1 DEF ClaimStop, action_audit, atomic_transition_recovery_case
    <3>3. /\ \A d \in Cases \ { c } : status'[d] = status[d]
          /\ status'[c] # NoRow
          /\ status'[c] = "RECOVERED" <=> status[c] = "RECOVERED"
      BY <1>0, <2>1, <2>2, <3>1, <3>2 DEF NoRow
    <3> QED
      BY <2>1, <3>1, <3>2, <3>3, AuditAction
  <2>6. CASE FinalizeCommit(w)
    <3>1. action[c][t] = "EXECUTING"
      BY <2>6 DEF FinalizeCommit, SafetyInv, CallInv, ClaimedStages
    <3>2. pc[w] = "moving" => status[c] = "ACTION_SCHEDULED"
      BY DEF SafetyInv, CaseLockInv
    <3>3. /\ insert_audit(c, "executed")
          /\ action' = [ action EXCEPT ![c][t] = "EXECUTED" ]
          /\ \/ status' = status
             \/ /\ status' = [ status EXCEPT ![c] = "WAITING" ]
                /\ status[c] = "ACTION_SCHEDULED"
      BY <2>6, <3>2 DEF FinalizeCommit, action_audit
    <3>4. /\ \A d \in Cases \ { c } : status'[d] = status[d]
          /\ status'[c] # NoRow
          /\ status'[c] = "RECOVERED" <=> status[c] = "RECOVERED"
      BY <1>0, <2>1, <2>2, <3>1, <3>3 DEF NoRow
    <3> QED
      BY <2>1, <3>1, <3>3, <3>4, AuditAction
  <2>7. CASE FinalizeFailure(w)
    <3>1. action[c][t] = "EXECUTING"
      BY <2>7 DEF FinalizeFailure, SafetyInv, CallInv, ClaimedStages
    <3>2. /\ insert_audit(c, "failed")
          /\ action' = [ action EXCEPT ![c][t] = "FAILED" ]
          /\ status' = status
      BY <2>7, <3>1 DEF FinalizeFailure, action_audit
    <3> QED
      BY <2>1, <2>2, <3>1, <3>2, AuditAction DEF NoRow
  <2> QED
    BY <1>4, <2>3, <2>4, <2>5, <2>6, <2>7
<1>5. CASE UNCHANGED << status, action, audit >>
  BY <1>5, AuditFrame DEF AuditMatchesRows
<1>6. \/ \E c \in Cases, a \in Amounts, k \in Categories : PaymentFailed(c, a, k)
      \/ \E c \in Cases, s \in Sources : CaptureCommit(c, s)
      \/ \E w \in Workers, answer \in LlmAnswers : EligibleDecide(w, answer)
      \/ \E w \in Workers :
            \/ Claim(w) \/ ClaimRefuse(w) \/ ClaimStop(w) \/ FinalizeCommit(w)
            \/ FinalizeFailure(w)
      \/ UNCHANGED << status, action, audit >>
  <2>1. ASSUME NEW c \in Cases, CaseNext(c)
        PROVE  \/ \E a \in Amounts, k \in Categories : PaymentFailed(c, a, k)
               \/ \E s \in Sources : CaptureCommit(c, s)
               \/ UNCHANGED << status, action, audit >>
    BY <2>1 DEF CaseNext, HookNext, CaptureRecorded, CaptureRead, CaptureCancel,
                CaptureRollback, Dispatch, DispatchCrash, DispatchGivesUp
  <2>2. ASSUME NEW w \in Workers, NEW c \in Cases, ReceiveNext(w, c)
        PROVE  UNCHANGED << status, action, audit >>
    BY <2>2 DEF ReceiveNext, IgnoreEvent, EligibleRead, ClaimRead
  <2>3. ASSUME NEW w \in Workers,
               \/ EligibleLock(w) \/ FinalizeRead(w) \/ FinalizeLock(w)
               \/ CallSucceeds(w) \/ \E created \in BOOLEAN : CallFails(w, created)
        PROVE  UNCHANGED << status, action, audit >>
    BY <2>3 DEF EligibleLock, FinalizeRead, FinalizeLock, CallSucceeds, CallFails
  <2>4. ASSUME NEW w \in Workers, BrokerDuplicate(w) \/ \E kind : WorkerFault(w, kind)
        PROVE  UNCHANGED << status, action, audit >>
    BY <2>4 DEF BrokerDuplicate, WorkerFault
  <2>5. ASSUME NEW new, PolicyChange(new)
        PROVE  UNCHANGED << status, action, audit >>
    BY <2>5 DEF PolicyChange
  <2>6. CASE UNCHANGED vars
    BY <2>6 DEF vars
  <2> QED
    BY <2>1, <2>2, <2>3, <2>4, <2>5, <2>6 DEF Next, WorkerNext
<1> QED
  BY <1>1, <1>2, <1>3, <1>4, <1>5, <1>6

(* The audit trail of every case says what its rows say, in every reachable
   state: insert_audit and the writes it belongs to are never separated. *)
THEOREM AuditTrail == Spec => []AuditMatchesRows
<1>1. Init => AuditMatchesRows
  BY EntryNames DEF Init, AuditMatchesRows, AuditTells, Entered, HasAction, ActionStatuses,
     NoRow
<1>2. TypeOK /\ SafetyInv /\ AgreementInv /\ AuditMatchesRows /\ [Next]_vars
        => AuditMatchesRows'
  BY AuditStep
<1> QED
  BY <1>1, <1>2, TypeCorrect, Safety, Agreement, PTL DEF Spec

(* No step loses work: a message is acknowledged, or a task ended, only when its
   case or action no longer waits, and every other way out leaves a record. *)
LEMMA WorkStep ==
    ASSUME TypeOK, SafetyInv, AgreementInv, WorkIsCarried, [Next]_vars
    PROVE  WorkIsCarried'
<1> SUFFICES ASSUME NEW c \in Cases, NEW e \in Events, Waits(c, e)'
             PROVE  Carried(c, e)' \/ GivenUp(c, e)'
  BY DEF WorkIsCarried
<1> DEFINE Kept == Carried(c, e)' \/ GivenUp(c, e)'
<1> USE DEF rows, workerVars, hookVars, faultVars
<1>0. /\ status \in [ Cases -> CaseStatuses \cup { NoRow } ]
      /\ action \in [ Cases -> [ ActionTypes -> ActionStatuses \cup { NoRow } ] ]
      /\ outbox \in [ Cases -> [ Events -> OutboxStatuses \cup { NoRow } ] ]
      /\ queue \in [ Cases -> [ Events -> Nat ] ]
      /\ abandoned \in [ Cases -> SUBSET Events ]
      /\ pc \in [ Workers -> Stages ]
      /\ job \in [ Workers -> Jobs ]
      /\ e \in ExecutableTypes => e \in ActionTypes /\ e # "eligible"
  BY Names DEF TypeOK, RowTypes, WorkerTypes, OutsideTypes, ActionRows, OutboxRows,
     ExecutableTypes
<1>1. Waits(c, e) => Carried(c, e) \/ GivenUp(c, e)
  BY DEF WorkIsCarried
(* Nothing that carries (c, e) is touched. *)
<1>2. ASSUME Waits(c, e), outbox'[c][e] = outbox[c][e], queue'[c][e] = queue[c][e],
             UNCHANGED << pc, job, abandoned >>
      PROVE  Kept
  BY <1>1, <1>2 DEF Carried, GivenUp
(* A worker goes on with its task. *)
<1>3. ASSUME Waits(c, e), NEW w \in Workers, pc[w] # "idle", pc'[w] # "idle",
             job'[w].case = job[w].case, job'[w].event = job[w].event,
             \A x \in Workers \ { w } : pc'[x] = pc[x] /\ job'[x] = job[x],
             UNCHANGED << outbox, queue, abandoned >>
      PROVE  Kept
  BY <1>1, <1>3 DEF Carried, GivenUp
(* A worker ends its task, which was about something else. *)
<1>4. ASSUME Waits(c, e), NEW w \in Workers, EndTask(w),
             ~(job[w].case = c /\ job[w].event = e),
             UNCHANGED << outbox, queue, abandoned >>
      PROVE  Kept
  BY <1>0, <1>1, <1>4 DEF Carried, GivenUp, EndTask
<1>5. ASSUME NEW d \in Cases, NEW a \in Amounts, NEW k \in Categories,
             PaymentFailed(d, a, k)
      PROVE  Kept
  <2>1. CASE d = c /\ e = "eligible"
    BY <1>0, <1>5, <2>1 DEF PaymentFailed, Carried
  <2>2. CASE ~(d = c /\ e = "eligible")
    <3>1. Waits(c, e) /\ outbox'[c][e] = outbox[c][e]
      BY <1>0, <1>5, <2>2 DEF PaymentFailed, Waits
    <3> QED
      BY <1>2, <1>5, <3>1 DEF PaymentFailed
  <2> QED
    BY <2>1, <2>2
<1>6. ASSUME NEW d \in Cases, NEW s \in Sources, CaptureCommit(d, s)
      PROVE  Kept
  <2>1. e # "recovered"
    BY DEF Waits, ExecutableTypes
  <2>2. outbox'[c][e] = outbox[c][e] /\ UNCHANGED << queue, pc, job, abandoned >>
    BY <1>0, <1>6, <2>1 DEF CaptureCommit
  <2>3. Waits(c, e)
    BY <1>0, <1>6 DEF CaptureCommit, Waits
  <2> QED
    BY <1>2, <2>2, <2>3
<1>7. ASSUME NEW d \in Cases, NEW s \in Sources,
             \/ CaptureRecorded(d, s) \/ CaptureRead(d, s) \/ CaptureCancel(d, s)
             \/ CaptureRollback(d, s)
      PROVE  Kept
  <2>1. UNCHANGED << status, action, outbox, queue, pc, job, abandoned >>
    BY <1>7 DEF CaptureRecorded, CaptureRead, CaptureCancel, CaptureRollback
  <2>2. Waits(c, e)
    BY <2>1 DEF Waits
  <2> QED
    BY <1>2, <2>1, <2>2
<1>8. ASSUME NEW d \in Cases, NEW f \in Events,
             Dispatch(d, f) \/ DispatchCrash(d, f) \/ DispatchGivesUp(d, f)
      PROVE  Kept
  <2>1. Waits(c, e) /\ UNCHANGED << pc, job, abandoned >>
    BY <1>8 DEF Waits, Dispatch, DispatchCrash, DispatchGivesUp
  <2>2. CASE d = c /\ f = e
    BY <1>0, <1>8, <2>2 DEF Dispatch, DispatchCrash, DispatchGivesUp, Carried, GivenUp
  <2>3. CASE ~(d = c /\ f = e)
    <3>1. outbox'[c][e] = outbox[c][e] /\ queue'[c][e] = queue[c][e]
      <4>1. /\ outbox' = outbox \/ \E st : outbox' = [ outbox EXCEPT ![d][f] = st ]
            /\ queue' = queue \/ queue' = [ queue EXCEPT ![d][f] = @ + 1 ]
        BY <1>8 DEF Dispatch, DispatchCrash, DispatchGivesUp
      <4>2. queue'[c][e] = queue[c][e]
        <5>1. CASE d = c
          BY <1>0, <2>3, <4>1, <5>1
        <5>2. CASE d # c
          BY <1>0, <4>1, <5>2
        <5> QED
          BY <5>1, <5>2
      <4>3. outbox'[c][e] = outbox[c][e]
        <5>1. CASE d = c
          BY <1>0, <2>3, <4>1, <5>1
        <5>2. CASE d # c
          BY <1>0, <4>1, <5>2
        <5> QED
          BY <5>1, <5>2
      <4> QED
        BY <4>2, <4>3
    <3> QED
      BY <1>2, <2>1, <3>1
  <2> QED
    BY <2>2, <2>3
<1>9. ASSUME NEW w \in Workers, NEW d \in Cases, ReceiveNext(w, d)
      PROVE  Kept
  <2>1. PICK f \in Events :
           /\ Receive(w, d, f)
           /\ UNCHANGED << status, action, outbox, abandoned >>
           /\ \A x \in Workers \ { w } : pc'[x] = pc[x] /\ job'[x] = job[x]
           /\ d = c /\ f = e /\ Waits(c, e) =>
                 pc'[w] # "idle" /\ job'[w].case = c /\ job'[w].event = e
    <3>1. ASSUME IgnoreEvent(w, d)
          PROVE  /\ Receive(w, d, "recovered")
                 /\ UNCHANGED << status, action, outbox, abandoned, pc, job >>
                 /\ e = "recovered" => ~Waits(c, e)
      BY <3>1 DEF IgnoreEvent, Waits, ExecutableTypes
    <3>2. ASSUME EligibleRead(w, d)
          PROVE  /\ Receive(w, d, "eligible")
                 /\ UNCHANGED << status, action, outbox, abandoned >>
                 /\ \A x \in Workers \ { w } : pc'[x] = pc[x] /\ job'[x] = job[x]
                 /\ d = c /\ e = "eligible" /\ Waits(c, e) =>
                       pc'[w] # "idle" /\ job'[w].case = c /\ job'[w].event = e
      BY <1>0, <3>2, JobTypes DEF EligibleRead, Waits
    <3>3. ASSUME NEW t \in ExecutableTypes, ClaimRead(w, d, t)
          PROVE  /\ Receive(w, d, t)
                 /\ UNCHANGED << status, action, outbox, abandoned >>
                 /\ \A x \in Workers \ { w } : pc'[x] = pc[x] /\ job'[x] = job[x]
                 /\ d = c /\ e = t /\ Waits(c, e) =>
                       pc'[w] # "idle" /\ job'[w].case = c /\ job'[w].event = e
      <4>1. /\ Receive(w, d, t)
            /\ UNCHANGED << status, action, outbox, abandoned >>
            /\ \A x \in Workers \ { w } : pc'[x] = pc[x] /\ job'[x] = job[x]
        BY <1>0, <3>3 DEF ClaimRead
      <4>2. ASSUME d = c, e = t, Waits(c, e)
            PROVE  pc'[w] # "idle" /\ job'[w].case = c /\ job'[w].event = e
        <5>1. action[d][t] = "APPROVED"
          BY <1>0, <4>2 DEF Waits
        <5>2. pc'[w] \in { "claiming", "refusing" } /\ job'[w] = Job(d, t)
          BY <1>0, <3>3, <5>1 DEF ClaimRead
        <5> QED
          BY <4>2, <5>2, JobTypes
      <4> QED
        BY <4>1, <4>2
    <3> QED
      BY <1>9, <3>1, <3>2, <3>3, Names DEF ReceiveNext
  <2>2. Waits(c, e)
    BY <2>1 DEF Waits
  <2>3. /\ pc[w] = "idle"
        /\ queue' = [ queue EXCEPT ![d][f] = @ - 1 ]
    BY <2>1 DEF Receive
  <2>4. CASE d = c /\ f = e
    BY <2>1, <2>2, <2>4 DEF Carried
  <2>5. CASE ~(d = c /\ f = e)
    <3>1. queue'[c][e] = queue[c][e]
      BY <1>0, <2>3, <2>5
    <3>2. \A x \in Workers : pc[x] # "idle" => pc'[x] = pc[x] /\ job'[x] = job[x]
      BY <2>1, <2>3
    <3> QED
      BY <1>1, <2>1, <2>2, <3>1, <3>2 DEF Carried, GivenUp
  <2> QED
    BY <2>4, <2>5
<1>10. ASSUME NEW w \in Workers, EligibleLock(w)
       PROVE  Kept
  <2>1. /\ pc[w] = "eligible" /\ Waits(c, e)
        /\ UNCHANGED << outbox, queue, abandoned >>
    BY <1>10 DEF EligibleLock, Waits
  <2>2. /\ job[w].case \in Cases /\ job[w].event = "eligible"
        /\ job[w].status = "ELIGIBLE" /\ job[w].version = 2
    BY <2>1 DEF TypeOK, WorkerTypes, DecisionStages, SafetyInv, CaseLockInv,
       AgreementInv, ReadInv, ReadBounds
  <2>3. CASE job[w].case = c /\ e = "eligible"
    <3>1. status[c] = "ELIGIBLE" /\ version[c] = 2
      BY <1>0, <2>1, <2>3 DEF Waits, AgreementInv, VersionInv
    <3>2. validate_transition("ELIGIBLE", "ANALYSING")
      BY DEF validate_transition, is_terminal, TERMINAL_STATES, can_transition,
         ALLOWED_TRANSITIONS, CaseStatuses
    <3>3. Goto(w, "deciding")
      BY <1>10, <2>2, <2>3, <3>1, <3>2 DEF EligibleLock, atomic_transition_recovery_case
    <3> QED
      BY <1>0, <1>3, <2>1, <3>3 DEF Goto
  <2>4. CASE ~(job[w].case = c /\ e = "eligible")
    BY <1>0, <1>3, <1>4, <1>10, <2>1, <2>2, <2>4 DEF EligibleLock, Goto
  <2> QED
    BY <2>3, <2>4
<1>11. ASSUME NEW w \in Workers, NEW answer \in LlmAnswers, EligibleDecide(w, answer)
       PROVE  Kept
  <2> DEFINE type == final_action(job[w].case, answer)
  <2>1. /\ job[w].case \in Cases /\ job[w].event = "eligible" /\ type \in ActionTypes
        /\ status[job[w].case] = "ELIGIBLE" /\ pc[w] = "deciding"
    BY <1>11, FinalActionType DEF EligibleDecide, TypeOK, WorkerTypes, DecisionStages,
       SafetyInv, CaseLockInv
  <2>2. action[job[w].case][type] = NoRow
    BY <2>1 DEF SafetyInv, DecisionInv
  <2>3. /\ status' = [ status EXCEPT ![job[w].case] = final_status(type) ]
        /\ action' = [ action EXCEPT ![job[w].case][type] = "APPROVED" ]
        /\ outbox' = [ outbox EXCEPT ![job[w].case] =
                         [ f \in Events |-> IF f \in scheduled_events(type)
                                            THEN "PENDING" ELSE @[f] ] ]
        /\ EndTask(w)
        /\ UNCHANGED << queue, abandoned >>
    BY <1>11, <2>2 DEF EligibleDecide, create_recovery_action_idempotent
  <2>4. /\ final_status(type) # "ELIGIBLE"
        /\ type \in ExecutableTypes => type \in scheduled_events(type)
    BY DEF final_status, scheduled_events, ExecutableTypes
  <2>5. scheduled_events(type) \subseteq { type }
    BY DEF scheduled_events
  <2> HIDE DEF type
  <2>6. CASE job[w].case = c /\ e = type
    <3>1. e \in ExecutableTypes
      BY <1>0, <2>1, <2>3, <2>4, <2>6 DEF Waits
    <3>2. outbox'[c][e] = "PENDING"
      BY <1>0, <2>3, <2>4, <2>6, <3>1
    <3> QED
      BY <3>2 DEF Carried
  <2>7. CASE ~(job[w].case = c /\ e = type)
    <3>1. Waits(c, e) /\ outbox'[c][e] = outbox[c][e]
      BY <1>0, <2>1, <2>3, <2>4, <2>5, <2>7 DEF Waits
    <3>2. ~(job[w].case = c /\ job[w].event = e)
      BY <1>0, <2>1, <2>3, <2>4 DEF Waits
    <3> QED
      BY <1>0, <1>1, <2>3, <3>1, <3>2 DEF Carried, GivenUp, EndTask
  <2> QED
    BY <2>6, <2>7
<1>12. ASSUME NEW w \in Workers, Claim(w) \/ ClaimRefuse(w)
       PROVE  Kept
  <2>1. /\ pc[w] \in { "claiming", "refusing" }
        /\ UNCHANGED << status, outbox, queue, abandoned >>
        /\ \/ EndTask(w)
           \/ Goto(w, "claimed") \/ Goto(w, "stopping")
        /\ \/ action' = action
           \/ \E st \in { "EXECUTING", "CANCELLED" } :
                action' = [ action EXCEPT ![job[w].case][job[w].event] = st ]
    BY <1>12 DEF Claim, ClaimRefuse
  <2>2. job[w].case \in Cases /\ job[w].event \in ExecutableTypes
    BY <2>1 DEF TypeOK, WorkerTypes, DecisionStages
  <2>3. Waits(c, e)
    <3>1. action'[c][e] = "APPROVED" /\ e \in ActionTypes => action[c][e] = "APPROVED"
      <4>1. CASE job[w].case = c /\ job[w].event = e
        BY <1>0, <2>1, <4>1
      <4>2. CASE ~(job[w].case = c /\ job[w].event = e)
        BY <1>0, <2>1, <4>2
      <4> QED
        BY <4>1, <4>2
    <3> QED
      BY <1>0, <2>1, <3>1 DEF Waits
  <2>4. CASE ~EndTask(w)
    BY <1>0, <1>3, <2>1, <2>3, <2>4 DEF Goto
  <2>5. CASE EndTask(w)
    <3>1. pc'[w] = "idle"
      BY <1>0, <2>5 DEF EndTask
    <3>2. action'[job[w].case][job[w].event] # "APPROVED"
      BY <1>0, <1>12, <2>2, <3>1, Names DEF Claim, ClaimRefuse, Goto, atomic_action_transition
    <3>3. ~(job[w].case = c /\ job[w].event = e)
      BY <1>0, <2>2, <3>2 DEF Waits
    <3> QED
      BY <1>4, <2>1, <2>3, <2>5, <3>3
  <2> QED
    BY <2>4, <2>5
<1>13. ASSUME NEW w \in Workers,
              \/ ClaimStop(w) \/ FinalizeCommit(w) \/ FinalizeFailure(w)
       PROVE  Kept
  <2>1. /\ pc[w] # "idle" /\ pc[w] \notin DecisionStages
        /\ UNCHANGED << outbox, queue, abandoned >>
        /\ EndTask(w)
    BY <1>13 DEF ClaimStop, FinalizeCommit, FinalizeFailure, DecisionStages
  <2>2. job[w].case \in Cases /\ job[w].event \in ExecutableTypes
    BY <2>1 DEF TypeOK, WorkerTypes
  <2>3. PICK st \in { "EXECUTED", "CANCELLED", "FAILED" } :
           action' = [ action EXCEPT ![job[w].case][job[w].event] = st ]
    <3>1. pc[w] = "failed" => action[job[w].case][job[w].event] = "EXECUTING"
      BY DEF SafetyInv, CallInv, ClaimedStages
    <3> QED
      BY <1>13, <3>1 DEF ClaimStop, FinalizeCommit, FinalizeFailure
  <2>4. \A d \in Cases : status'[d] = "ELIGIBLE" => status[d] = "ELIGIBLE"
    BY <1>0, <1>13 DEF ClaimStop, FinalizeCommit, FinalizeFailure
  <2>5. Waits(c, e) /\ ~(job[w].case = c /\ job[w].event = e)
    BY <1>0, <2>2, <2>3, <2>4, Names DEF Waits
  <2> QED
    BY <1>4, <2>1, <2>5
<1>14. ASSUME NEW w \in Workers,
              \/ CallSucceeds(w) \/ \E created \in BOOLEAN : CallFails(w, created)
              \/ FinalizeRead(w) \/ FinalizeLock(w)
       PROVE  Kept
  <2>1. /\ pc[w] \in { "claimed", "succeeded", "finalizing" }
        /\ UNCHANGED << status, action, outbox, queue, abandoned >>
    BY <1>14 DEF CallSucceeds, CallFails, FinalizeRead, FinalizeLock
  <2>2. action[job[w].case][job[w].event] = "EXECUTING"
    BY <2>1 DEF SafetyInv, CallInv, ClaimedStages
  <2>3. /\ pc'[w] # "idle"
        /\ job'[w].case = job[w].case /\ job'[w].event = job[w].event
        /\ \A x \in Workers \ { w } : pc'[x] = pc[x] /\ job'[x] = job[x]
    BY <1>0, <1>14, <2>2, JobTypes
    DEF CallSucceeds, CallFails, FinalizeRead, FinalizeLock, Goto
  <2>4. Waits(c, e)
    BY <2>1 DEF Waits
  <2> QED
    BY <1>3, <2>1, <2>3, <2>4
<1>15. ASSUME NEW w \in Workers, BrokerDuplicate(w)
       PROVE  Kept
  <2>1. /\ Waits(c, e)
        /\ UNCHANGED << outbox, pc, job, abandoned >>
        /\ queue' = [ queue EXCEPT ![job[w].case][job[w].event] = @ + 1 ]
    BY <1>15 DEF BrokerDuplicate, Waits
  <2>2. queue[c][e] > 0 => queue'[c][e] > 0
    BY <1>0, <2>1
  <2> QED
    BY <1>1, <2>1, <2>2 DEF Carried, GivenUp
<1>16. ASSUME NEW w \in Workers, NEW kind \in FaultKinds, WorkerFault(w, kind)
       PROVE  Kept
  <2>1. Waits(c, e) /\ UNCHANGED outbox /\ EndTask(w)
    BY <1>16 DEF WorkerFault, Waits
  <2>2. kind = "redelivered" \/ kind = "abandoned"
    BY FaultsAssumption DEF AllFaultKinds
  <2>3. /\ copies_returned(kind) \in Nat
        /\ kind = "redelivered" => copies_returned(kind) = 1
        /\ queue' = [ queue EXCEPT ![job[w].case][job[w].event] =
                                     @ + copies_returned(kind) ]
        /\ abandoned' = [ abandoned EXCEPT ![job[w].case] =
                            IF kind = "abandoned" THEN @ \cup { job[w].event } ELSE @ ]
    BY <1>16 DEF WorkerFault, copies_returned
  <2> HIDE DEF copies_returned
  <2>4. CASE job[w].case = c /\ job[w].event = e
    BY <1>0, <2>2, <2>3, <2>4 DEF Carried, GivenUp
  <2>5. CASE ~(job[w].case = c /\ job[w].event = e)
    <3>1. queue'[c][e] = queue[c][e] /\ (e \in abandoned[c] => e \in abandoned'[c])
      BY <1>0, <2>3, <2>5
    <3> QED
      BY <1>0, <1>1, <2>1, <2>5, <3>1 DEF Carried, GivenUp, EndTask
  <2> QED
    BY <2>4, <2>5
<1>17. ASSUME NEW new, PolicyChange(new)
       PROVE  Kept
  <2>1. Waits(c, e) /\ UNCHANGED << outbox, queue, pc, job, abandoned >>
    BY <1>17 DEF PolicyChange, Waits
  <2> QED
    BY <1>2, <2>1
<1>18. CASE UNCHANGED vars
  <2>1. Waits(c, e) /\ UNCHANGED << outbox, queue, pc, job, abandoned >>
    BY <1>18 DEF vars, Waits
  <2> QED
    BY <1>2, <2>1
<1>19. ASSUME NEW d \in Cases, CaseNext(d)
       PROVE  Kept
  BY <1>5, <1>6, <1>7, <1>8, <1>19 DEF CaseNext, HookNext
<1>20. ASSUME NEW w \in Workers, WorkerNext(w)
       PROVE  Kept
  BY <1>10, <1>11, <1>12, <1>13, <1>14, <1>20 DEF WorkerNext
<1>21. CASE Next
  BY <1>9, <1>15, <1>16, <1>17, <1>19, <1>20, <1>21 DEF Next
<1> QED
  BY <1>18, <1>21

(* A case that waits for its decision and an action that waits to be executed are
   carried by an event or recorded as given up, in every reachable state. *)
THEOREM NoWorkLost == Spec => []WorkIsCarried
<1>1. Init => WorkIsCarried
  BY Names DEF Init, WorkIsCarried, Waits, NoRow
<1>2. TypeOK /\ SafetyInv /\ AgreementInv /\ WorkIsCarried /\ [Next]_vars
        => WorkIsCarried'
  BY WorkStep
<1> QED
  BY <1>1, <1>2, TypeCorrect, Safety, Agreement, PTL DEF Spec

=============================================================================
