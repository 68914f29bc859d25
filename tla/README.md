# RecoverAI: specifications, model checking and proofs

RecoverAI recovers failed payments. A Razorpay webhook reports that a payment
failed; the program opens a recovery case, decides what to do about it (a
deterministic engine, a policy engine and an LLM agent), executes the decision
(for instance a payment link) and closes the case when money arrives. This
directory holds TLA+ specifications of that write path, of the dashboard that
reads its rows and of the offline experiment, the TLC configurations that check
them on small instances, and TLAPS proofs.

## 1. Inventory

| Part | Source (under `src/`) | State | Operations | Hard because |
|---|---|---|---|---|
| Case state machine | `app/domain/recovery_state.py`, `app/services/recovery_cases.py` | `recovery_cases.status`, `version` | `validate_transition`, guarded UPDATE | several writers, some of them unguarded |
| Engine and policy | `app/domain/recovery_engine.py`, `policy.py`, `app/services/policy_service.py` | `merchant_policies` | `evaluate_recovery`, `evaluate_policy`, counts | evaluated twice, at decision and at execution |
| Agent | `app/agents/` | none | `run_recovery_agent` | any answer, or none |
| Worker task | `app/tasks/recovery.py`, `app/celery_app.py` | case, action, outbox row in one transaction | `process_outbox_event` | redelivery, duplicates, early returns that commit |
| Action executor | `app/services/action_executor.py`, `app/integrations/razorpay.py` | `recovery_actions.status` | claim, external call, finalize | an external call between two transactions |
| Webhook endpoint | `app/webhooks/razorpay.py` | `webhook_events` | `razorpay_webhook` | repeated, reordered, concurrent events |
| Webhook handlers | `app/webhooks/handlers.py` | payment, case, actions, outbox | `handle_payment_failed`, `handle_payment_captured` | race with the workers |
| Outbox dispatcher | `app/outbox/dispatcher.py`, `scripts/run_outbox_dispatcher.py` | `outbox_events` | `dispatch_outbox_events` | crash between publish and commit, outage, several dispatchers |
| Policy row | `app/services/policy_service.py` | `merchant_policies` | `get_or_create_default_policy` | first tasks of a merchant race inside open transactions |
| Retries | `app/tasks/recovery.py`, `app/tasks/backoff.py`, `app/celery_app.py` | messages with a retry count | `self.retry`, acknowledgement | a worker lost between the two |
| Audit trail | `insert_audit`, `_insert_decision_audit`, `_audit`, `app/models/audit.py` | `audit_events` | insert | written beside guarded and unguarded updates |
| Dashboard API | `app/api/dashboard.py`, `app/services/dashboard_service.py` | none | metrics, case list, case detail | several SELECTs at READ COMMITTED |
| Simulation | `app/simulation/` | two results, two generators | `run_experiment` | results are comparable only on the same random numbers |
| Money, signature, shell, pages, labs, scripts | see `PROJECT.json` | | | pure, read only or demonstrations: not modelled |

The parts talk through PostgreSQL rows and the Celery queue. A webhook
transaction writes a case and an outbox event; the dispatcher turns the event
into a message; a worker decides on the case and writes an action and its event;
a second message executes the action. A `payment.captured` webhook may cut in
anywhere.

What makes each part correct:

* state machine: a closed case is not reopened; no commit leaves a case in a
  state that exists only inside a transaction;
* decision: what is stored is what the policy engine allows, whatever the LLM
  says, and still holds when it is checked again before execution;
* worker and executor: at most one external call per case, rows that agree with
  each other, no lock cycle, no case forgotten;
* endpoint: each event applied at most once and answered in the end;
* dispatcher: published at least once, never early, none starved;
* policy row: one row per merchant, and the race for it costs nobody's decision;
* retries: a task is never in nobody's hands, and is given up only after its
  backoff;
* audit trail: it says what the rows say;
* dashboard: an answer put together from several SELECTs is consistent in itself;
* simulation: both strategies are played on the same numbers.

`PROJECT.json` lists the hazards, each at its line, with the properties that
would notice.

## 2. Modules

| Module | Models | Uses |
|---|---|---|
| `RecoveryState` | statuses and transition table | |
| `RecoveryPolicy` | engine, policy, agent and the worker's choice, as operators | `RecoveryState` |
| `DecisionPipeline` | one decision, stage by stage, over all inputs | `RecoveryPolicy` |
| `RecoveryCore` | webhooks, dispatcher, queue, workers and executor around the cases | `RecoveryPolicy` |
| `Outbox` | batches, row locks, attempts, delays, outages and crashes of dispatchers | |
| `WebhookInbox` | endpoint, inbox and payment side of the handlers in several processes | |
| `Dashboard` | the endpoints, SELECT by SELECT, composed with the write path | `RecoveryCore` |
| `PolicyRow` | the race for a merchant's default policy row | |
| `TaskRetry` | messages, retries and acknowledgements of one Celery task | |
| `Simulation` | the paired experiment | `RecoveryPolicy` |
| `CaseLifecycle` | abstract: the life of a case without messages, workers, versions or locks | `RecoveryState` |
| `Mailbox` | abstract: an at-least-once mailbox without dispatchers, batches or crashes | |
| `MC*` | instances for TLC | the module of that name |
| `*_proofs` | theorems, one module for each that models a part of the code by actions | the module of that name; `Dashboard_proofs` also `RecoveryCore_proofs` |

`RecoveryCore` composes the parts: `final_action` is the decision of
`DecisionPipeline` in one step (it depends only on rows read in the worker's
transaction, and the case row is locked meanwhile), `Dispatch`, `DispatchCrash`
and `DispatchGivesUp` are what `Outbox` does to one event, `redelivered` and
`abandoned` are what `TaskRetry` does to one task, and it starts where
`PolicyRow` ends, with the row in place. `Dashboard` takes every step of
`RecoveryCore` and adds a reader.

Two abstract specifications say what the parts promise to those who use them.
`CaseLifecycle` is what a merchant may rely on: opened once, decided once with
one action, started, called once, executed or failed, cancelled, recovered.
`Lifecycle` in `RecoveryCore` maps its three variables to the committed rows and
the calls made; everything else (queue, versions, open transactions, faults) is
hidden. `Mailbox` is what the writer of an outbox event may rely on; `Mail` in
`Outbox` maps it to the committed status, the due flag and the messages in Redis.
Its fairness (an event that is due is settled) is implied by that of the
dispatchers.

### How the code appears in the models

* **Transactions** (`RecoveryCore`). PostgreSQL runs at READ COMMITTED. Row
  variables hold committed values. A transaction is a few actions: reads copy
  rows into the process, a guarded UPDATE waits for the row's lock and tests its
  WHERE clause on the committed row, the last action commits. A row is locked
  while some process is in a stage whose transaction has written it
  (`CaseLocked`, `ActionLocked`).
* **Flush order.** The sessions have `autoflush=False`. So
  `_mark_case_recovered` cancels the actions (an `execute`) before it writes the
  case, and `_finalize_success` moves the case (an `execute`) before it writes
  the action (an attribute set, flushed at commit). The models keep that order;
  `NoLockCycle` depends on it.
* **ORM writes.** A flush has the primary key alone in its WHERE clause
  (`recovered_flush`) and writes only the attributes that changed
  (`flushed_status`).
* **The decision transaction.** Once `EligibleLock` has written ANALYSING the
  case row is locked until the commit, so the later guarded transitions of the
  same transaction cannot miss; their `rowcount == 0` returns are not
  reachable. The return for an action that exists is modelled, with the commit
  of ANALYSING that follows from it; `NoHalfProcessedCase` says it is never
  taken.
* **Captures.** The payment row, written first, keeps two captures of one
  payment apart. Captures of the original payment and of link payments may
  overlap and meet at the case row.
* **Notes.** Razorpay returns the notes of a payment link with every payment made
  through it. `handle_payment_captured` closes the case the notes name and looks
  no further; `handle_payment_failed` reads no notes. So a link payment that fails
  first opens a case of its own, and its capture closes the case of the link, not
  its own. The constant `NotesOf` says which case the notes of a payment name
  (`None` for no notes, or notes that name no case of the merchant), and `CaseOf`
  in `RecoveryCore` and `case_of` in `WebhookInbox` are the choice the handler
  makes. A payment with notes is made only after the link it names exists
  (`MayBePaid`, `MayHappen`). `"link"` in `RecoveryCore` stands for a link payment
  that never failed and has no case.
* **The queue** is a counter per event. `redelivered` puts a message back (late
  acknowledgement, `reject_on_worker_lost`, `self.retry`), `abandoned` does not
  (retries exhausted, soft time limit; the variable `abandoned` keeps the record
  the log has), `BrokerDuplicate` delivers one again while its task runs.
* **The soft time limit.** `SoftTimeLimitExceeded` is raised wherever the task is,
  also while its INSERT waits for another task, and is not retried. The session's
  `with` block rolls the transaction back on the way out: `SoftTimeLimit` in
  `PolicyRow`, `abandoned` in `RecoveryCore`.
* **External parties** (Razorpay, the LLM, Redis, an operator who edits the
  policy row) may do anything the code lets them do, and are marked external in
  the map.
* **API processes.** `WebhookInbox` lets two requests overlap. Within one
  uvicorn process the endpoint does not yield during its transaction, so this
  takes two processes; `docs/system-design.md` says that the API is stateless and
  scales out.
* **Audit rows** are counted by case and entry (`audit`), and are written by the
  action that commits the transaction they belong to.
* **Dashboard requests.** A request is a list of SELECTs
  (`get_case_explainability`, `get_merchant_metrics`, `get_paginated_cases`), each
  of which sees the rows committed when it runs. The page is told by its size, the
  average time to recovery only apart from None.
* **Retries.** `self.retry` and the acknowledgement of the old message are two
  steps, with a lost worker possible in between. Of the random countdown
  only the two ends are taken: the sum the property is about is monotone in each,
  and the proof takes every delay between them.
* **Random numbers** of the simulation are percentages, as its probabilities are;
  the stream of a seed is any sequence.
* **Data.** Amounts, categories and limits are kept, as decisions depend on
  them. Reasons, references, timestamps and payloads are left out: the write path
  does not read them. `deliver_at` is the flag `due` in `Outbox`
  and delays nothing in `RecoveryCore`, where a dispatcher may take any time.
  `attempt_number` is always 1, so an action is named by its case and type.

## 3. Runs

Passing runs:

| Run | Instance | Shows |
|---|---|---|
| `decision` | 17 policies, 5 amounts on both sides of each threshold, counts on both sides of each limit, every category, every LLM answer | `DecisionSurvivesClaim`, `HighValueNeedsHuman`, `WaitIsHonoured`, `AgentFailureIsNeutral` |
| `core` | 2 cases, the payment of the second made through the link of the first; 2 workers, 2 policies, 2 categories, 2 faults of any kind | `EffectivelyOnce`, `NoHalfProcessedCase`, `CaseAgreesWithAction`, `CapturedPaymentClosesCase`, `AuditMatchesRows`, `WorkIsCarried`, `NoLockCycle`, `ClosedStaysClosed`, `ImplementsLifecycle` |
| `progress` | 1 case, 2 workers, 2 policies, 1 crash or duplicate, under fairness | `EligibleIsDecided`, `ApprovedActionSettles` |
| `outbox` | 3 events, 2 dispatchers, batches of 2, 2 attempts, 1 crash, under fairness | `OneMessagePerAttempt`, `PublishedWasSent`, `NeverEarly`, `ImplementsMailbox` |
| `dashboard` | 1 case, 2 workers, 2 policies, no faults, pages of 1 at offsets 0 and 1, all cases or the recovered ones | `DetailExplains`, `MetricsAddUp`, `PageIsFull`, `FiguresNeverShrink` |
| `policy_row` | 3 tasks, 2 rollbacks, soft time limit, under fairness | `LoserFindsRow`, `OneRowForAll`, `LosingKeepsTheDecision`, `EveryTaskEnds` |
| `task_retry` | 5 retries as configured, up to 3 messages at a time, 1 lost worker, under fairness | `NeverDropped`, `GivenUpOnlyAfterBackoff`, `TaskEnds` |
| `inbox` | 7 events, of a payment and of one made through its link, 2 processes, 1 fault, under fairness | `AppliedOnce`, `PaymentAgreesWithCase`, `EventuallyAnswered` |

`decision`, `core`, `outbox`, `inbox`, `policy_row` and `task_retry` also check
the `TypeOK` of their module; the rows `dashboard` reads are those of
`RecoveryCore`, whose `TypeOK` is proved.

Three of these properties say less, or something else, than a first reading of the
code suggests.

* `CapturedPaymentClosesCase` is about the case a payment was made for
  (`MadeFor`): that of the link it was made through, or else its own. Of a link
  payment's own case it says nothing, because the code does nothing about it.
* `PaymentAgreesWithCase` has a RECOVERED case explained by some captured payment
  that was made for it, not by its own: in an ordinary link recovery the original
  payment stays FAILED, which `tests/test_webhook_notes_recovery.py` expects.
* `EveryTaskEnds` says that a task decides or ends at its soft time limit; none
  waits for ever, because a task that ends lets go of its key. It does not say that
  every task decides: one whose INSERT waits until the limit ends without a policy.

Runs that find a disagreement between a document and the code:

| Run | The document | What TLC finds |
|---|---|---|
| `terminal_regress` | `docs/system-design.md:39`, terminal states cannot regress | a capture reads the case, a worker commits STOPPED or ESCALATED, the capture writes RECOVERED over it |
| `stale_side_effect` | `README.md:208`, no stale side effects reach external systems | claim, capture, then the call for a case that is RECOVERED |
| `outbox_outage` | `README.md:129` and `:131`, work is delayed, never lost | an outage of more than `outbox_max_dispatch_attempts` polls leaves the event FAILED, and nothing reads FAILED |
| `webhook_conflict` | `docs/decisions.md:227`, a duplicate answered 200 was processed | two processes insert the same new payment for two events; the loser's event is rolled back and answered 200 |

The weaker facts that do hold are in the passing runs: a closed case may only
become RECOVERED (`ClosedStaysClosed`), a case gets one external call at most
(`EffectivelyOnce`), a case is RECOVERED if and only if the trail says so at least
once, and every other entry is there exactly as often as its row says
(`AuditMatchesRows`), and what the case detail does show explains itself
(`DetailExplains`).

Three smaller disagreements were met while modelling and have no run of their own.
`docs/decisions.md:346` (D-021) says that audit entries are written only after a
guarded UPDATE has succeeded; captures of a payment and of its link that overlap
both read the open case, and both write a recovered entry (`CaptureCommit`), which
is why `AuditMatchesRows` says at least once. `docs/system-design.md:254` says that
the case detail returns the complete audit trail; its SELECT asks for
`entity_type == "recovery_case"`, so the entries about the execution of an action
are not in it (`audited_entries`). `docs/system-design.md:58` says that
`payment.captured` moves the active case to RECOVERED; when a link payment fails
first and is captured later, the case its failure opened stays active, and its
worker may go on with it, although its payment is CAPTURED
(`app/webhooks/handlers.py:408` returns before the lookup by payment). D-034
(`docs/decisions.md:564`) describes the mapping by notes and does not mention this
case, so which case the sentence means is open.

Two hazards have no property of their own, as `PROJECT.json` says beside them: the
duplicate recovered entry, which the code does write, and an action that is FAILED
under a case that stays ACTION_SCHEDULED, which `CaseAgreesWithAction` admits
because `_finalize_failure` leaves the case alone. `DecisionSurvivesClaim` is about
a claim that finds what the decision found; that the claim is decided anew when
state has changed in between is in `RecoveryCore` (`Claim`, `ClaimRefuse`,
`PolicyChange`).

### Bounds

Cases interact through the workers, the policy row and the notes of link payments;
every transaction touches one case. In `core` the first case meets two workers,
its own capture, that of a link payment, and everything else the instance has. The
second is there for the notes. From the moment its payment is made, `MCConstraint`
goes on only from states without a fault, under the default policy and with one
category, and stops once the first case is closed and the event of the second is
published. The theorems cover any number of cases and workers and any `NotesOf`.
The workers are interchangeable, and all the properties of this run are safety
properties, so it uses symmetry. The one amount is below the human threshold of one
policy and above that of the other. Two faults suffice for a crash whose
redelivered message is itself duplicated. `MaxFaults`, `MaxCrashes` and `MaxAttempts` are the only other bounds; the queue
is finite because faults are. In `outbox` three events with batches of two leave
one waiting, and two attempts make FAILED reachable. In `inbox` one fault is a
lost answer or a failed request, each of which makes Razorpay send again; a second
would only repeat that.

`dashboard` has one case because the reader multiplies the states of the write
path: with two cases they are out of reach. For several cases, where the counts of
`MetricsAddUp` and `PageIsFull` say most, there are the theorems. It has no faults: a crash or a
duplicate commits nothing that another order of the steps would not. In
`policy_row` three tasks make one loser wait for another loser, and two rollbacks
take away the winner's row and that of its successor. In `task_retry` a lost
worker makes two lines of messages, and `MaxMessages` is one more than they need
at a time.

### Fairness

* The dispatcher script polls in an endless loop, workers consume as long as
  there are messages, a task or request that has begun goes on: weak fairness of
  `Dispatch`, `ReceiveNext`, `WorkerNext`, `HookNext`, `DispatcherNext`,
  `HandlerNext`. Webhooks, crashes and policy edits need not happen.
* `BecomesDue` and `BrokerRecovers` are weakly fair: time passes, and an outage
  ends. Nothing is assumed about how long it lasts.
* `TaskNext` and `MessageNext`: a task whose INSERT or SELECT can run does run, and
  workers keep consuming and finish what they have started.
* Razorpay goes on sending an event that is not answered, and the process pool
  is shared with others, so its delivery is strongly fair. An event that is refused
  each time (`"invalid"`) is left out: Razorpay stops sending it at some time.
  `EventuallyAnswered` is about the events that happen, so a payment through a link
  counts once there is the case of the link.
* The soft time limit and rollbacks need not happen.

The progress properties leave out abandonment, after which the code really does
give up; that is the hazard at `app/tasks/recovery.py:478`. `WorkIsCarried` has it:
work may be in nobody's hands only if its event is FAILED or its task ended with an
exception.

## 4. Theorems

All for every value of the constants, under the assumptions the modules state
(the limits are `PolicyLimits`, amounts and counts are naturals, categories are
ones `classify_failure` returns, bounds on faults are naturals, a table has
finitely many cases, and the task has up to the five retries of its decorator).
Every invariant that a run checks is also proved. Those that are not inductive
follow from one that is. It stands in the component's module and was also checked
with TLC, on the instance of the run; for `DecisionPipeline` it stands beside the
proofs, and `Simulation` has no run.

**`RecoveryCore_proofs`**, in three parts.

*Types.* `TypeCorrect`, that is `Spec => []TypeOK`. It is inductive as it stands
because it ties a worker's stage to its event; the only subtle case is a message
taken from a queue that has one.

*Locks and calls.* `Safety`, that is `Spec => []SafetyInv`, and from it `OnceOnly`
(`EffectivelyOnce`), `NoneHalfProcessed`, `LocksNeverCross` (`NoLockCycle`) and
`ClosedForGood` (`ClosedStaysClosed`). None of these is inductive alone.
`SafetyInv` adds

* `CaseLockInv`: one worker at most holds a case row, which stays as its WHERE
  clause found it;
* `ActionLockInv`: one transaction at most holds an action row, and only one
  that may still be cancelled;
* `DecisionInv`: a case leaves ELIGIBLE when it gets its one action;
* `CallInv`: a worker past its claim is the only owner of an EXECUTING action,
  which has not been called before its call.

The argument: only the holder of the case row can decide, so there is one
action; only one claim finds it APPROVED, so there is one owner; only the owner
calls. `moving` implies EXECUTING, and locked action rows are cancellable, so
the two lock orders cannot meet. The guarded writers never find a closed case,
and the one unguarded writer writes RECOVERED.

*Agreement.* `Agreement`, that is `Spec => []AgreementInv`, and from it `RowsAgree`
(`CaseAgreesWithAction`), `CaptureCloses` (`CapturedPaymentClosesCase`),
`RefinesLifecycle` (`ImplementsLifecycle`), `AuditTrail` (`AuditMatchesRows`) and
`NoWorkLost` (`WorkIsCarried`). `AgreementInv` adds

* `VersionInv`: an ELIGIBLE case has version 2 and a scheduled one version 5, so a
  guarded UPDATE misses only because the status is another;
* `EventInv`: nobody is asked to execute an action that does not exist;
* `ReadInv`: what a worker has read may be stale, but bounds what the case can be
  now;
* `HookInv`: a capture is under way, or a link exists, only for a case that does,
  and before that only its own payment can have been captured for it;
* `PaidIsClosed`: a case for which a payment was captured is closed.

`CaptureCloses` needs one more: by `SourceInv` a payment is captured nowhere but
where its notes send it, so the case it was made for is the one `PaidIsClosed` is
about. `SourceInv` is inductive beside the types.

The argument goes through the abstract specification. `LifecycleStep` shows that
every action of `RecoveryCore` is a step of `CaseLifecycle` or leaves its
variables alone; `LifecyclePreserves` shows once, for the eight abstract steps,
that the rows go on agreeing; what remains is that the memory of workers and
webhooks keeps its bounds (`ReadStep`, `EventStep`, `HookStep`, `PaidStep`).
`AuditStep` and `WorkStep` then go action by action: each entry is committed
together with the change of the row it is about, and a message is taken from its
outbox row or the queue only by somebody who then has it, or leaves a record.

**`Outbox_proofs`**: `DispatchSafe`, that is `Spec => []DispatchInv`, and from it
`OutboxTypes`, `OneMessageEach`, `PublishedOnlyIfSent` and `NeverBeforeTime`. The
core is `BatchInv`, what `FOR UPDATE SKIP LOCKED` gives: a row is in one batch at
most and stays PENDING and due while it is there. `RefinesMailbox` is the safety
half of `ImplementsMailbox`: every step of a dispatcher is a step of `Mailbox` or
invisible to it.

**`WebhookInbox_proofs`**: `InboxTypes`, and `RequestsSafe`, that is
`Spec => []RequestInv`, from which `ProcessedOnce` (`AppliedOnce`) and
`PaymentsAgree` (`PaymentAgreesWithCase`). `InboxInv` is the unique key of
the inbox: one open request per event, and none once it is stored. `WrittenInv` is
the lock on the payment row, and `SeenInv` says what survives of a stale read: a
captured payment stays captured, a failed one keeps its case. `NotesInv` says that
the case in the notes of a payment was there before the payment, so a capture finds
it. All of this holds for every `NotesOf`.

**`PolicyRow_proofs`**: `RowTypes`, and `RowSafe`, that is `Spec => []RowInv`, from
which `LoserNeverFails`, `OnePolicy` and `DecisionKept`. `KeyInv` is the unique key
on `merchant_id`: one inserted row at most is undecided, and none once a row is
committed. So whoever meets a conflict has lost to a committed row, which its
second SELECT sees.

**`TaskRetry_proofs`**: `RetryTypes`, `TaskNeverDropped` (`NeverDropped`, inductive
as it stands) and `BackoffBeforeGivingUp` (`GivenUpOnlyAfterBackoff`), from
`WaitedInv`: the countdowns behind a message are those of its retries. The bounds
are the geometric sum, which equals the sum of the delays as long as the cap of 60
seconds is not reached, that is for five retries; the proof goes through those
cases, as powers of two of an arbitrary number would need induction.

**`Dashboard_proofs`**: `OnlyReads` (`DashboardSpec => Spec`), so that all theorems
of `RecoveryCore` hold beside a reader, and `AnswersHold`, that is
`DashboardSpec => []AnswerInv`, from which `DetailsExplain`, `MetricsAgree`,
`PagesAreFull` and `CountsNeverShrink`. `AnswerInv` says that what the SELECTs so
far have shown is still true of the rows or has only been added to. It holds
because rows only grow (`GrowStep`, from `LifecycleStep`): cases and actions are
not deleted, EXECUTED and RECOVERED are final, closed stays closed. The
counts are compared by an injection from the stopped and escalated cases into the
actions (`ActionsCover`).

**`DecisionPipeline_proofs`**: `TypeCorrect`, `SurvivesClaim`, `NeedsHuman`,
`WaitsAsAsked` and `FailureIsNeutral`, from the invariant that each stage holds
what its function computes (`ComputedAlways`), and the lemma that the stored
action is always a verdict of `evaluate_policy` (`FinalIsAVerdict`).

**`Simulation_proofs`**: `NeverBehind`, that is `Spec => []ExperimentInv`, for
populations of any size, every amount `generate_population` can draw and every
stream of random numbers. `ExperimentInv` is `Paired`, both strategies have drawn
exactly the numbers of the stream, and `BehindOnlyOnUnknown`, the incremental
revenue is negative by at most the amounts of payments with an unknown failure.
The second needs the first: only on the same number does the lemma
`NoWorseThanReminder` (for a known failure, RecoverAI's action is at least as
likely to succeed as a reminder) say something about the outcome. The amounts are
out of TLC's reach, so the proof stands alone.

Only model-checked:

* the liveness properties (`EligibleIsDecided`, `ApprovedActionSettles`,
  `EventuallyAnswered`, `EveryTaskEnds`, `TaskEnds`) and the fair half of
  `ImplementsMailbox`: fairness and ENABLED are outside what the prover handles;
* of `FiguresNeverShrink`, that the recovered amount does not shrink: it is a sum
  over a set, and what it computes for every set takes an induction over data;
* the violations, which are found by TLC.

## 5. Not modelled

* Signature check and request schemas: pure, and what they refuse changes nothing.
* `app/domain/money.py` beyond refusing an amount or a currency: its conversions
  are called by tests alone.
* The HTTP request of the Razorpay client, the prompt and the confidence of the
  LLM: the models allow every outcome.
* The readiness probe, logging and settings (`app/main.py`, `app/config.py`,
  `app/observability.py`): no state; the settings that matter are CONSTANTS.
* The list of merchants and the Streamlit pages: one SELECT on a table nothing
  else here writes, and formatting.
* In the simulation, the sums of hours and of actions by type, and the rates:
  they are displayed and decide nothing.
* Labs, seeds and scripts: each plays one fixed order of steps on rows of its
  own, with functions that are modelled where the application calls them.
* Migrations: generated DDL.
* `merchant_policies.is_active`, which no code reads, and
  `get_recovery_case_locked`, which no code calls.
* The import of `app/services/policy_service.py`. Its line 69 names
  `RecoveryCaseStatus` in an annotation and does not import it. Where annotations
  are evaluated at definition (Python before 3.14; `README.md:452` asks for 3.11 or
  later) the import of the module fails with a `NameError`, and with it the worker.
  The models are of the module as it runs where annotations are evaluated lazily.

## 6. Plan

The plan of modules is complete, and so is that of the invariants. What is left is
what a further theorem could add:

1. `RecoveryCore`: that at most one payment link exists for a case, stated about
   `link` and the provider's answers instead of the calls.
2. `DecisionPipeline` and `RecoveryCore`: that `final_action` in one step is what
   the pipeline stores after its stages, as a refinement instead of by the shared
   operators.
3. `Dashboard`: `FiguresNeverShrink` for the amount, if the sum can be carried by
   an invariant that grows with each recovered case.
