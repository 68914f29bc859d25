------------------------------ MODULE Outbox ------------------------------
(***************************************************************************)
(* The transactional outbox and its dispatchers (app/outbox/dispatcher.py, *)
(* looped by scripts/run_outbox_dispatcher.py): rows are locked in batches *)
(* with FOR UPDATE SKIP LOCKED, published one by one while the transaction *)
(* is open, and written back by its commit.                                *)
(*                                                                         *)
(* An event is a number, its rank by created_at.  created_at is the time   *)
(* the inserting transaction began, so rows may appear out of that order.  *)
(* status, attempts and due hold committed values; batch, todo and out are *)
(* the open transactions of the dispatchers.                               *)
(***************************************************************************)
EXTENDS Integers, FiniteSets

CONSTANTS
    Events,       \* outbox events, by their rank in created_at order
    Dispatchers,  \* dispatcher processes
    BatchSize,    \* settings.outbox_dispatch_batch_size
    MaxAttempts,  \* settings.outbox_max_dispatch_attempts
    MaxCrashes    \* bound on dispatcher crashes in a behaviour

ASSUME EventsAssumption == Events \subseteq Nat /\ IsFiniteSet(Events)
ASSUME BatchAssumption == BatchSize \in Nat \ {0}
ASSUME AttemptsAssumption == MaxAttempts \in Nat \ {0}
ASSUME CrashesAssumption == MaxCrashes \in Nat

VARIABLES
    status,    \* outbox_events.status, NoRow before the insert
    attempts,  \* outbox_events.attempts
    due,       \* deliver_at is NULL or has passed
    batch,     \* rows each dispatcher has locked
    todo,      \* those of its rows it has not tried yet
    out,       \* those of its rows apply_async returned for
    broker,    \* TRUE while Redis accepts messages
    sent,      \* messages of each event that have reached Redis
    crashes    \* dispatcher crashes so far

rows == << status, attempts, due >>
txVars == << batch, todo, out >>
vars == << rows, txVars, broker, sent, crashes >>

NoRow == "none"

Init ==
    /\ status = [ e \in Events |-> NoRow ]
    /\ attempts = [ e \in Events |-> 0 ]
    /\ due = [ e \in Events |-> FALSE ]
    /\ batch = [ d \in Dispatchers |-> {} ]
    /\ todo = [ d \in Dispatchers |-> {} ]
    /\ out = [ d \in Dispatchers |-> {} ]
    /\ broker = TRUE
    /\ sent = [ e \in Events |-> 0 ]
    /\ crashes = 0

-----------------------------------------------------------------------------
(* The transaction that inserts the event commits: insert_outbox_if_missing
   without deliver_at, _insert_action_scheduled_outbox with one. *)
Insert(e, delayed) ==
    /\ status[e] = NoRow
    /\ status' = [ status EXCEPT ![e] = "PENDING" ]
    /\ due' = [ due EXCEPT ![e] = ~delayed ]
    /\ UNCHANGED << attempts, txVars, broker, sent, crashes >>

(* deliver_at passes. *)
BecomesDue(e) ==
    /\ status[e] # NoRow
    /\ ~due[e]
    /\ due' = [ due EXCEPT ![e] = TRUE ]
    /\ UNCHANGED << status, attempts, txVars, broker, sent, crashes >>

Locked(e) == \E d \in Dispatchers : e \in batch[d]

(* Mutants of Ready: a plain SELECT without row locks, one that forgets
   deliver_at, and one that never retries. *)
ReadyUnlocked == { e \in Events : status[e] = "PENDING" /\ due[e] }

ReadyEarly == { e \in Events : status[e] = "PENDING" /\ ~Locked(e) }

ReadyFirstTime == { e \in ReadyUnlocked : attempts[e] = 0 /\ ~Locked(e) }

(* Rows the SELECT finds: pending, due and not locked by another dispatcher. *)
Ready == { e \in Events : status[e] = "PENDING" /\ due[e] /\ ~Locked(e) }

(* The first BatchSize of them in created_at order. *)
FirstBatch ==
    { e \in Ready : Cardinality({ f \in Ready : f < e }) < BatchSize }

(* The SELECT of dispatch_outbox_events; with an empty result the dispatcher
   sleeps and polls again, which changes nothing. *)
Select(d) ==
    /\ batch[d] = {}
    /\ Ready # {}
    /\ batch' = [ batch EXCEPT ![d] = FirstBatch ]
    /\ todo' = [ todo EXCEPT ![d] = FirstBatch ]
    /\ UNCHANGED << rows, out, broker, sent, crashes >>

(* The loop tries the rows of the batch in order. *)
IsNext(d, e) == e \in todo[d] /\ \A f \in todo[d] : e <= f

(* apply_async returns. *)
Publish(d, e) ==
    /\ IsNext(d, e)
    /\ broker
    /\ todo' = [ todo EXCEPT ![d] = @ \ { e } ]
    /\ out' = [ out EXCEPT ![d] = @ \cup { e } ]
    /\ sent' = [ sent EXCEPT ![e] = @ + 1 ]
    /\ UNCHANGED << rows, batch, broker, crashes >>

(* apply_async raises.  If only the broker's answer was lost, the message is out
   all the same. *)
PublishError(d, e, reached) ==
    /\ IsNext(d, e)
    /\ ~broker
    /\ todo' = [ todo EXCEPT ![d] = @ \ { e } ]
    /\ sent' = [ sent EXCEPT ![e] = IF reached THEN @ + 1 ELSE @ ]
    /\ UNCHANGED << rows, batch, out, broker, crashes >>

(* Mutants of new_status: errors are not recorded, and retried for ever. *)
published_anyway(d, e) == "PUBLISHED"

never_failed(d, e) == IF e \in out[d] THEN "PUBLISHED" ELSE "PENDING"

(* The status a row of the batch is written back with. *)
new_status(d, e) ==
    IF e \in out[d] THEN "PUBLISHED"
    ELSE IF attempts[e] + 1 >= MaxAttempts THEN "FAILED" ELSE "PENDING"

(* The end of dispatch_outbox_events: the commit of the whole batch. *)
Commit(d) ==
    /\ batch[d] # {}
    /\ todo[d] = {}
    /\ status' = [ e \in Events |->
                     IF e \in batch[d] THEN new_status(d, e) ELSE status[e] ]
    /\ attempts' = [ e \in Events |->
                       IF e \in batch[d] THEN attempts[e] + 1 ELSE attempts[e] ]
    /\ batch' = [ batch EXCEPT ![d] = {} ]
    /\ out' = [ out EXCEPT ![d] = {} ]
    /\ UNCHANGED << due, todo, broker, sent, crashes >>

(* The dispatcher dies, or its commit fails: the locks are gone, nothing is
   written, and what it published stays published. *)
Crash(d) ==
    /\ batch[d] # {}
    /\ crashes < MaxCrashes
    /\ crashes' = crashes + 1
    /\ batch' = [ batch EXCEPT ![d] = {} ]
    /\ todo' = [ todo EXCEPT ![d] = {} ]
    /\ out' = [ out EXCEPT ![d] = {} ]
    /\ UNCHANGED << rows, broker, sent >>

(* Redis becomes unreachable, or reachable again. *)
BrokerFails ==
    /\ broker
    /\ broker' = FALSE
    /\ UNCHANGED << rows, txVars, sent, crashes >>

BrokerRecovers ==
    /\ ~broker
    /\ broker' = TRUE
    /\ UNCHANGED << rows, txVars, sent, crashes >>

DispatcherNext(d) ==
    \/ Select(d)
    \/ \E e \in Events : Publish(d, e)
    \/ \E e \in Events, reached \in BOOLEAN : PublishError(d, e, reached)
    \/ Commit(d)

Next ==
    \/ \E e \in Events, delayed \in BOOLEAN : Insert(e, delayed)
    \/ \E e \in Events : BecomesDue(e)
    \/ \E d \in Dispatchers : DispatcherNext(d) \/ Crash(d)
    \/ BrokerFails
    \/ BrokerRecovers

Spec == Init /\ [][Next]_vars

(* The dispatcher loop never ends, time passes, and an outage of Redis ends. *)
Fairness ==
    /\ \A d \in Dispatchers : WF_vars(DispatcherNext(d))
    /\ \A e \in Events : WF_vars(BecomesDue(e))
    /\ WF_vars(BrokerRecovers)

FairSpec == Spec /\ Fairness

-----------------------------------------------------------------------------
Statuses == { NoRow, "PENDING", "PUBLISHED", "FAILED" }

(* The columns hold what the table allows, and a dispatcher works only on rows
   it has locked. *)
TypeOK ==
    /\ status \in [ Events -> Statuses ]
    /\ attempts \in [ Events -> 0..MaxAttempts ]
    /\ due \in [ Events -> BOOLEAN ]
    /\ batch \in [ Dispatchers -> SUBSET Events ]
    /\ todo \in [ Dispatchers -> SUBSET Events ]
    /\ out \in [ Dispatchers -> SUBSET Events ]
    /\ \A d \in Dispatchers : todo[d] \cup out[d] \subseteq batch[d]
    /\ broker \in BOOLEAN
    /\ sent \in [ Events -> Nat ]
    /\ crashes \in 0..MaxCrashes

(* Some dispatcher has tried e and not committed yet. *)
Tried(e) == \E d \in Dispatchers : e \in batch[d] \ todo[d]

(* Dispatchers never compete for an event: each message of it is accounted for
   by a recorded attempt, a crash, or the one attempt that is going on. *)
OneMessagePerAttempt ==
    \A e \in Events :
        sent[e] <= attempts[e] + crashes + (IF Tried(e) THEN 1 ELSE 0)

(* At least once: an event is marked PUBLISHED only if a message is out, also
   when a batch is partly published and partly refused. *)
PublishedWasSent ==
    \A e \in Events : status[e] = "PUBLISHED" => sent[e] > 0

(* A delayed action is never handed to a worker before its time. *)
NeverEarly == \A e \in Events : sent[e] > 0 => due[e]

(* The refinement mapping: the committed rows, and the messages in Redis. *)
Mail == INSTANCE Mailbox WITH status <- status, due <- due, sent <- sent

(* To its writers the outbox is a mailbox: whatever dispatchers lock, publish,
   lose and repeat, an event is only sent while it is pending and due, is never
   sent again once a commit has settled it, and every event that is due is
   settled in the end, although events that fail again and again are the oldest
   and come first in every batch. *)
ImplementsMailbox == Mail!FairSpec

(* README.md: if the broker is unavailable the event remains in PostgreSQL and
   can be retried later; work may be delayed, but it is never silently lost. *)
WorkIsOnlyDelayed ==
    \A e \in Events : status[e] = "PENDING" ~> status[e] = "PUBLISHED"

-----------------------------------------------------------------------------
(* The inductive invariant behind TypeOK, the safety invariants and the safety
   part of ImplementsMailbox. *)

(* FOR UPDATE SKIP LOCKED: a row is in one batch at most, and stays as the SELECT
   found it. *)
BatchInv ==
    /\ \A d, x \in Dispatchers : \A e \in batch[d] : e \in batch[x] => d = x
    /\ \A d \in Dispatchers : \A e \in batch[d] : status[e] = "PENDING" /\ due[e]

(* A row that may still be tried has an attempt left. *)
AttemptInv ==
    \A e \in Events :
        status[e] \in { NoRow, "PENDING" } => attempts[e] < MaxAttempts

(* What is out of a batch was sent, and nothing is sent before its insert. *)
SentInv ==
    /\ \A d \in Dispatchers : \A e \in out[d] : sent[e] > 0
    /\ \A e \in Events : status[e] = NoRow => sent[e] = 0

(* What every step of a dispatcher, a writer and the broker preserves. *)
DispatchInv ==
    /\ TypeOK
    /\ BatchInv
    /\ AttemptInv
    /\ SentInv
    /\ OneMessagePerAttempt
    /\ PublishedWasSent
    /\ NeverEarly

=============================================================================
