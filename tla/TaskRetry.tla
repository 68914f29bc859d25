----------------------------- MODULE TaskRetry -----------------------------
(***************************************************************************)
(* Delivery and retry of one Celery task: process_outbox_event             *)
(* (app/tasks/recovery.py), the backoff of app/tasks/backoff.py, and the   *)
(* settings of app/celery_app.py (task_acks_late,                          *)
(* task_reject_on_worker_lost).                                            *)
(*                                                                         *)
(* self.retry publishes a NEW message with a countdown and one more retry, *)
(* and only then is the old one acknowledged, so a worker that dies in     *)
(* between leaves two messages, each with a count of its own.  A message   *)
(* carries waited, the seconds of countdown behind it, and time is nothing *)
(* else: an attempt may take any time.                                     *)
(***************************************************************************)
EXTENDS Integers, FiniteSetsExt

CONSTANTS
    MaxMessages, \* bound on the messages that exist at a time
    MaxRetries,  \* max_retries of the task
    MaxFaults    \* bound on the workers lost in a behaviour

ASSUME MessagesAssumption == MaxMessages \in Nat \ {0}
ASSUME RetriesAssumption == MaxRetries \in 0..5  \* the task has 5
ASSUME FaultsAssumption == MaxFaults \in Nat

VARIABLES
    msg,     \* the messages, in numbered slots
    done,    \* TRUE once an attempt has succeeded
    lost,    \* seconds waited by the last message given up, or Aborted
    faults   \* workers lost so far

vars == << msg, done, lost, faults >>

Messages == 1..MaxMessages

(* The base and the cap of exponential_backoff_with_jitter, in seconds. *)
Base == 2
Cap == 60

Nothing == -1

Aborted == -2

NoMessage == [ state |-> "free", retries |-> 0, waited |-> 0 ]

Message(retries, waited) ==
    [ state |-> "queued", retries |-> retries, waited |-> waited ]

(* The outbox dispatcher has published the task. *)
Init ==
    /\ msg = [ m \in Messages |-> IF m = 1 THEN Message(0, 0) ELSE NoMessage ]
    /\ done = FALSE
    /\ lost = Nothing
    /\ faults = 0

-----------------------------------------------------------------------------
max_delay(attempt) == Min({ Cap, Base * 2 ^ attempt })

(* Mutant of min_delay: full jitter. *)
no_min_delay(attempt) == 0

min_delay(attempt) == max_delay(attempt) \div 2

(* exponential_backoff_with_jitter draws a delay between the two; only the ends
   are taken, since what is said of the sum of the delays is monotone in each. *)
backoff_delays(attempt) == { min_delay(attempt), max_delay(attempt) }

(* Mutant of may_retry: one retry too many. *)
may_retry_again(retries) == retries <= MaxRetries

may_retry(retries) == retries < MaxRetries

(* A new message goes into the first slot that is free. *)
IsSlot(n) ==
    /\ msg[n].state = "free"
    /\ \A k \in 1..(n - 1) : msg[k].state # "free"

(* A worker takes the message once its countdown is over. *)
Start(m) ==
    /\ msg[m].state = "queued"
    /\ msg' = [ msg EXCEPT ![m].state = "running" ]
    /\ UNCHANGED << done, lost, faults >>

(* _process_outbox_event returns, and the message is acknowledged. *)
Succeed(m) ==
    /\ msg[m].state = "running"
    /\ msg' = [ msg EXCEPT ![m] = NoMessage ]
    /\ done' = TRUE
    /\ UNCHANGED << lost, faults >>

(* Mutant of Retry: the old message is acknowledged on receipt, and the new one
   is published only when the old one is done with. *)
RetryAfterAck(m, n, delay) ==
    /\ msg[m].state = "running"
    /\ may_retry(msg[m].retries)
    /\ IsSlot(n)
    /\ msg' = [ msg EXCEPT ![m] = NoMessage ]
    /\ UNCHANGED << done, lost, faults >>

(* OperationalError or DBAPIError: self.retry publishes the next message. *)
Retry(m, n, delay) ==
    /\ msg[m].state = "running"
    /\ may_retry(msg[m].retries)
    /\ IsSlot(n)
    /\ msg' = [ msg EXCEPT ![m].state = "retried",
                           ![n] = Message(msg[m].retries + 1,
                                          msg[m].waited + delay) ]
    /\ UNCHANGED << done, lost, faults >>

(* Mutant of Acknowledge: nobody acknowledges it. *)
NoAcknowledge(m) ==
    /\ msg[m].state = "retried"
    /\ UNCHANGED vars

(* The old message is acknowledged. *)
Acknowledge(m) ==
    /\ msg[m].state = "retried"
    /\ msg' = [ msg EXCEPT ![m] = NoMessage ]
    /\ UNCHANGED << done, lost, faults >>

(* The same error when max_retries is reached: self.retry raises it. *)
GiveUp(m) ==
    /\ msg[m].state = "running"
    /\ ~may_retry(msg[m].retries)
    /\ msg' = [ msg EXCEPT ![m] = NoMessage ]
    /\ lost' = msg[m].waited
    /\ UNCHANGED << done, faults >>

(* Any other exception, the soft time limit included: it is raised again, and
   the message is acknowledged. *)
Abort(m) ==
    /\ msg[m].state = "running"
    /\ msg' = [ msg EXCEPT ![m] = NoMessage ]
    /\ lost' = Aborted
    /\ UNCHANGED << done, faults >>

(* The worker process is lost, or shut down: its message is requeued. *)
WorkerLost(m) ==
    /\ msg[m].state \in { "running", "retried" }
    /\ faults < MaxFaults
    /\ faults' = faults + 1
    /\ msg' = [ msg EXCEPT ![m].state = "queued" ]
    /\ UNCHANGED << done, lost >>

MessageNext(m) ==
    \/ Start(m)
    \/ Succeed(m)
    \/ \E n \in Messages : \E delay \in backoff_delays(msg[m].retries) :
          Retry(m, n, delay)
    \/ Acknowledge(m)
    \/ GiveUp(m)
    \/ Abort(m)

Next == \E m \in Messages : MessageNext(m) \/ WorkerLost(m)

Spec == Init /\ [][Next]_vars

(* Workers keep consuming and finish what they run. *)
FairSpec == Spec /\ \A m \in Messages : WF_vars(MessageNext(m))

-----------------------------------------------------------------------------
(* Messages are well formed, and no count goes past its bound. *)
TypeOK ==
    /\ msg \in [ Messages -> [ state : { "free", "queued", "running", "retried" },
                               retries : 0..MaxRetries, waited : Nat ] ]
    /\ done \in BOOLEAN
    /\ lost \in Nat \cup { Nothing, Aborted }
    /\ faults \in 0..MaxFaults

(* The task is never in nobody's hands: until an attempt has succeeded or has
   been given up there is a message that will be tried, wherever a worker dies
   between the new message and the acknowledgement of the old one. *)
NeverDropped ==
    \/ done
    \/ lost # Nothing
    \/ \E m \in Messages : msg[m].state \in { "queued", "running" }

(* The longest countdowns of n retries together: the geometric sum, since the cap
   is not reached within five retries. *)
LongestWait(n) == Base * (2 ^ n - 1)

(* A database outage shorter than the shortest backoff (1+2+4+8+16 = 31 s for 5
   retries) never loses a task, and one longer than the longest (62 s) is not
   waited for: every message given up for database errors has waited that long,
   also one that went through redeliveries. *)
GivenUpOnlyAfterBackoff ==
    lost \in Nat =>
        lost \in (LongestWait(MaxRetries) \div 2)..LongestWait(MaxRetries)

(* The countdowns behind a message are those of its retries, whatever its history
   of redeliveries; only this makes GivenUpOnlyAfterBackoff inductive. *)
WaitedInv ==
    /\ \A m \in Messages :
          msg[m].waited \in
              (LongestWait(msg[m].retries) \div 2)..LongestWait(msg[m].retries)
    /\ GivenUpOnlyAfterBackoff

(* The task ends: retries are bounded, and so are the duplicates of a bounded
   number of lost workers. *)
TaskEnds == <>[](\A m \in Messages : msg[m].state = "free")

=============================================================================
