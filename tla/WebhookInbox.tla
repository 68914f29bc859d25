--------------------------- MODULE WebhookInbox ---------------------------
(***************************************************************************)
(* The webhook endpoint (app/webhooks/razorpay.py) and the payment side of *)
(* its handlers (app/webhooks/handlers.py), served by several API          *)
(* processes.  Each request is one transaction: the inbox row first, then  *)
(* the payment, then the recovery case.  A unique constraint makes an      *)
(* INSERT wait for a transaction that has inserted the same key, and fail  *)
(* if that one commits.                                                    *)
(*                                                                         *)
(* Razorpay (external) sends an event until it is answered 2xx, and now    *)
(* and then once more.  Requests refused before the transaction (bad       *)
(* signature, unreadable body, unknown merchant) change nothing and are    *)
(* left out.  The workers are too, see RecoveryCore: a case is ELIGIBLE    *)
(* until a capture closes it.  A payment made through the recovery link of *)
(* a case has that case in its notes, and may fail and be captured like    *)
(* any other.                                                              *)
(***************************************************************************)
EXTENDS Integers

CONSTANTS
    EventIds,   \* provider_event_id of the events Razorpay sends
    Payments,   \* provider_payment_id of the payments they are about
    Kind,       \* the kind of each event
    PaymentOf,  \* the payment of each event
    NotesOf,    \* the payment whose case is named in the payment's notes
    Handlers,   \* API processes
    MaxFaults   \* bound on failed requests, lost answers and repeats

NoRow == "none"
None == "none"

(* invalid: the amount or the currency is refused by app/domain/money.py. *)
Kinds == { "failed", "captured", "unsupported", "invalid" }

ASSUME KindAssumption == Kind \in [ EventIds -> Kinds ]
ASSUME PaymentOfAssumption == PaymentOf \in [ EventIds -> Payments ]
ASSUME NotesOfAssumption == NotesOf \in [ Payments -> Payments \cup { None } ]
ASSUME NoneAssumption == None \notin Payments
ASSUME FaultsAssumption == MaxFaults \in Nat

VARIABLES
    inbox,    \* webhook_events.status
    payment,  \* payments.status
    case,     \* recovery_cases.status
    pc,       \* where each request is
    event,    \* the event of each request
    seen,     \* the payment status the request has read
    acked,    \* events Razorpay has a 2xx answer for
    applied,  \* committed transactions that processed the event
    faults    \* faults so far

rows == << inbox, payment, case >>
requestVars == << pc, event, seen >>
vars == << rows, requestVars, acked, applied, faults >>

Init ==
    /\ inbox = [ e \in EventIds |-> NoRow ]
    /\ payment = [ p \in Payments |-> NoRow ]
    /\ case = [ p \in Payments |-> NoRow ]
    /\ pc = [ h \in Handlers |-> "idle" ]
    /\ event = [ h \in Handlers |-> None ]
    /\ seen = [ h \in Handlers |-> NoRow ]
    /\ acked = {}
    /\ applied = [ e \in EventIds |-> 0 ]
    /\ faults = 0

-----------------------------------------------------------------------------
(* The request ends and its process is free. *)
EndRequest(h) ==
    /\ pc' = [ pc EXCEPT ![h] = "idle" ]
    /\ event' = [ event EXCEPT ![h] = None ]
    /\ seen' = [ seen EXCEPT ![h] = NoRow ]

(* Notes that name a case were written when its link was created (create_link),
   so nobody pays with them before the case is there.  Notes that are missing,
   unreadable, or name no case of this merchant are None. *)
MayHappen(e) ==
    LET notes == NotesOf[PaymentOf[e]]
    IN  notes # None => case[notes] # NoRow

(* Razorpay sends an event that is not answered yet. *)
Deliver(h, e) ==
    /\ pc[h] = "idle"
    /\ e \notin acked
    /\ MayHappen(e)
    /\ pc' = [ pc EXCEPT ![h] = "received" ]
    /\ event' = [ event EXCEPT ![h] = e ]
    /\ UNCHANGED << rows, seen, acked, applied, faults >>

(* Razorpay sends an event again although it is answered. *)
Repeat(h, e) ==
    /\ pc[h] = "idle"
    /\ e \in acked
    /\ faults < MaxFaults
    /\ faults' = faults + 1
    /\ pc' = [ pc EXCEPT ![h] = "received" ]
    /\ event' = [ event EXCEPT ![h] = e ]
    /\ UNCHANGED << rows, seen, acked, applied >>

(* Mutant of SUPPORTED_EVENTS: no event is refused. *)
AllEvents == Kinds

SUPPORTED_EVENTS == { "failed", "captured" }

(* Another request has inserted the inbox row and is still open. *)
InboxLocked(h, e) ==
    \E x \in Handlers \ { h } :
        event[x] = e /\ pc[x] \in { "inboxed", "writing", "written" }

(* Mutant of is_duplicate: the inbox has no unique constraint. *)
never_duplicate(e) == FALSE

(* The flush of the inbox row violates uq_webhook_events_provider_event. *)
is_duplicate(e) == inbox[e] # NoRow

(* Mutant of answer_duplicate: an error status for a duplicate. *)
answer_conflict(e) == acked

(* DuplicateWebhookError is answered 200. *)
answer_duplicate(e) == acked \cup { e }

DuplicateEvent(h) ==
    LET e == event[h]
    IN  /\ pc[h] = "received"
        /\ ~InboxLocked(h, e)
        /\ is_duplicate(e)
        /\ acked' = answer_duplicate(e)
        /\ EndRequest(h)
        /\ UNCHANGED << rows, applied, faults >>

(* A new event: the inbox row is flushed, and process_razorpay_event starts on a
   supported one. *)
InsertInbox(h) ==
    LET e == event[h]
    IN  /\ pc[h] = "received"
        /\ ~InboxLocked(h, e)
        /\ ~is_duplicate(e)
        /\ Kind[e] \in SUPPORTED_EVENTS
        /\ pc' = [ pc EXCEPT ![h] = "inboxed" ]
        /\ UNCHANGED << rows, event, seen, acked, applied, faults >>

(* An event that is not supported is stored as IGNORED, and answered. *)
IgnoreEvent(h) ==
    LET e == event[h]
    IN  /\ pc[h] = "received"
        /\ ~InboxLocked(h, e)
        /\ ~is_duplicate(e)
        /\ Kind[e] = "unsupported"
        /\ inbox' = [ inbox EXCEPT ![e] = "IGNORED" ]
        /\ applied' = [ applied EXCEPT ![e] = @ + 1 ]
        /\ acked' = acked \cup { e }
        /\ EndRequest(h)
        /\ UNCHANGED << payment, case, faults >>

(* MoneyError: rolled back with its inbox row, and answered 400. *)
RejectEvent(h) ==
    LET e == event[h]
    IN  /\ pc[h] = "received"
        /\ ~InboxLocked(h, e)
        /\ ~is_duplicate(e)
        /\ Kind[e] = "invalid"
        /\ EndRequest(h)
        /\ UNCHANGED << rows, acked, applied, faults >>

-----------------------------------------------------------------------------
(* get_payment_by_provider. *)
ReadPayment(h) ==
    /\ pc[h] = "inboxed"
    /\ seen' = [ seen EXCEPT ![h] = payment[PaymentOf[event[h]]] ]
    /\ pc' = [ pc EXCEPT ![h] = "writing" ]
    /\ UNCHANGED << rows, event, acked, applied, faults >>

(* Another request has written the payment row and is still open.  A request
   that found the payment captured writes nothing. *)
PaymentLocked(h, p) ==
    \E x \in Handlers \ { h } :
        /\ pc[x] = "written"
        /\ PaymentOf[event[x]] = p
        /\ seen[x] # "CAPTURED"

(* The flush of the payment: an INSERT for one not seen, which goes through only
   if there still is none, an UPDATE for a failed one, nothing for a captured
   one. *)
WritePayment(h) ==
    LET p == PaymentOf[event[h]]
    IN  /\ pc[h] = "writing"
        /\ seen[h] # "CAPTURED" => ~PaymentLocked(h, p)
        /\ seen[h] = NoRow => payment[p] = NoRow
        /\ pc' = [ pc EXCEPT ![h] = "written" ]
        /\ UNCHANGED << rows, event, seen, acked, applied, faults >>

(* The INSERT of a payment that exists by now: any IntegrityError after the
   inbox flush is rolled back and answered 200, as a duplicate. *)
PaymentConflict(h) ==
    LET p == PaymentOf[event[h]]
    IN  /\ pc[h] = "writing"
        /\ seen[h] = NoRow
        /\ ~PaymentLocked(h, p)
        /\ payment[p] # NoRow
        /\ acked' = acked \cup { event[h] }
        /\ EndRequest(h)
        /\ UNCHANGED << rows, applied, faults >>

(* Mutant of flushed_status: the status is written whatever was read. *)
status_always_written(h) ==
    IF Kind[event[h]] = "captured" THEN "CAPTURED" ELSE "FAILED"

(* payments.status after the commit.  The flush of an object writes only the
   attributes that differ from what was read, so a late payment.failed that read
   FAILED leaves the status alone, and one that read CAPTURED returns. *)
flushed_status(h) ==
    LET now == payment[PaymentOf[event[h]]]
    IN  IF Kind[event[h]] = "captured" THEN "CAPTURED"
        ELSE IF seen[h] = NoRow THEN "FAILED"
        ELSE now

(* Mutant of case_of: the notes are not read. *)
own_case(p, kind) == p

(* The payment whose case the handler works on.  handle_payment_captured takes
   the case in the notes, and looks no further; handle_payment_failed reads no
   notes. *)
case_of(p, kind) ==
    IF kind = "captured" /\ NotesOf[p] # None THEN NotesOf[p] ELSE p

(* recovery_cases.status of case_of after the commit: a failed payment gets a
   case once, a captured one closes the case it is for. *)
case_status(h) ==
    LET kind == Kind[event[h]]
        now == case[case_of(PaymentOf[event[h]], kind)]
    IN  CASE kind = "failed" /\ seen[h] # "CAPTURED" /\ now = NoRow -> "ELIGIBLE"
          [] kind = "captured" /\ now = "ELIGIBLE" -> "RECOVERED"
          [] OTHER -> now

(* The rest of the handler, and the commit; the answer may get lost. *)
CommitEvent(h, answered) ==
    LET e == event[h]
        p == PaymentOf[event[h]]
    IN  /\ pc[h] = "written"
        /\ answered \/ faults < MaxFaults
        /\ faults' = IF answered THEN faults ELSE faults + 1
        /\ inbox' = [ inbox EXCEPT ![e] = "PROCESSED" ]
        /\ payment' = [ payment EXCEPT ![p] = flushed_status(h) ]
        /\ case' = [ case EXCEPT ![case_of(p, Kind[e])] = case_status(h) ]
        /\ applied' = [ applied EXCEPT ![e] = @ + 1 ]
        /\ acked' = IF answered THEN acked \cup { e } ELSE acked
        /\ EndRequest(h)

(* The process dies or the database fails: a rollback, and no 2xx. *)
RequestFails(h) ==
    /\ pc[h] # "idle"
    /\ faults < MaxFaults
    /\ faults' = faults + 1
    /\ EndRequest(h)
    /\ UNCHANGED << rows, acked, applied >>

HandlerNext(h) ==
    \/ DuplicateEvent(h)
    \/ InsertInbox(h)
    \/ IgnoreEvent(h)
    \/ RejectEvent(h)
    \/ ReadPayment(h)
    \/ WritePayment(h)
    \/ PaymentConflict(h)
    \/ \E answered \in BOOLEAN : CommitEvent(h, answered)

Next ==
    \E h \in Handlers :
        \/ \E e \in EventIds : Deliver(h, e) \/ Repeat(h, e)
        \/ HandlerNext(h)
        \/ RequestFails(h)

Spec == Init /\ [][Next]_vars

(* A request that runs goes on, and an event that Razorpay keeps sending is
   served again and again, although other events keep the processes busy.  Those
   that are always refused need not be. *)
Fairness ==
    /\ \A h \in Handlers : WF_vars(HandlerNext(h))
    /\ \A e \in { e \in EventIds : Kind[e] # "invalid" } :
          SF_vars(\E h \in Handlers : Deliver(h, e))

FairSpec == Spec /\ Fairness

-----------------------------------------------------------------------------
(* The columns hold what the tables allow, and a request that is past its inbox
   row has an event the handlers support. *)
TypeOK ==
    /\ inbox \in [ EventIds -> { NoRow, "PROCESSED", "IGNORED" } ]
    /\ payment \in [ Payments -> { NoRow, "FAILED", "CAPTURED" } ]
    /\ case \in [ Payments -> { NoRow, "ELIGIBLE", "RECOVERED" } ]
    /\ pc \in [ Handlers -> { "idle", "received", "inboxed", "writing", "written" } ]
    /\ event \in [ Handlers -> EventIds \cup { None } ]
    /\ seen \in [ Handlers -> { NoRow, "FAILED", "CAPTURED" } ]
    /\ \A h \in Handlers :
          /\ pc[h] # "idle" => event[h] \in EventIds
          /\ pc[h] \in { "inboxed", "writing", "written" } =>
                Kind[event[h]] \in { "failed", "captured" }
    /\ acked \subseteq EventIds
    /\ applied \in [ EventIds -> Nat ]
    /\ faults \in 0..MaxFaults

(* The inbox makes delivery idempotent: an event is processed once at most,
   however often it is sent, also to two processes at the same time. *)
AppliedOnce == \A e \in EventIds : applied[e] <= 1

(* The case a capture of the payment is for. *)
Recovers(p) == IF NotesOf[p] = None THEN p ELSE NotesOf[p]

(* Payments and cases agree in every committed state, whatever order failures and
   captures arrive in: a failed payment has a case, the case a captured payment
   is for is not open, and a case is RECOVERED only by a payment that is captured
   and stays so, be it its own or one through its link (the failed payment itself
   then stays FAILED).  A late payment.failed takes nothing back. *)
PaymentAgreesWithCase ==
    \A p \in Payments :
        /\ payment[p] = "FAILED" => case[p] # NoRow
        /\ payment[p] = "CAPTURED" => case[Recovers(p)] # "ELIGIBLE"
        /\ case[p] = "RECOVERED" =>
              \E q \in Payments : payment[q] = "CAPTURED" /\ Recovers(q) = p

(* Every event that happens and can be processed is answered 2xx in the end:
   Razorpay does not go on for ever, not even if the first answer was lost. *)
EventuallyAnswered ==
    <>[](\A e \in EventIds :
            Kind[e] # "invalid" /\ MayHappen(e) => e \in acked)

(* docs/decisions.md, D-014: an event that is answered 200 as a duplicate was
   already successfully processed. *)
AnsweredIsProcessed == \A e \in acked : inbox[e] # NoRow

-----------------------------------------------------------------------------
(* The inductive invariant behind AppliedOnce and PaymentAgreesWithCase. *)

(* The stages of a request that has inserted its inbox row and is still open. *)
OpenStages == { "inboxed", "writing", "written" }

(* The unique constraint of the inbox: one open request per event, none for an
   event that is stored, and an event is stored exactly if it was processed. *)
InboxInv ==
    /\ \A h, x \in Handlers :
          pc[h] \in OpenStages /\ pc[x] \in OpenStages /\ event[h] = event[x] => h = x
    /\ \A h \in Handlers : pc[h] \in OpenStages => inbox[event[h]] = NoRow
    /\ \A e \in EventIds : applied[e] = IF inbox[e] = NoRow THEN 0 ELSE 1

(* What a request has read of its payment may be stale, but a captured payment
   stays captured and a failed one keeps its case. *)
SeenInv ==
    \A h \in Handlers : pc[h] \in { "writing", "written" } =>
        /\ seen[h] = "CAPTURED" => payment[PaymentOf[event[h]]] = "CAPTURED"
        /\ seen[h] = "FAILED" => case[PaymentOf[event[h]]] # NoRow

(* One open request at most has written a payment row, and a row it has inserted
   is not there for anyone else. *)
WrittenInv ==
    /\ \A h, x \in Handlers :
          /\ pc[h] = "written" /\ seen[h] # "CAPTURED"
          /\ pc[x] = "written" /\ seen[x] # "CAPTURED"
          /\ PaymentOf[event[h]] = PaymentOf[event[x]]
          => h = x
    /\ \A h \in Handlers :
          pc[h] = "written" /\ seen[h] = NoRow => payment[PaymentOf[event[h]]] = NoRow

(* A request, or a payment row, whose notes name a case is there after the case. *)
NotesInv ==
    /\ \A h \in Handlers : pc[h] # "idle" => MayHappen(event[h])
    /\ \A e \in acked : MayHappen(e)
    /\ \A p \in Payments :
          payment[p] # NoRow /\ NotesOf[p] # None => case[NotesOf[p]] # NoRow

(* What every step of a request preserves. *)
RequestInv ==
    /\ InboxInv
    /\ SeenInv
    /\ WrittenInv
    /\ NotesInv
    /\ PaymentAgreesWithCase

=============================================================================
