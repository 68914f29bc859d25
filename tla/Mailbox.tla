------------------------------ MODULE Mailbox ------------------------------
(***************************************************************************)
(* What the outbox promises to whoever writes an event into it: the event  *)
(* is sent at least once, never before its time, until it is settled, and  *)
(* it is settled if it is due.  No batches, locks, dispatchers or crashes: *)
(* Outbox has them, and implements this specification.                     *)
(***************************************************************************)
EXTENDS Naturals

CONSTANT Events

VARIABLES
    status,  \* of each event: not posted, PENDING, PUBLISHED or FAILED
    due,     \* its time has come
    sent     \* messages sent for it

vars == << status, due, sent >>

Init ==
    /\ status = [ e \in Events |-> "none" ]
    /\ due = [ e \in Events |-> FALSE ]
    /\ sent = [ e \in Events |-> 0 ]

Post(e, delayed) ==
    /\ status[e] = "none"
    /\ status' = [ status EXCEPT ![e] = "PENDING" ]
    /\ due' = [ due EXCEPT ![e] = ~delayed ]
    /\ UNCHANGED sent

Ripen(e) ==
    /\ status[e] # "none"
    /\ ~due[e]
    /\ due' = [ due EXCEPT ![e] = TRUE ]
    /\ UNCHANGED << status, sent >>

(* A message is sent for an event that is due and not settled: an event that is
   published or given up is never sent again. *)
Send(e) ==
    /\ status[e] = "PENDING"
    /\ due[e]
    /\ sent' = [ sent EXCEPT ![e] = @ + 1 ]
    /\ UNCHANGED << status, due >>

(* The events that wait and may be sent or settled. *)
Ripe == { e \in Events : status[e] = "PENDING" /\ due[e] }

(* Some of them are settled together, as published only after a message. *)
Settle(settled, published) ==
    /\ settled \subseteq Ripe
    /\ published \subseteq settled
    /\ \A e \in published : sent[e] > 0
    /\ status' = [ e \in Events |->
                     IF e \in published THEN "PUBLISHED"
                     ELSE IF e \in settled THEN "FAILED" ELSE status[e] ]
    /\ UNCHANGED << due, sent >>

Next ==
    \/ \E e \in Events, delayed \in BOOLEAN : Post(e, delayed)
    \/ \E e \in Events : Ripen(e) \/ Send(e)
    \/ \E settled \in SUBSET Ripe : \E published \in SUBSET settled :
          Settle(settled, published)

(* An event that is due is settled, alone or with others: either way this action
   is enabled no more. *)
Settles(e) == Settle({ e }, {}) \/ Settle({ e }, { e })

Fairness == \A e \in Events : WF_vars(Ripen(e)) /\ WF_vars(Settles(e))

Spec == Init /\ [][Next]_vars

FairSpec == Spec /\ Fairness

=============================================================================
