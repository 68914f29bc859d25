--------------------------- MODULE Outbox_proofs ---------------------------
(***************************************************************************)
(* The safety theorems of Outbox: its invariants, and that its dispatchers *)
(* implement the safety part of Mailbox.                                   *)
(***************************************************************************)
EXTENDS Outbox, TLAPS

(* FirstBatch takes rows that are pending, due and not locked. *)
LEMMA FirstBatchRows ==
    /\ FirstBatch \subseteq Events
    /\ \A e \in FirstBatch :
          status[e] = "PENDING" /\ due[e] /\ \A d \in Dispatchers : e \notin batch[d]
BY DEF FirstBatch, Ready, Locked

(* An attempt on a row is the only one going on. *)
LEMMA OnlyTry ==
    ASSUME DispatchInv, NEW d \in Dispatchers, NEW e \in todo[d]
    PROVE  /\ e \in batch[d] /\ e \in Events
           /\ status[e] = "PENDING" /\ due[e]
           /\ ~Tried(e)
BY DEF DispatchInv, TypeOK, BatchInv, Tried

(* Every step of Outbox preserves the invariant. *)
LEMMA DispatchStep ==
    ASSUME DispatchInv, [Next]_vars
    PROVE  DispatchInv'
<1> USE AttemptsAssumption, CrashesAssumption DEF rows, txVars, NoRow
<1>0. /\ TypeOK /\ BatchInv /\ AttemptInv /\ SentInv
      /\ OneMessagePerAttempt /\ PublishedWasSent /\ NeverEarly
  BY DEF DispatchInv
<1>1. ASSUME NEW e \in Events, NEW delayed \in BOOLEAN, Insert(e, delayed)
      PROVE  DispatchInv'
  <2>1. TypeOK'
    BY <1>0, <1>1 DEF Insert, TypeOK, Statuses
  <2>2. BatchInv'
    BY <1>0, <1>1 DEF Insert, TypeOK, BatchInv
  <2>3. AttemptInv'
    BY <1>0, <1>1 DEF Insert, TypeOK, AttemptInv
  <2>4. SentInv'
    BY <1>0, <1>1 DEF Insert, TypeOK, SentInv
  <2>5. OneMessagePerAttempt'
    BY <1>0, <1>1 DEF Insert, TypeOK, OneMessagePerAttempt, Tried
  <2>6. PublishedWasSent'
    BY <1>0, <1>1 DEF Insert, TypeOK, PublishedWasSent
  <2>7. NeverEarly'
    BY <1>0, <1>1 DEF Insert, TypeOK, NeverEarly, SentInv
  <2> QED
    BY <2>1, <2>2, <2>3, <2>4, <2>5, <2>6, <2>7 DEF DispatchInv
<1>2. ASSUME NEW e \in Events, BecomesDue(e)
      PROVE  DispatchInv'
  <2>1. TypeOK'
    BY <1>0, <1>2 DEF BecomesDue, TypeOK
  <2>2. BatchInv' /\ AttemptInv' /\ SentInv'
    BY <1>0, <1>2 DEF BecomesDue, TypeOK, BatchInv, AttemptInv, SentInv
  <2>3. OneMessagePerAttempt'
    BY <1>0, <1>2 DEF BecomesDue, OneMessagePerAttempt, Tried
  <2>4. PublishedWasSent' /\ NeverEarly'
    BY <1>0, <1>2 DEF BecomesDue, TypeOK, PublishedWasSent, NeverEarly
  <2> QED
    BY <2>1, <2>2, <2>3, <2>4 DEF DispatchInv
<1>3. ASSUME NEW d \in Dispatchers, Select(d)
      PROVE  DispatchInv'
  <2>1. /\ batch[d] = {}
        /\ batch' = [ batch EXCEPT ![d] = FirstBatch ]
        /\ todo' = [ todo EXCEPT ![d] = FirstBatch ]
        /\ UNCHANGED << status, attempts, due, out, broker, sent, crashes >>
    BY <1>3 DEF Select
  <2>2. TypeOK'
    BY <1>0, <2>1, FirstBatchRows DEF TypeOK
  <2>3. BatchInv'
    BY <1>0, <2>1, FirstBatchRows DEF TypeOK, BatchInv
  <2>4. AttemptInv' /\ SentInv' /\ PublishedWasSent' /\ NeverEarly'
    BY <1>0, <2>1 DEF AttemptInv, SentInv, PublishedWasSent, NeverEarly
  <2>5. \A e \in Events : Tried(e)' <=> Tried(e)
    BY <1>0, <2>1 DEF TypeOK, Tried
  <2>6. OneMessagePerAttempt'
    BY <1>0, <2>1, <2>5 DEF OneMessagePerAttempt
  <2> QED
    BY <2>2, <2>3, <2>4, <2>6 DEF DispatchInv
<1>4. ASSUME NEW d \in Dispatchers, NEW e \in Events,
             Publish(d, e) \/ \E reached \in BOOLEAN : PublishError(d, e, reached)
      PROVE  DispatchInv'
  <2>1. /\ e \in todo[d]
        /\ todo' = [ todo EXCEPT ![d] = @ \ { e } ]
        /\ \/ /\ sent' = [ sent EXCEPT ![e] = @ + 1 ]
              /\ out' = [ out EXCEPT ![d] = @ \cup { e } ] \/ out' = out
           \/ sent' = sent /\ out' = out
        /\ UNCHANGED << status, attempts, due, batch, broker, crashes >>
    BY <1>0, <1>4 DEF Publish, PublishError, IsNext, TypeOK
  <2>2. /\ e \in batch[d] /\ status[e] = "PENDING" /\ due[e] /\ ~Tried(e)
    BY <2>1, OnlyTry
  <2>3. TypeOK'
    BY <1>0, <2>1, <2>2 DEF TypeOK
  <2>4. BatchInv' /\ AttemptInv'
    BY <1>0, <2>1 DEF BatchInv, AttemptInv
  <2>5. \A f \in Events :
           /\ sent'[f] >= sent[f] /\ sent[f] \in Nat /\ sent'[f] \in Nat
           /\ f # e => sent'[f] = sent[f]
           /\ sent'[e] <= sent[e] + 1
    BY <1>0, <2>1 DEF TypeOK
  <2>6. SentInv'
    BY <1>0, <2>1, <2>2, <2>5 DEF SentInv, TypeOK
  <2>7. OneMessagePerAttempt'
    <3>1. Tried(e)' /\ \A f \in Events : Tried(f) => Tried(f)'
      BY <1>0, <2>1, <2>2 DEF Tried, TypeOK
    <3>2. ASSUME NEW f \in Events
          PROVE  sent'[f] <= attempts'[f] + crashes' + (IF Tried(f)' THEN 1 ELSE 0)
      <4>1. sent[f] <= attempts[f] + crashes + (IF Tried(f) THEN 1 ELSE 0)
        BY <1>0 DEF OneMessagePerAttempt
      <4>2. attempts[f] \in Nat /\ crashes \in Nat
        BY <1>0 DEF TypeOK
      <4>3. CASE f = e
        BY <2>1, <2>2, <2>5, <3>1, <4>1, <4>2, <4>3
      <4>4. CASE f # e
        BY <2>1, <2>5, <3>1, <4>1, <4>2, <4>4
      <4> QED
        BY <4>3, <4>4
    <3> QED
      BY <3>2 DEF OneMessagePerAttempt
  <2>8. PublishedWasSent' /\ NeverEarly'
    BY <1>0, <2>1, <2>2, <2>5 DEF PublishedWasSent, NeverEarly
  <2> QED
    BY <2>3, <2>4, <2>6, <2>7, <2>8 DEF DispatchInv
<1>5. ASSUME NEW d \in Dispatchers, Commit(d)
      PROVE  DispatchInv'
  <2>1. /\ todo[d] = {}
        /\ \A e \in Events : status'[e] = IF e \in batch[d] THEN new_status(d, e)
                                          ELSE status[e]
        /\ \A e \in Events : attempts'[e] = IF e \in batch[d] THEN attempts[e] + 1
                                            ELSE attempts[e]
        /\ batch' = [ batch EXCEPT ![d] = {} ]
        /\ out' = [ out EXCEPT ![d] = {} ]
        /\ UNCHANGED << due, todo, broker, sent, crashes >>
    BY <1>5 DEF Commit
  <2>2. ASSUME NEW e \in Events
        PROVE  attempts[e] \in Nat /\ attempts[e] <= MaxAttempts /\ attempts'[e] \in Nat
    BY <1>0, <2>1 DEF TypeOK
  <2>3. ASSUME NEW e \in batch[d]
        PROVE  /\ e \in Events /\ attempts[e] < MaxAttempts /\ attempts[e] \in Nat
               /\ status[e] = "PENDING" /\ due[e]
               /\ status'[e] = "PUBLISHED" => sent[e] > 0
               /\ status'[e] \in { "PUBLISHED", "PENDING", "FAILED" }
               /\ status'[e] = "PENDING" => attempts[e] + 1 < MaxAttempts
    <3>1. e \in Events /\ status[e] = "PENDING" /\ due[e]
      BY <1>0 DEF TypeOK, BatchInv
    <3>2. attempts[e] < MaxAttempts /\ attempts[e] \in Nat
      BY <1>0, <2>2, <3>1 DEF AttemptInv
    <3>3. status'[e] = new_status(d, e)
      BY <2>1, <3>1
    <3>4. e \in out[d] => sent[e] > 0
      BY <1>0 DEF SentInv
    <3> QED
      BY <3>1, <3>2, <3>3, <3>4 DEF new_status
  <2>4. TypeOK'
    <3>1. status' \in [ Events -> Statuses ] /\ attempts' \in [ Events -> 0..MaxAttempts ]
      <4>1. /\ status' = [ e \in Events |->
                             IF e \in batch[d] THEN new_status(d, e) ELSE status[e] ]
            /\ attempts' = [ e \in Events |->
                               IF e \in batch[d] THEN attempts[e] + 1 ELSE attempts[e] ]
        BY <1>5 DEF Commit
      <4>2. \A e \in Events : status[e] \in Statuses
        BY <1>0 DEF TypeOK
      <4>3. \A e \in batch[d] : new_status(d, e) \in Statuses
        BY DEF new_status, Statuses
      <4>4. \A e \in batch[d] : attempts[e] + 1 \in 0..MaxAttempts
        BY <2>3
      <4>5. \A e \in Events : attempts[e] \in 0..MaxAttempts
        BY <1>0 DEF TypeOK
      <4> QED
        BY <4>1, <4>2, <4>3, <4>4, <4>5
    <3> QED
      BY <1>0, <2>1, <3>1 DEF TypeOK
  <2>5. BatchInv'
    <3>1. ASSUME NEW x \in Dispatchers, NEW e \in batch'[x]
          PROVE  x # d /\ e \in batch[x] /\ e \in Events /\ e \notin batch[d]
      BY <1>0, <2>1 DEF TypeOK, BatchInv
    <3>2. \A x \in Dispatchers : \A e \in batch'[x] : status'[e] = "PENDING" /\ due'[e]
      BY <1>0, <2>1, <3>1 DEF BatchInv
    <3>3. \A x, y \in Dispatchers : \A e \in batch'[x] : e \in batch'[y] => x = y
      BY <1>0, <3>1 DEF BatchInv
    <3> QED
      BY <3>2, <3>3 DEF BatchInv
  <2>6. AttemptInv'
    BY <1>0, <2>1, <2>3 DEF AttemptInv
  <2>7. SentInv'
    <3>1. \A x \in Dispatchers : \A e \in out'[x] : e \in out[x]
      BY <1>0, <2>1 DEF TypeOK
    <3>2. \A e \in Events : status'[e] = NoRow => status[e] = NoRow
      BY <2>1, <2>3
    <3> QED
      BY <1>0, <2>1, <3>1, <3>2 DEF SentInv
  <2>8. OneMessagePerAttempt'
    <3>1. ASSUME NEW e \in Events
          PROVE  sent'[e] <= attempts'[e] + crashes' + (IF Tried(e)' THEN 1 ELSE 0)
      <4>1. sent[e] <= attempts[e] + crashes + (IF Tried(e) THEN 1 ELSE 0)
        BY <1>0 DEF OneMessagePerAttempt
      <4>2. attempts[e] \in Nat /\ crashes \in Nat /\ sent[e] \in Nat
        BY <1>0 DEF TypeOK
      <4>3. CASE e \in batch[d]
        BY <2>1, <4>1, <4>2, <4>3
      <4>4. CASE e \notin batch[d]
        <5>1. Tried(e) => Tried(e)'
          BY <1>0, <2>1, <4>4 DEF Tried, TypeOK
        <5> QED
          BY <2>1, <4>1, <4>2, <4>4, <5>1
      <4> QED
        BY <4>3, <4>4
    <3> QED
      BY <3>1 DEF OneMessagePerAttempt
  <2>9. PublishedWasSent'
    BY <1>0, <2>1, <2>3 DEF PublishedWasSent
  <2>10. NeverEarly'
    BY <1>0, <2>1 DEF NeverEarly
  <2> QED
    BY <2>4, <2>5, <2>6, <2>7, <2>8, <2>9, <2>10 DEF DispatchInv
<1>6. ASSUME NEW d \in Dispatchers, Crash(d)
      PROVE  DispatchInv'
  <2>1. /\ crashes < MaxCrashes /\ crashes' = crashes + 1
        /\ batch' = [ batch EXCEPT ![d] = {} ]
        /\ todo' = [ todo EXCEPT ![d] = {} ]
        /\ out' = [ out EXCEPT ![d] = {} ]
        /\ UNCHANGED << status, attempts, due, broker, sent >>
    BY <1>6 DEF Crash
  <2>2. TypeOK'
    BY <1>0, <2>1 DEF TypeOK
  <2>3. BatchInv' /\ AttemptInv'
    BY <1>0, <2>1 DEF TypeOK, BatchInv, AttemptInv
  <2>4. SentInv' /\ PublishedWasSent' /\ NeverEarly'
    BY <1>0, <2>1 DEF TypeOK, SentInv, PublishedWasSent, NeverEarly
  <2>5. OneMessagePerAttempt'
    <3>1. ASSUME NEW e \in Events
          PROVE  sent'[e] <= attempts'[e] + crashes' + (IF Tried(e)' THEN 1 ELSE 0)
      <4>1. sent[e] <= attempts[e] + crashes + (IF Tried(e) THEN 1 ELSE 0)
        BY <1>0 DEF OneMessagePerAttempt
      <4>2. attempts[e] \in Nat /\ crashes \in Nat /\ sent[e] \in Nat
        BY <1>0 DEF TypeOK
      <4> QED
        BY <2>1, <4>1, <4>2
    <3> QED
      BY <3>1 DEF OneMessagePerAttempt
  <2> QED
    BY <2>2, <2>3, <2>4, <2>5 DEF DispatchInv
<1>7. CASE BrokerFails \/ BrokerRecovers \/ UNCHANGED vars
  <2>1. /\ UNCHANGED << status, attempts, due, batch, todo, out, sent, crashes >>
        /\ broker' \in BOOLEAN
    BY <1>0, <1>7 DEF BrokerFails, BrokerRecovers, vars, TypeOK
  <2>2. TypeOK'
    BY <1>0, <2>1 DEF TypeOK
  <2>3. BatchInv' /\ AttemptInv' /\ SentInv'
    BY <1>0, <2>1 DEF BatchInv, AttemptInv, SentInv
  <2>4. OneMessagePerAttempt' /\ PublishedWasSent' /\ NeverEarly'
    BY <1>0, <2>1 DEF OneMessagePerAttempt, Tried, PublishedWasSent, NeverEarly
  <2> QED
    BY <2>2, <2>3, <2>4 DEF DispatchInv
<1> QED
  BY <1>1, <1>2, <1>3, <1>4, <1>5, <1>6, <1>7 DEF Next, DispatcherNext

(* In every reachable state a row is in one batch at most, unchanged since it was
   locked, with every message and every attempt accounted for. *)
THEOREM DispatchSafe == Spec => []DispatchInv
<1>1. Init => DispatchInv
  <2> USE AttemptsAssumption, CrashesAssumption DEF Init, NoRow
  <2>1. Init => TypeOK
    BY DEF TypeOK, Statuses
  <2>2. Init => BatchInv /\ AttemptInv /\ SentInv
    BY DEF BatchInv, AttemptInv, SentInv
  <2>3. Init => OneMessagePerAttempt /\ PublishedWasSent /\ NeverEarly
    BY DEF OneMessagePerAttempt, Tried, PublishedWasSent, NeverEarly
  <2> QED
    BY <2>1, <2>2, <2>3 DEF DispatchInv
<1>2. DispatchInv /\ [Next]_vars => DispatchInv'
  BY DispatchStep
<1> QED
  BY <1>1, <1>2, PTL DEF Spec

(* The columns hold what the table allows, attempts stay within the limit, and a
   dispatcher works only on rows it has locked. *)
THEOREM OutboxTypes == Spec => []TypeOK
<1>1. DispatchInv => TypeOK
  BY DEF DispatchInv
<1> QED
  BY <1>1, DispatchSafe, PTL

(* Two dispatchers never publish one event in the same attempt: each message is
   accounted for by a recorded attempt, a crash or the attempt going on. *)
THEOREM OneMessageEach == Spec => []OneMessagePerAttempt
<1>1. DispatchInv => OneMessagePerAttempt
  BY DEF DispatchInv
<1> QED
  BY <1>1, DispatchSafe, PTL

(* A row says PUBLISHED only if a message of it has reached the broker. *)
THEOREM PublishedOnlyIfSent == Spec => []PublishedWasSent
<1>1. DispatchInv => PublishedWasSent
  BY DEF DispatchInv
<1> QED
  BY <1>1, DispatchSafe, PTL

(* No message of an event leaves before its deliver_at has passed. *)
THEOREM NeverBeforeTime == Spec => []NeverEarly
<1>1. DispatchInv => NeverEarly
  BY DEF DispatchInv
<1> QED
  BY <1>1, DispatchSafe, PTL

(* Every step of a dispatcher is a step of the mailbox, or invisible to it. *)
LEMMA MailStep ==
    ASSUME DispatchInv, [Next]_vars
    PROVE  Mail!Next \/ UNCHANGED << status, due, sent >>
<1> USE DEF rows, txVars
<1>1. ASSUME NEW e \in Events, NEW delayed \in BOOLEAN, Insert(e, delayed)
      PROVE  Mail!Post(e, delayed)
  BY <1>1 DEF Insert, Mail!Post, NoRow
<1>2. ASSUME NEW e \in Events, BecomesDue(e)
      PROVE  Mail!Ripen(e)
  BY <1>2 DEF BecomesDue, Mail!Ripen, NoRow
<1>3. ASSUME NEW d \in Dispatchers, NEW e \in Events,
             Publish(d, e) \/ \E reached \in BOOLEAN : PublishError(d, e, reached)
      PROVE  Mail!Send(e) \/ UNCHANGED << status, due, sent >>
  <2>1. e \in todo[d] /\ UNCHANGED << status, due >>
    BY <1>3 DEF Publish, PublishError, IsNext
  <2>2. status[e] = "PENDING" /\ due[e]
    BY <2>1, OnlyTry
  <2>3. sent' = [ sent EXCEPT ![e] = @ + 1 ] \/ sent' = sent
    BY <1>3 DEF Publish, PublishError, DispatchInv, TypeOK
  <2> QED
    BY <2>1, <2>2, <2>3 DEF Mail!Send
<1>4. ASSUME NEW d \in Dispatchers, Commit(d)
      PROVE  \E settled \in SUBSET Mail!Ripe : \E published \in SUBSET settled :
                Mail!Settle(settled, published)
  <2> DEFINE published == batch[d] \cap out[d]
             settled == { e \in batch[d] : new_status(d, e) # "PENDING" }
  <2>1. \A e \in batch[d] : e \in Events /\ status[e] = "PENDING" /\ due[e]
    BY DEF DispatchInv, TypeOK, BatchInv
  <2>2. settled \in SUBSET Mail!Ripe
    BY <2>1 DEF Mail!Ripe
  <2>3. published \in SUBSET settled
    BY DEF new_status
  <2>4. \A e \in published : sent[e] > 0
    BY DEF DispatchInv, SentInv
  <2>5. ASSUME NEW e \in Events
        PROVE  (IF e \in batch[d] THEN new_status(d, e) ELSE status[e]) =
               (IF e \in published THEN "PUBLISHED"
                ELSE IF e \in settled THEN "FAILED" ELSE status[e])
    BY <2>1 DEF new_status
  <2>6. status' = [ e \in Events |->
                      IF e \in published THEN "PUBLISHED"
                      ELSE IF e \in settled THEN "FAILED" ELSE status[e] ]
    BY <1>4, <2>5 DEF Commit
  <2>7. UNCHANGED << due, sent >>
    BY <1>4 DEF Commit
  <2> HIDE DEF published, settled
  <2>8. Mail!Settle(settled, published)
    BY <2>2, <2>3, <2>4, <2>6, <2>7 DEF Mail!Settle
  <2> QED
    BY <2>2, <2>3, <2>8
<1>5. ASSUME NEW d \in Dispatchers, Select(d) \/ Crash(d)
      PROVE  UNCHANGED << status, due, sent >>
  BY <1>5 DEF Select, Crash
<1>6. CASE BrokerFails \/ BrokerRecovers \/ UNCHANGED vars
  BY <1>6 DEF BrokerFails, BrokerRecovers, vars
<1> QED
  BY <1>1, <1>2, <1>3, <1>4, <1>5, <1>6 DEF Next, DispatcherNext, Mail!Next

(* The safety half of ImplementsMailbox: dispatchers, batches, crashes and retries
   do nothing that a mailbox does not do; in particular an event that a commit has
   settled is never sent again. *)
THEOREM RefinesMailbox == Spec => Mail!Spec
<1>1. Init => Mail!Init
  BY DEF Init, Mail!Init, NoRow
<1>2. DispatchInv /\ [Next]_vars => [Mail!Next]_(Mail!vars)
  BY MailStep DEF Mail!vars
<1> QED
  BY <1>1, <1>2, DispatchSafe, PTL DEF Spec, Mail!Spec

=============================================================================
