------------------------ MODULE WebhookInbox_proofs ------------------------
(***************************************************************************)
(* The safety theorems of WebhookInbox, for any number of API processes,   *)
(* events and payments.                                                    *)
(***************************************************************************)
EXTENDS WebhookInbox, TLAPS

(* Rows, requests and answers have the values the code gives them. *)
THEOREM InboxTypes == Spec => []TypeOK
<1>1. Init => TypeOK
  BY FaultsAssumption DEF Init, TypeOK, NoRow, None
<1>2. TypeOK /\ [Next]_vars => TypeOK'
  <2> SUFFICES ASSUME TypeOK, [Next]_vars
               PROVE  TypeOK'
    OBVIOUS
  <2> USE FaultsAssumption, PaymentOfAssumption, KindAssumption
      DEF TypeOK, rows, requestVars, EndRequest
  <2>1. ASSUME NEW h \in Handlers, NEW e \in EventIds, Deliver(h, e)
        PROVE  TypeOK'
    BY <2>1 DEF Deliver
  <2>2. ASSUME NEW h \in Handlers, NEW e \in EventIds, Repeat(h, e)
        PROVE  TypeOK'
    BY <2>2 DEF Repeat
  <2>3. ASSUME NEW h \in Handlers, DuplicateEvent(h)
        PROVE  TypeOK'
    BY <2>3 DEF DuplicateEvent, answer_duplicate
  <2>4. ASSUME NEW h \in Handlers, InsertInbox(h)
        PROVE  TypeOK'
    BY <2>4 DEF InsertInbox, SUPPORTED_EVENTS
  <2>5. ASSUME NEW h \in Handlers, IgnoreEvent(h)
        PROVE  TypeOK'
    BY <2>5 DEF IgnoreEvent
  <2>6. ASSUME NEW h \in Handlers, RejectEvent(h)
        PROVE  TypeOK'
    BY <2>6 DEF RejectEvent
  <2>7. ASSUME NEW h \in Handlers, ReadPayment(h)
        PROVE  TypeOK'
    BY <2>7 DEF ReadPayment
  <2>8. ASSUME NEW h \in Handlers, WritePayment(h)
        PROVE  TypeOK'
    BY <2>8 DEF WritePayment
  <2>9. ASSUME NEW h \in Handlers, PaymentConflict(h)
        PROVE  TypeOK'
    BY <2>9 DEF PaymentConflict
  <2>10. ASSUME NEW h \in Handlers, NEW answered \in BOOLEAN, CommitEvent(h, answered)
         PROVE  TypeOK'
    <3>1. event[h] \in EventIds /\ PaymentOf[event[h]] \in Payments
      BY <2>10 DEF CommitEvent
    <3>2. flushed_status(h) \in { NoRow, "FAILED", "CAPTURED" }
      BY <3>1 DEF flushed_status
    <3>3. /\ case_of(PaymentOf[event[h]], Kind[event[h]]) \in Payments
          /\ case_status(h) \in { NoRow, "ELIGIBLE", "RECOVERED" }
      BY <3>1, NotesOfAssumption DEF case_of, case_status
    <3> QED
      BY <2>10, <3>1, <3>2, <3>3 DEF CommitEvent
  <2>11. ASSUME NEW h \in Handlers, RequestFails(h)
         PROVE  TypeOK'
    BY <2>11 DEF RequestFails
  <2>12. CASE UNCHANGED vars
    BY <2>12 DEF vars
  <2> QED
    BY <2>1, <2>2, <2>3, <2>4, <2>5, <2>6, <2>7, <2>8, <2>9, <2>10, <2>11, <2>12
    DEF Next, HandlerNext
<1> QED
  BY <1>1, <1>2, PTL DEF Spec

(* What may happen stays possible as long as no case row goes away. *)
LEMMA MayStays ==
    ASSUME \A p \in Payments : case[p] # NoRow => case'[p] # NoRow,
           NEW e \in EventIds, MayHappen(e)
    PROVE  MayHappen(e)'
BY PaymentOfAssumption, NotesOfAssumption DEF MayHappen

(* A request that ends without a commit, or one that starts, lets go of what it
   had and takes nothing. *)
LEMMA FreeSafe ==
    ASSUME TypeOK, RequestInv, NEW h \in Handlers,
           NEW stage \in { "idle", "received" }, NEW e, NEW s,
           pc' = [ pc EXCEPT ![h] = stage ],
           event' = [ event EXCEPT ![h] = e ],
           seen' = [ seen EXCEPT ![h] = s ],
           stage = "received" => MayHappen(e),
           \A x \in acked' : MayHappen(x),
           UNCHANGED << rows, applied >>
    PROVE  RequestInv'
<1> USE DEF TypeOK, RequestInv, rows, OpenStages
<1>1. InboxInv'
  BY DEF InboxInv
<1>2. SeenInv'
  BY DEF SeenInv
<1>3. WrittenInv'
  BY DEF WrittenInv
<1>4. NotesInv'
  BY DEF NotesInv, MayHappen
<1>5. PaymentAgreesWithCase'
  BY DEF PaymentAgreesWithCase
<1> QED
  BY <1>1, <1>2, <1>3, <1>4, <1>5

(* The commit of an event: the handlers' writes keep payments and cases together,
   also when the case is that of another payment. *)
LEMMA CommitSafe ==
    ASSUME TypeOK, RequestInv, NEW h \in Handlers, NEW answered \in BOOLEAN,
           CommitEvent(h, answered)
    PROVE  RequestInv'
<1> DEFINE p == PaymentOf[event[h]]
           k == Kind[event[h]]
           d == case_of(p, k)
<1> USE PaymentOfAssumption, NotesOfAssumption DEF EndRequest
<1>1. /\ pc[h] = "written" /\ event[h] \in EventIds /\ p \in Payments
      /\ k \in { "failed", "captured" }
      /\ d \in Payments
      /\ k = "failed" => d = p
      /\ k = "captured" => d = Recovers(p)
  BY DEF CommitEvent, TypeOK, case_of, Recovers
<1>2. /\ inbox' = [ inbox EXCEPT ![event[h]] = "PROCESSED" ]
      /\ payment' = [ payment EXCEPT ![p] = flushed_status(h) ]
      /\ case' = [ case EXCEPT ![d] = case_status(h) ]
      /\ applied' = [ applied EXCEPT ![event[h]] = @ + 1 ]
      /\ pc' = [ pc EXCEPT ![h] = "idle" ]
      /\ event' = [ event EXCEPT ![h] = None ]
      /\ seen' = [ seen EXCEPT ![h] = NoRow ]
      /\ acked' \subseteq acked \cup { event[h] }
  BY DEF CommitEvent
<1>3. /\ seen[h] \in { NoRow, "FAILED", "CAPTURED" }
      /\ payment[p] \in { NoRow, "FAILED", "CAPTURED" }
      /\ case[d] \in { NoRow, "ELIGIBLE", "RECOVERED" }
      /\ seen[h] = "CAPTURED" => payment[p] = "CAPTURED"
      /\ seen[h] = "FAILED" => case[p] # NoRow
      /\ seen[h] = NoRow => payment[p] = NoRow
  BY <1>1 DEF TypeOK, RequestInv, SeenInv, WrittenInv
<1>3a. /\ k = "captured" => flushed_status(h) = "CAPTURED"
       /\ k = "failed" =>
             flushed_status(h) = IF seen[h] = NoRow THEN "FAILED" ELSE payment[p]
  BY <1>1 DEF flushed_status
<1>3b. /\ k = "captured" =>
             case_status(h) = IF case[d] = "ELIGIBLE" THEN "RECOVERED" ELSE case[d]
       /\ k = "failed" =>
             case_status(h) = IF seen[h] # "CAPTURED" /\ case[d] = NoRow
                              THEN "ELIGIBLE" ELSE case[d]
  BY <1>1 DEF case_status
<1> HIDE DEF p, k, d
<1>4. /\ payment[p] = "CAPTURED" => flushed_status(h) = "CAPTURED"
      /\ k = "captured" => flushed_status(h) = "CAPTURED" /\ case_status(h) # "ELIGIBLE"
      /\ flushed_status(h) = "FAILED" => k = "failed" /\ case_status(h) # NoRow
      /\ k = "failed" /\ flushed_status(h) = "CAPTURED" =>
            payment[p] = "CAPTURED" /\ case_status(h) = case[p]
      /\ case_status(h) = "RECOVERED" => case[d] = "RECOVERED" \/ k = "captured"
      /\ case_status(h) = "ELIGIBLE" => case[d] \in { NoRow, "ELIGIBLE" }
      /\ case[d] # NoRow => case_status(h) # NoRow
  <2>1. CASE k = "captured"
    BY <1>3, <1>3a, <1>3b, <2>1 DEF NoRow
  <2>2. CASE k = "failed"
    <3>1. d = p
      BY <1>1, <2>2
    <3>2. CASE seen[h] = NoRow
      BY <1>3, <1>3a, <1>3b, <2>2, <3>1, <3>2 DEF NoRow
    <3>3. CASE seen[h] = "FAILED"
      BY <1>3, <1>3a, <1>3b, <2>2, <3>1, <3>3 DEF NoRow
    <3>4. CASE seen[h] = "CAPTURED"
      BY <1>3, <1>3a, <1>3b, <2>2, <3>1, <3>4 DEF NoRow
    <3> QED
      BY <1>3, <3>2, <3>3, <3>4
  <2> QED
    BY <1>1, <2>1, <2>2
<1>5. \A q \in Payments :
         /\ payment'[q] = IF q = p THEN flushed_status(h) ELSE payment[q]
         /\ case'[q] = IF q = d THEN case_status(h) ELSE case[q]
         /\ case[q] # NoRow => case'[q] # NoRow
         /\ payment[q] = "CAPTURED" => payment'[q] = "CAPTURED"
  BY <1>1, <1>4, <1>2 DEF TypeOK
<1>6. \A x \in Handlers :
         /\ pc'[x] # "idle" =>
               x # h /\ pc'[x] = pc[x] /\ event'[x] = event[x] /\ seen'[x] = seen[x]
         /\ pc[x] # "idle" => event[x] \in EventIds /\ PaymentOf[event[x]] \in Payments
  BY <1>2 DEF TypeOK
<1>7. InboxInv'
  <2>1. \A x, y \in Handlers :
           pc'[x] \in OpenStages /\ pc'[y] \in OpenStages /\ event'[x] = event'[y] => x = y
    BY <1>6 DEF RequestInv, InboxInv, OpenStages
  <2>2. ASSUME NEW x \in Handlers, pc'[x] \in OpenStages
        PROVE  inbox'[event'[x]] = NoRow
    <3>1. x # h /\ pc[x] \in OpenStages /\ event'[x] = event[x] /\ event[x] \in EventIds
      BY <1>6, <2>2 DEF OpenStages
    <3>2. event[x] # event[h] /\ inbox[event[x]] = NoRow
      BY <1>1, <3>1 DEF RequestInv, InboxInv, OpenStages
    <3> QED
      BY <1>2, <3>1, <3>2 DEF TypeOK
  <2>3. inbox[event[h]] = NoRow
    BY <1>1 DEF RequestInv, InboxInv, OpenStages
  <2>4. \A e \in EventIds : applied'[e] = IF inbox'[e] = NoRow THEN 0 ELSE 1
    BY <1>1, <1>2, <2>3 DEF TypeOK, RequestInv, InboxInv, NoRow
  <2> QED
    BY <2>1, <2>2, <2>4 DEF InboxInv
<1>8. SeenInv'
  BY <1>4, <1>5, <1>6 DEF RequestInv, SeenInv
<1>9. WrittenInv'
  <2>1. ASSUME NEW x \in Handlers, pc'[x] = "written", seen'[x] = NoRow
        PROVE  payment'[PaymentOf[event'[x]]] = NoRow
    <3>1. /\ x # h /\ pc[x] = "written" /\ seen[x] = NoRow /\ event'[x] = event[x]
          /\ PaymentOf[event[x]] \in Payments /\ payment[PaymentOf[event[x]]] = NoRow
      BY <1>6, <2>1 DEF RequestInv, WrittenInv
    <3>2. PaymentOf[event[x]] # p
      BY <1>1, <1>3, <3>1 DEF p, RequestInv, WrittenInv, NoRow
    <3> QED
      BY <1>5, <3>1, <3>2
  <2>2. ASSUME NEW x \in Handlers, NEW y \in Handlers,
               pc'[x] = "written", seen'[x] # "CAPTURED",
               pc'[y] = "written", seen'[y] # "CAPTURED",
               PaymentOf[event'[x]] = PaymentOf[event'[y]]
        PROVE  x = y
    BY <1>6, <2>2 DEF RequestInv, WrittenInv
  <2> QED
    BY <2>1, <2>2 DEF WrittenInv
<1>10. MayHappen(event[h]) /\ \A e \in EventIds : MayHappen(e) => MayHappen(e)'
  BY <1>1, <1>5, MayStays DEF RequestInv, NotesInv
<1>11. NotesInv'
  <2>2. ASSUME NEW x \in Handlers, pc'[x] # "idle"
        PROVE  MayHappen(event[x])'
    <3>1. PICK e \in EventIds : e = event[x]
      BY <1>6, <2>2
    <3>2. event'[x] = e /\ MayHappen(e)
      BY <1>6, <2>2, <3>1 DEF RequestInv, NotesInv
    <3>3. MayHappen(e)'
      BY <1>10, <3>2
    <3> QED
      BY <3>2, <3>3 DEF MayHappen
  <2>3. \A e \in acked' : MayHappen(e)'
    BY <1>1, <1>2, <1>10 DEF RequestInv, NotesInv, TypeOK
  <2>4. ASSUME NEW q \in Payments, payment'[q] # NoRow, NotesOf[q] # None
        PROVE  case'[NotesOf[q]] # NoRow
    <3>1. CASE q = p
      BY <1>5, <1>10, <2>4, <3>1 DEF MayHappen, p
    <3>2. CASE q # p
      BY <1>5, <2>4, <3>2 DEF RequestInv, NotesInv
    <3> QED
      BY <3>1, <3>2
  <2> QED
    BY <2>2, <2>3, <2>4 DEF NotesInv
<1>12. PaymentAgreesWithCase'
  <2>1. ASSUME NEW q \in Payments, payment'[q] = "FAILED"
        PROVE  case'[q] # NoRow
    BY <1>1, <1>4, <1>5, <2>1 DEF RequestInv, PaymentAgreesWithCase
  <2>2. ASSUME NEW q \in Payments, payment'[q] = "CAPTURED",
               case'[Recovers(q)] = "ELIGIBLE"
        PROVE  FALSE
    <3>1. Recovers(q) \in Payments
      BY DEF Recovers
    <3>2. CASE k = "captured"
      <4>1. Recovers(q) # d
        BY <1>4, <1>5, <2>2, <3>1, <3>2
      <4>2. q # p
        BY <1>1, <3>2, <4>1
      <4> QED
        BY <1>5, <2>2, <3>1, <4>1, <4>2 DEF RequestInv, PaymentAgreesWithCase
    <3>3. CASE k = "failed"
      <4>1. payment[q] = "CAPTURED"
        BY <1>4, <1>5, <2>2, <3>3
      <4>2. case[Recovers(q)] # "ELIGIBLE"
        BY <4>1 DEF RequestInv, PaymentAgreesWithCase
      <4>3. Recovers(q) = p /\ d = p /\ case[p] = NoRow
        BY <1>1, <1>4, <1>5, <2>2, <3>1, <3>3, <4>2
      <4>4. q = p
        BY <4>1, <4>3 DEF Recovers, RequestInv, NotesInv, NoRow
      <4> QED
        BY <1>4, <1>5, <2>2, <3>3, <4>2, <4>3, <4>4
    <3> QED
      BY <1>1, <3>2, <3>3
  <2>3. ASSUME NEW q \in Payments, case'[q] = "RECOVERED"
        PROVE  \E r \in Payments : payment'[r] = "CAPTURED" /\ Recovers(r) = q
    <3>1. CASE case[q] = "RECOVERED"
      BY <1>5, <3>1 DEF RequestInv, PaymentAgreesWithCase
    <3>2. CASE case[q] # "RECOVERED"
      <4>1. q = d /\ k = "captured"
        BY <1>4, <1>5, <2>3, <3>2
      <4> QED
        BY <1>1, <1>4, <1>5, <4>1
    <3> QED
      BY <3>1, <3>2
  <2> QED
    BY <2>1, <2>2, <2>3 DEF PaymentAgreesWithCase, Recovers
<1> QED
  BY <1>7, <1>8, <1>9, <1>11, <1>12 DEF RequestInv

(* Every step of Razorpay, of a request and of a failure preserves it. *)
LEMMA RequestStep ==
    ASSUME TypeOK, RequestInv, [Next]_vars
    PROVE  RequestInv'
<1> USE DEF rows, requestVars
<1>1. ASSUME NEW h \in Handlers, NEW e \in EventIds, Deliver(h, e) \/ Repeat(h, e)
      PROVE  RequestInv'
  <2>1. /\ pc' = [ pc EXCEPT ![h] = "received" ]
        /\ event' = [ event EXCEPT ![h] = e ]
        /\ seen' = [ seen EXCEPT ![h] = seen[h] ]
        /\ UNCHANGED << rows, acked, applied >>
        /\ MayHappen(e)
    BY <1>1 DEF Deliver, Repeat, TypeOK, RequestInv, NotesInv
  <2> QED
    BY <2>1, FreeSafe DEF RequestInv, NotesInv
<1>2. ASSUME NEW h \in Handlers,
             DuplicateEvent(h) \/ RejectEvent(h) \/ PaymentConflict(h) \/ RequestFails(h)
      PROVE  RequestInv'
  <2>1. /\ EndRequest(h) /\ UNCHANGED << rows, applied >>
        /\ pc[h] # "idle"
        /\ acked' \subseteq acked \cup { event[h] }
    BY <1>2 DEF DuplicateEvent, RejectEvent, PaymentConflict, RequestFails,
       answer_duplicate
  <2>2. \A x \in acked' : MayHappen(x)
    BY <2>1 DEF RequestInv, NotesInv
  <2> QED
    BY <2>1, <2>2, FreeSafe DEF EndRequest
<1>3. ASSUME NEW h \in Handlers, InsertInbox(h)
      PROVE  RequestInv'
  <2>1. /\ pc[h] = "received" /\ pc' = [ pc EXCEPT ![h] = "inboxed" ]
        /\ UNCHANGED << inbox, payment, case, event, seen, acked, applied >>
        /\ inbox[event[h]] = NoRow
        /\ \A x \in Handlers \ { h } : pc[x] \in OpenStages => event[x] # event[h]
    BY <1>3 DEF InsertInbox, is_duplicate, InboxLocked, OpenStages
  <2>2. InboxInv'
    BY <2>1 DEF RequestInv, InboxInv, OpenStages, TypeOK
  <2>3. SeenInv' /\ WrittenInv' /\ NotesInv' /\ PaymentAgreesWithCase'
    BY <2>1 DEF RequestInv, SeenInv, WrittenInv, NotesInv, MayHappen,
       PaymentAgreesWithCase, TypeOK
  <2> QED
    BY <2>2, <2>3 DEF RequestInv
<1>4. ASSUME NEW h \in Handlers, IgnoreEvent(h)
      PROVE  RequestInv'
  <2>1. /\ pc[h] = "received" /\ event[h] \in EventIds
        /\ pc' = [ pc EXCEPT ![h] = "idle" ]
        /\ event' = [ event EXCEPT ![h] = None ]
        /\ seen' = [ seen EXCEPT ![h] = NoRow ]
        /\ inbox' = [ inbox EXCEPT ![event[h]] = "IGNORED" ]
        /\ applied' = [ applied EXCEPT ![event[h]] = @ + 1 ]
        /\ inbox[event[h]] = NoRow
        /\ UNCHANGED << payment, case >>
        /\ acked' = acked \cup { event[h] }
        /\ \A x \in Handlers \ { h } : pc[x] \in OpenStages => event[x] # event[h]
    BY <1>4 DEF IgnoreEvent, is_duplicate, InboxLocked, OpenStages, EndRequest, TypeOK
  <2>2. InboxInv'
    <3>1. \A x, y \in Handlers :
             pc'[x] \in OpenStages /\ pc'[y] \in OpenStages /\ event'[x] = event'[y]
             => x = y
      BY <2>1 DEF RequestInv, InboxInv, OpenStages, TypeOK
    <3>2. \A x \in Handlers : pc'[x] \in OpenStages => inbox'[event'[x]] = NoRow
      BY <2>1 DEF RequestInv, InboxInv, OpenStages, TypeOK
    <3>3. \A e \in EventIds : applied'[e] = IF inbox'[e] = NoRow THEN 0 ELSE 1
      BY <2>1 DEF RequestInv, InboxInv, TypeOK, NoRow
    <3> QED
      BY <3>1, <3>2, <3>3 DEF InboxInv
  <2>3. SeenInv' /\ WrittenInv' /\ PaymentAgreesWithCase'
    BY <2>1 DEF RequestInv, SeenInv, WrittenInv, PaymentAgreesWithCase, TypeOK
  <2>4. NotesInv'
    BY <2>1 DEF RequestInv, NotesInv, MayHappen, TypeOK
  <2> QED
    BY <2>2, <2>3, <2>4 DEF RequestInv
<1>5. ASSUME NEW h \in Handlers, ReadPayment(h)
      PROVE  RequestInv'
  <2>1. /\ pc[h] = "inboxed" /\ pc' = [ pc EXCEPT ![h] = "writing" ]
        /\ seen' = [ seen EXCEPT ![h] = payment[PaymentOf[event[h]]] ]
        /\ UNCHANGED << inbox, payment, case, event, acked, applied >>
        /\ PaymentOf[event[h]] \in Payments
    BY <1>5, PaymentOfAssumption DEF ReadPayment, TypeOK
  <2>2. InboxInv'
    BY <2>1 DEF RequestInv, InboxInv, OpenStages, TypeOK
  <2>3. SeenInv'
    BY <2>1 DEF RequestInv, SeenInv, PaymentAgreesWithCase, TypeOK, NoRow
  <2>4. WrittenInv' /\ NotesInv' /\ PaymentAgreesWithCase'
    BY <2>1 DEF RequestInv, WrittenInv, NotesInv, MayHappen, PaymentAgreesWithCase,
       TypeOK
  <2> QED
    BY <2>2, <2>3, <2>4 DEF RequestInv
<1>6. ASSUME NEW h \in Handlers, WritePayment(h)
      PROVE  RequestInv'
  <2>1. /\ pc[h] = "writing" /\ pc' = [ pc EXCEPT ![h] = "written" ]
        /\ UNCHANGED << inbox, payment, case, event, seen, acked, applied >>
        /\ seen[h] = NoRow => payment[PaymentOf[event[h]]] = NoRow
        /\ seen[h] # "CAPTURED" =>
              \A x \in Handlers \ { h } :
                 pc[x] = "written" /\ seen[x] # "CAPTURED" =>
                    PaymentOf[event[x]] # PaymentOf[event[h]]
    BY <1>6 DEF WritePayment, PaymentLocked
  <2>2. InboxInv'
    BY <2>1 DEF RequestInv, InboxInv, OpenStages, TypeOK
  <2>3. SeenInv' /\ NotesInv' /\ PaymentAgreesWithCase'
    BY <2>1 DEF RequestInv, SeenInv, NotesInv, MayHappen, PaymentAgreesWithCase,
       TypeOK
  <2>4. WrittenInv'
    BY <2>1 DEF RequestInv, WrittenInv, TypeOK
  <2> QED
    BY <2>2, <2>3, <2>4 DEF RequestInv
<1>7. ASSUME NEW h \in Handlers, NEW answered \in BOOLEAN, CommitEvent(h, answered)
      PROVE  RequestInv'
  BY <1>7, CommitSafe
<1>8. CASE UNCHANGED vars
  BY <1>8 DEF vars, RequestInv, InboxInv, SeenInv, WrittenInv, NotesInv, MayHappen,
     PaymentAgreesWithCase, OpenStages
<1> QED
  BY <1>1, <1>2, <1>3, <1>4, <1>5, <1>6, <1>7, <1>8 DEF Next, HandlerNext

(* The locks on inbox and payment rows, what stale reads still bound, and that the
   notes of a payment name a case that is there, hold in every reachable state. *)
THEOREM RequestsSafe == Spec => []RequestInv
<1>1. Init => RequestInv
  BY NotesOfAssumption DEF Init, RequestInv, InboxInv, SeenInv, WrittenInv, NotesInv,
     PaymentAgreesWithCase, Recovers, OpenStages, NoRow
<1>2. TypeOK /\ RequestInv /\ [Next]_vars => RequestInv'
  BY RequestStep
<1> QED
  BY <1>1, <1>2, InboxTypes, PTL DEF Spec

(* An event is processed once at most, however often Razorpay sends it and however
   many API processes receive it at the same time. *)
THEOREM ProcessedOnce == Spec => []AppliedOnce
<1>1. RequestInv => AppliedOnce
  <2> SUFFICES ASSUME RequestInv, NEW e \in EventIds
               PROVE  applied[e] <= 1
    BY DEF AppliedOnce
  <2>1. applied[e] = 0 \/ applied[e] = 1
    BY DEF RequestInv, InboxInv
  <2> QED
    BY <2>1
<1> QED
  BY <1>1, RequestsSafe, PTL

(* A failed payment has a case, the case a captured payment is for is not open,
   and a recovered case has a captured payment, in whatever order failures and
   captures of it and of its link payments arrive and commit. *)
THEOREM PaymentsAgree == Spec => []PaymentAgreesWithCase
<1>1. RequestInv => PaymentAgreesWithCase
  BY DEF RequestInv
<1> QED
  BY <1>1, RequestsSafe, PTL

=============================================================================
