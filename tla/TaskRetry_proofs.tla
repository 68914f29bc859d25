-------------------------- MODULE TaskRetry_proofs --------------------------
(***************************************************************************)
(* Proofs about TaskRetry, for any number of messages at a time, of lost   *)
(* workers, and up to the five retries that the task has.  A retry is      *)
(* shown safe for every delay between min_delay and max_delay, so nothing  *)
(* depends on the model taking only the two ends.                          *)
(***************************************************************************)
EXTENDS TaskRetry, TLAPS

(* The powers of two of five retries. *)
LEMMA Powers ==
    /\ 2 ^ 0 = 1
    /\ 2 ^ 1 = 2
    /\ 2 ^ 2 = 4
    /\ 2 ^ 3 = 8
    /\ 2 ^ 4 = 16
    /\ 2 ^ 5 = 32
OBVIOUS

(* The smaller of two numbers. *)
LEMMA MinOfTwo ==
    ASSUME NEW a \in Int, NEW b \in Int, b <= a
    PROVE  Min({ a, b }) = b
BY DEF Min

(* A delay of exponential_backoff_with_jitter before the cap: between 2^a and
   2 * 2^a seconds; with it the countdowns of a + 1 retries are complete. *)
LEMMA Delays ==
    ASSUME NEW a \in 0..5, a < MaxRetries, NEW d \in min_delay(a)..max_delay(a)
    PROVE  /\ d \in Nat
           /\ d >= (LongestWait(a + 1) \div 2) - (LongestWait(a) \div 2)
           /\ d <= LongestWait(a + 1) - LongestWait(a)
<1> USE RetriesAssumption, Powers
<1>1. CASE a = 0
  <2>1. max_delay(a) = 2
    BY <1>1, MinOfTwo DEF max_delay, Base, Cap
  <2> QED
    BY <1>1, <2>1 DEF min_delay, LongestWait, Base
<1>2. CASE a = 1
  <2>1. max_delay(a) = 4
    BY <1>2, MinOfTwo DEF max_delay, Base, Cap
  <2> QED
    BY <1>2, <2>1 DEF min_delay, LongestWait, Base
<1>3. CASE a = 2
  <2>1. max_delay(a) = 8
    BY <1>3, MinOfTwo DEF max_delay, Base, Cap
  <2> QED
    BY <1>3, <2>1 DEF min_delay, LongestWait, Base
<1>4. CASE a = 3
  <2>1. max_delay(a) = 16
    BY <1>4, MinOfTwo DEF max_delay, Base, Cap
  <2> QED
    BY <1>4, <2>1 DEF min_delay, LongestWait, Base
<1>5. CASE a = 4
  <2>1. max_delay(a) = 32
    BY <1>5, MinOfTwo DEF max_delay, Base, Cap
  <2> QED
    BY <1>5, <2>1 DEF min_delay, LongestWait, Base
<1> QED
  BY <1>1, <1>2, <1>3, <1>4, <1>5

(* The two delays of the model are among those. *)
LEMMA DelaysDrawn ==
    ASSUME NEW a \in 0..5, a < MaxRetries
    PROVE  backoff_delays(a) \subseteq min_delay(a)..max_delay(a)
<1> USE RetriesAssumption, Powers
<1>1. max_delay(a) \in { 2, 4, 8, 16, 32 }
  <2>1. a = 0 \/ a = 1 \/ a = 2 \/ a = 3 \/ a = 4
    OBVIOUS
  <2>2. 2 ^ a \in { 1, 2, 4, 8, 16 }
    BY <2>1
  <2>3. max_delay(a) = 2 * 2 ^ a
    BY <2>2, MinOfTwo DEF max_delay, Base, Cap
  <2> QED
    BY <2>2, <2>3
<1> QED
  BY <1>1 DEF backoff_delays, min_delay

(* The bounds on the countdowns of up to five retries are numbers. *)
LEMMA WaitType ==
    ASSUME NEW n \in 0..5
    PROVE  /\ LongestWait(n) \in Nat
           /\ LongestWait(n) \div 2 \in Nat
<1>1. 2 ^ n \in { 1, 2, 4, 8, 16, 32 }
  <2>1. n = 0 \/ n = 1 \/ n = 2 \/ n = 3 \/ n = 4 \/ n = 5
    OBVIOUS
  <2> QED
    BY <2>1, Powers
<1> QED
  BY <1>1 DEF LongestWait, Base

-----------------------------------------------------------------------------
(* One step preserves the types. *)
LEMMA TypeStep == TypeOK /\ [Next]_vars => TypeOK'
<1> SUFFICES ASSUME TypeOK, [Next]_vars
             PROVE  TypeOK'
  OBVIOUS
<1> USE RetriesAssumption, FaultsAssumption DEF TypeOK
<1>1. ASSUME NEW m \in Messages, Start(m)
      PROVE  TypeOK'
  BY <1>1 DEF Start
<1>2. ASSUME NEW m \in Messages, Succeed(m)
      PROVE  TypeOK'
  BY <1>2 DEF Succeed, NoMessage
<1>3. ASSUME NEW m \in Messages, NEW n \in Messages,
             NEW d \in backoff_delays(msg[m].retries), Retry(m, n, d)
      PROVE  TypeOK'
  <2>1. /\ msg[m].retries \in 0..5
        /\ msg[m].retries < MaxRetries
        /\ msg[m].waited \in Nat
    <3>1. /\ msg[m].retries \in 0..MaxRetries
          /\ msg[m].waited \in Nat
      OBVIOUS
    <3> QED
      BY <1>3, <3>1 DEF Retry, may_retry
  <2>2. d \in Nat
    BY <2>1, Delays, DelaysDrawn
  <2> QED
    BY <1>3, <2>1, <2>2 DEF Retry, Message
<1>4. ASSUME NEW m \in Messages, Acknowledge(m)
      PROVE  TypeOK'
  BY <1>4 DEF Acknowledge, NoMessage
<1>5. ASSUME NEW m \in Messages, GiveUp(m)
      PROVE  TypeOK'
  BY <1>5 DEF GiveUp, NoMessage
<1>6. ASSUME NEW m \in Messages, Abort(m)
      PROVE  TypeOK'
  BY <1>6 DEF Abort, NoMessage
<1>7. ASSUME NEW m \in Messages, WorkerLost(m)
      PROVE  TypeOK'
  BY <1>7 DEF WorkerLost
<1>8. CASE UNCHANGED vars
  BY <1>8 DEF vars
<1> QED
  BY <1>1, <1>2, <1>3, <1>4, <1>5, <1>6, <1>7, <1>8 DEF Next, MessageNext

(* Every message is well formed, and none is retried more often than max_retries
   allows, however many copies lost workers leave behind. *)
THEOREM RetryTypes == Spec => []TypeOK
<1>1. Init => TypeOK
  <2>1. 0 \in 0..MaxRetries /\ 0 \in 0..MaxFaults
    BY RetriesAssumption, FaultsAssumption
  <2> DEFINE Slots == [ state : { "free", "queued", "running", "retried" },
                        retries : 0..MaxRetries, waited : Nat ]
  <2>2. Message(0, 0) \in Slots /\ NoMessage \in Slots
    BY <2>1 DEF Message, NoMessage
  <2>3. Init => msg \in [ Messages -> Slots ]
    <3> HIDE DEF Slots
    <3> QED
      BY <2>2 DEF Init
  <2> QED
    BY <2>1, <2>3 DEF Init, TypeOK, Nothing
<1>2. TypeOK /\ [Next]_vars => TypeOK'
  BY TypeStep
<1> QED
  BY <1>1, <1>2, PTL DEF Spec

-----------------------------------------------------------------------------
(* One step keeps the task in somebody's hands. *)
LEMMA DroppedStep == TypeOK /\ NeverDropped /\ [Next]_vars => NeverDropped'
<1> SUFFICES ASSUME TypeOK, NeverDropped, [Next]_vars
             PROVE  NeverDropped'
  OBVIOUS
<1> USE DEF TypeOK, NeverDropped
<1>1. ASSUME NEW m \in Messages, Start(m)
      PROVE  NeverDropped'
  BY <1>1 DEF Start
<1>2. ASSUME NEW m \in Messages, Succeed(m)
      PROVE  NeverDropped'
  BY <1>2 DEF Succeed
<1>3. ASSUME NEW m \in Messages, NEW n \in Messages, NEW d, Retry(m, n, d)
      PROVE  NeverDropped'
  <2>1. msg'[n].state = "queued"
    BY <1>3 DEF Retry, Message
  <2> QED
    BY <2>1
<1>4. ASSUME NEW m \in Messages, Acknowledge(m)
      PROVE  NeverDropped'
  <2>1. \A k \in Messages :
           msg[k].state \in { "queued", "running" } => msg'[k] = msg[k]
    BY <1>4 DEF Acknowledge
  <2> QED
    BY <1>4, <2>1 DEF Acknowledge
<1>5. ASSUME NEW m \in Messages, GiveUp(m)
      PROVE  NeverDropped'
  BY <1>5 DEF GiveUp, Nothing
<1>6. ASSUME NEW m \in Messages, Abort(m)
      PROVE  NeverDropped'
  BY <1>6 DEF Abort, Nothing, Aborted
<1>7. ASSUME NEW m \in Messages, WorkerLost(m)
      PROVE  NeverDropped'
  <2>1. msg'[m].state = "queued"
    BY <1>7 DEF WorkerLost
  <2> QED
    BY <2>1
<1>8. CASE UNCHANGED vars
  BY <1>8 DEF vars
<1> QED
  BY <1>1, <1>2, <1>3, <1>4, <1>5, <1>6, <1>7, <1>8 DEF Next, MessageNext

(* The task is never lost between the new message and the acknowledgement of the
   old one: it has succeeded, has been given up, or is in the queue. *)
THEOREM TaskNeverDropped == Spec => []NeverDropped
<1>1. Init => NeverDropped
  <2> SUFFICES ASSUME Init
               PROVE  NeverDropped
    OBVIOUS
  <2>1. 1 \in Messages
    BY MessagesAssumption DEF Messages
  <2> QED
    BY <2>1 DEF Init, NeverDropped, Message
<1>2. TypeOK /\ NeverDropped /\ [Next]_vars => NeverDropped'
  BY DroppedStep
<1> QED
  BY <1>1, <1>2, RetryTypes, PTL DEF Spec

-----------------------------------------------------------------------------
(* A slot without a message has waited for nothing. *)
LEMMA EmptySlot ==
    NoMessage.waited \in
        (LongestWait(NoMessage.retries) \div 2)..LongestWait(NoMessage.retries)
BY Powers DEF NoMessage, LongestWait, Base

(* Steps that empty a slot or only change the state of a message. *)
LEMMA WaitedKept ==
    ASSUME WaitedInv, GivenUpOnlyAfterBackoff',
           \A k \in Messages :
              \/ msg'[k] = NoMessage
              \/ /\ msg'[k].retries = msg[k].retries
                 /\ msg'[k].waited = msg[k].waited
    PROVE  WaitedInv'
BY EmptySlot DEF WaitedInv

(* A retry adds its own countdown to those behind the message. *)
LEMMA RetryWaited ==
    ASSUME TypeOK, WaitedInv, NEW m \in Messages, NEW n \in Messages,
           NEW d \in min_delay(msg[m].retries)..max_delay(msg[m].retries),
           Retry(m, n, d)
    PROVE  WaitedInv'
<1> USE RetriesAssumption
<1> DEFINE r == msg[m].retries
<1>1. /\ r \in 0..5
      /\ r + 1 \in 0..5
      /\ r < MaxRetries
      /\ msg[m].waited \in Nat
      /\ msg[m].waited \in (LongestWait(r) \div 2)..LongestWait(r)
  <2>1. /\ r \in 0..MaxRetries
        /\ msg[m].waited \in Nat
    BY DEF TypeOK
  <2>2. r < MaxRetries
    BY DEF Retry, may_retry
  <2>3. msg[m].waited \in (LongestWait(r) \div 2)..LongestWait(r)
    BY DEF WaitedInv
  <2> HIDE DEF r
  <2> QED
    BY <2>1, <2>2, <2>3
<1>2. /\ d \in Nat
      /\ d >= (LongestWait(r + 1) \div 2) - (LongestWait(r) \div 2)
      /\ d <= LongestWait(r + 1) - LongestWait(r)
  BY <1>1, Delays
<1>3. msg[m].waited + d \in (LongestWait(r + 1) \div 2)..LongestWait(r + 1)
  <2>1. /\ LongestWait(r) \in Nat
        /\ LongestWait(r + 1) \in Nat
        /\ LongestWait(r) \div 2 \in Nat
        /\ LongestWait(r + 1) \div 2 \in Nat
    BY <1>1, WaitType
  <2> HIDE DEF r
  <2> QED
    BY <1>1, <1>2, <2>1
<1>4. /\ msg'[n].retries = r + 1
      /\ msg'[n].waited = msg[m].waited + d
  BY DEF Retry, Message, TypeOK
<1>5. \A k \in Messages : k # n =>
         /\ msg'[k].retries = msg[k].retries
         /\ msg'[k].waited = msg[k].waited
  BY DEF Retry, TypeOK
<1>6. GivenUpOnlyAfterBackoff'
  BY DEF Retry, WaitedInv, GivenUpOnlyAfterBackoff
<1> HIDE DEF r
<1> QED
  BY <1>3, <1>4, <1>5, <1>6 DEF WaitedInv

(* One step preserves what is known of the countdowns. *)
LEMMA WaitedStep == TypeOK /\ WaitedInv /\ [Next]_vars => WaitedInv'
<1> SUFFICES ASSUME TypeOK, WaitedInv, [Next]_vars
             PROVE  WaitedInv'
  OBVIOUS
<1>1. ASSUME NEW m \in Messages, Start(m)
      PROVE  WaitedInv'
  BY <1>1, WaitedKept DEF Start, TypeOK, WaitedInv, GivenUpOnlyAfterBackoff
<1>2. ASSUME NEW m \in Messages, Succeed(m)
      PROVE  WaitedInv'
  BY <1>2, WaitedKept DEF Succeed, TypeOK, WaitedInv, GivenUpOnlyAfterBackoff
<1>3. ASSUME NEW m \in Messages, NEW n \in Messages,
             NEW d \in backoff_delays(msg[m].retries), Retry(m, n, d)
      PROVE  WaitedInv'
  <2>1. /\ msg[m].retries \in 0..5
        /\ msg[m].retries < MaxRetries
    <3>1. msg[m].retries \in 0..MaxRetries
      BY DEF TypeOK
    <3> QED
      BY <1>3, <3>1, RetriesAssumption DEF Retry, may_retry
  <2>2. d \in min_delay(msg[m].retries)..max_delay(msg[m].retries)
    BY <2>1, DelaysDrawn
  <2> QED
    BY <1>3, <2>2, RetryWaited
<1>4. ASSUME NEW m \in Messages, Acknowledge(m)
      PROVE  WaitedInv'
  BY <1>4, WaitedKept DEF Acknowledge, TypeOK, WaitedInv, GivenUpOnlyAfterBackoff
<1>5. ASSUME NEW m \in Messages, GiveUp(m)
      PROVE  WaitedInv'
  <2>1. msg[m].retries = MaxRetries
    BY <1>5, RetriesAssumption DEF GiveUp, may_retry, TypeOK
  <2>2. GivenUpOnlyAfterBackoff'
    BY <1>5, <2>1 DEF GiveUp, WaitedInv, GivenUpOnlyAfterBackoff
  <2> QED
    BY <1>5, <2>2, WaitedKept DEF GiveUp, TypeOK
<1>6. ASSUME NEW m \in Messages, Abort(m)
      PROVE  WaitedInv'
  <2>1. GivenUpOnlyAfterBackoff'
    BY <1>6 DEF Abort, Aborted, GivenUpOnlyAfterBackoff
  <2> QED
    BY <1>6, <2>1, WaitedKept DEF Abort, TypeOK
<1>7. ASSUME NEW m \in Messages, WorkerLost(m)
      PROVE  WaitedInv'
  BY <1>7, WaitedKept DEF WorkerLost, TypeOK, WaitedInv, GivenUpOnlyAfterBackoff
<1>8. CASE UNCHANGED vars
  BY <1>8 DEF vars, WaitedInv, GivenUpOnlyAfterBackoff
<1> QED
  BY <1>1, <1>2, <1>3, <1>4, <1>5, <1>6, <1>7, <1>8 DEF Next, MessageNext

(* A task is given up for database errors only after the whole backoff: with the
   five retries of the code, after 31 seconds at least and 62 at most. *)
THEOREM BackoffBeforeGivingUp == Spec => []GivenUpOnlyAfterBackoff
<1>1. Init => WaitedInv
  <2>1. 0 \in (LongestWait(0) \div 2)..LongestWait(0)
    BY Powers DEF LongestWait, Base
  <2> QED
    BY <2>1 DEF Init, WaitedInv, GivenUpOnlyAfterBackoff, Message, NoMessage, Nothing
<1>2. TypeOK /\ WaitedInv /\ [Next]_vars => WaitedInv'
  BY WaitedStep
<1>3. WaitedInv => GivenUpOnlyAfterBackoff
  BY DEF WaitedInv
<1> QED
  BY <1>1, <1>2, <1>3, RetryTypes, PTL DEF Spec

=============================================================================
