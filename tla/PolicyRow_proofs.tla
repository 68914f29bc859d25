-------------------------- MODULE PolicyRow_proofs --------------------------
(***************************************************************************)
(* Proofs about PolicyRow, for any number of tasks of a merchant and any   *)
(* number of rollbacks.  The argument is the unique key on merchant_id:    *)
(* one inserted row at most is undecided, so the winner of the race is     *)
(* alone, and who loses it has lost it to a row that is committed.         *)
(***************************************************************************)
EXTENDS PolicyRow, TLAPS

(* One step preserves the types. *)
LEMMA TypeStep == TypeOK /\ [Next]_vars => TypeOK'
<1> SUFFICES ASSUME TypeOK, [Next]_vars
             PROVE  TypeOK'
  OBVIOUS
<1> USE FaultsAssumption DEF TypeOK, Stages, Goto
<1>1. ASSUME NEW w \in Tasks, Begin(w)
      PROVE  TypeOK'
  BY <1>1 DEF Begin
<1>2. ASSUME NEW w \in Tasks, SelectPolicy(w)
      PROVE  TypeOK'
  BY <1>2 DEF SelectPolicy
<1>3. ASSUME NEW w \in Tasks, InsertPolicy(w)
      PROVE  TypeOK'
  <2>1. CASE row = NoRow
    BY <1>3, <2>1 DEF InsertPolicy
  <2>2. CASE row # NoRow
    BY <1>3, <2>2 DEF InsertPolicy, after_conflict
  <2> QED
    BY <2>1, <2>2
<1>4. ASSUME NEW w \in Tasks, SelectAgain(w)
      PROVE  TypeOK'
  BY <1>4 DEF SelectAgain, visible
<1>5. ASSUME NEW w \in Tasks, Commit(w)
      PROVE  TypeOK'
  BY <1>5 DEF Commit
<1>6. ASSUME NEW w \in Tasks, Rollback(w)
      PROVE  TypeOK'
  BY <1>6 DEF Rollback
<1>7. ASSUME NEW w \in Tasks, SoftTimeLimit(w)
      PROVE  TypeOK'
  BY <1>7 DEF SoftTimeLimit
<1>8. CASE UNCHANGED vars
  BY <1>8 DEF vars
<1> QED
  BY <1>1, <1>2, <1>3, <1>4, <1>5, <1>6, <1>7, <1>8 DEF Next, TaskNext

(* Every variable keeps its type, and a task that is not in a transaction has no
   case update pending. *)
THEOREM RowTypes == Spec => []TypeOK
<1>1. Init => TypeOK
  BY FaultsAssumption DEF Init, TypeOK, Stages
<1>2. TypeOK /\ [Next]_vars => TypeOK'
  BY TypeStep
<1> QED
  BY <1>1, <1>2, PTL DEF Spec

-----------------------------------------------------------------------------
(* An INSERT happens only while nobody else's row is undecided, so the row it
   adds is the only one; if it fails, the row it lost to is committed. *)
LEMMA InsertSafe ==
    ASSUME TypeOK, RowInv, NEW w \in Tasks, InsertPolicy(w)
    PROVE  RowInv'
<1> USE TasksAssumption DEF Goto
<1>1. /\ pc[w] = "inserting"
      /\ \A x \in Tasks : x # w => ~Uncommitted(x)
      /\ row' = row
      /\ moved' = moved
  BY DEF InsertPolicy, InsertWaits
<1>2. CASE row = NoRow
  <2>1. /\ pc' = [ pc EXCEPT ![w] = "deciding" ]
        /\ policy' = [ policy EXCEPT ![w] = w ]
        /\ wrote' = wrote
    BY <1>2 DEF InsertPolicy
  <2>2. KeyInv'
    BY <1>1, <1>2, <2>1 DEF TypeOK, KeyInv, Uncommitted
  <2>3. TaskInv'
    BY <1>1, <2>1 DEF TypeOK, RowInv, TaskInv, OpenStages
  <2>4. LoserFindsRow' /\ OneRowForAll' /\ LosingKeepsTheDecision'
    BY <1>1, <2>1
       DEF TypeOK, RowInv, LoserFindsRow, OneRowForAll, LosingKeepsTheDecision
  <2> QED
    BY <2>2, <2>3, <2>4 DEF RowInv
<1>3. CASE row # NoRow
  <2>1. /\ pc' = [ pc EXCEPT ![w] = "conflict" ]
        /\ policy' = policy
        /\ wrote' = [ wrote EXCEPT ![w] = wrote[w] ]
    BY <1>3 DEF InsertPolicy, after_conflict
  <2>2. KeyInv'
    BY <1>1, <1>3, <2>1 DEF TypeOK, RowInv, KeyInv, Uncommitted
  <2>3. TaskInv'
    BY <1>1, <1>3, <2>1 DEF TypeOK, RowInv, TaskInv, OpenStages
  <2>4. LoserFindsRow' /\ OneRowForAll' /\ LosingKeepsTheDecision'
    BY <1>1, <2>1
       DEF TypeOK, RowInv, LoserFindsRow, OneRowForAll, LosingKeepsTheDecision
  <2> QED
    BY <2>2, <2>3, <2>4 DEF RowInv
<1> QED
  BY <1>2, <1>3

(* A commit publishes the task's own row, which is then the only one, or leaves
   the committed row alone; the case update goes with it. *)
LEMMA CommitSafe ==
    ASSUME TypeOK, RowInv, NEW w \in Tasks, Commit(w)
    PROVE  RowInv'
<1> USE TasksAssumption DEF Goto
<1>1. /\ pc[w] = "deciding"
      /\ wrote[w]
      /\ policy[w] # w => row # NoRow /\ policy[w] = row
  BY DEF Commit, RowInv, TaskInv, OpenStages
<1>2. /\ pc' = [ pc EXCEPT ![w] = "done" ]
      /\ policy' = policy
      /\ moved' = moved \cup { w }
      /\ wrote' = [ wrote EXCEPT ![w] = FALSE ]
  BY <1>1 DEF Commit
<1>3. /\ row' # NoRow
      /\ policy[w] = row'
      /\ row # NoRow => row' = row
  BY <1>1 DEF Commit, RowInv, KeyInv, Uncommitted
<1>4. \A x \in Tasks : x # w => ~Uncommitted(x)'
  <2> SUFFICES ASSUME NEW x \in Tasks, x # w, Uncommitted(x)'
               PROVE  FALSE
    OBVIOUS
  <2>1. policy[x] = x
    BY <1>2 DEF Uncommitted
  <2>2. CASE row = x
    BY <1>3, <2>2 DEF Uncommitted
  <2>3. CASE row # x
    <3>1. Uncommitted(x)
      BY <2>1, <2>3 DEF Uncommitted
    <3>2. row = NoRow
      BY <3>1 DEF RowInv, KeyInv
    <3>3. Uncommitted(w)
      BY <1>1, <3>2 DEF Uncommitted
    <3> QED
      BY <3>1, <3>3 DEF RowInv, KeyInv
  <2> QED
    BY <2>2, <2>3
<1>5. ~Uncommitted(w)'
  BY <1>2, <1>3 DEF Uncommitted
<1>6. KeyInv'
  BY <1>4, <1>5 DEF KeyInv
<1>7. TaskInv'
  BY <1>2, <1>3 DEF TypeOK, RowInv, TaskInv, OpenStages
<1>8. OneRowForAll'
  BY <1>2, <1>3 DEF TypeOK, RowInv, OneRowForAll
<1>9. LoserFindsRow' /\ LosingKeepsTheDecision'
  BY <1>2 DEF TypeOK, RowInv, LoserFindsRow, LosingKeepsTheDecision
<1> QED
  BY <1>6, <1>7, <1>8, <1>9 DEF RowInv

(* One step preserves the inductive invariant. *)
LEMMA RowStep == TypeOK /\ RowInv /\ [Next]_vars => RowInv'
<1> SUFFICES ASSUME TypeOK, RowInv, [Next]_vars
             PROVE  RowInv'
  OBVIOUS
<1> USE TasksAssumption
<1>1. ASSUME NEW w \in Tasks, Begin(w)
      PROVE  RowInv'
  BY <1>1 DEF Begin, Goto, TypeOK, RowInv, KeyInv, TaskInv, LoserFindsRow,
     OneRowForAll, LosingKeepsTheDecision, Uncommitted, OpenStages
<1>2. ASSUME NEW w \in Tasks, SelectPolicy(w)
      PROVE  RowInv'
  <2>1. KeyInv'
    BY <1>2 DEF SelectPolicy, Goto, TypeOK, RowInv, KeyInv, Uncommitted
  <2>2. TaskInv'
    BY <1>2 DEF SelectPolicy, Goto, TypeOK, RowInv, TaskInv, OpenStages
  <2>3. LoserFindsRow' /\ OneRowForAll' /\ LosingKeepsTheDecision'
    BY <1>2 DEF SelectPolicy, Goto, TypeOK, RowInv, LoserFindsRow, OneRowForAll,
       LosingKeepsTheDecision
  <2> QED
    BY <2>1, <2>2, <2>3 DEF RowInv
<1>3. ASSUME NEW w \in Tasks, InsertPolicy(w)
      PROVE  RowInv'
  BY <1>3, InsertSafe
<1>4. ASSUME NEW w \in Tasks, SelectAgain(w)
      PROVE  RowInv'
  <2>1. /\ row # NoRow
        /\ pc' = [ pc EXCEPT ![w] = "deciding" ]
        /\ policy' = [ policy EXCEPT ![w] = row ]
        /\ UNCHANGED << row, moved, wrote >>
    BY <1>4 DEF SelectAgain, Goto, visible, RowInv, TaskInv
  <2>2. KeyInv'
    BY <2>1 DEF TypeOK, RowInv, KeyInv, Uncommitted
  <2>3. TaskInv'
    BY <1>4, <2>1 DEF SelectAgain, TypeOK, RowInv, TaskInv, OpenStages
  <2>4. LoserFindsRow' /\ OneRowForAll' /\ LosingKeepsTheDecision'
    BY <2>1 DEF TypeOK, RowInv, LoserFindsRow, OneRowForAll, LosingKeepsTheDecision
  <2> QED
    BY <2>2, <2>3, <2>4 DEF RowInv
<1>5. ASSUME NEW w \in Tasks, Commit(w)
      PROVE  RowInv'
  BY <1>5, CommitSafe
<1>6. ASSUME NEW w \in Tasks, Rollback(w)
      PROVE  RowInv'
  BY <1>6 DEF Rollback, Goto, TypeOK, RowInv, KeyInv, TaskInv, LoserFindsRow,
     OneRowForAll, LosingKeepsTheDecision, Uncommitted, OpenStages
<1>7. ASSUME NEW w \in Tasks, SoftTimeLimit(w)
      PROVE  RowInv'
  BY <1>7 DEF SoftTimeLimit, Goto, TypeOK, RowInv, KeyInv, TaskInv, LoserFindsRow,
     OneRowForAll, LosingKeepsTheDecision, Uncommitted, OpenStages
<1>8. CASE UNCHANGED vars
  BY <1>8 DEF vars, RowInv, KeyInv, TaskInv, LoserFindsRow, OneRowForAll,
     LosingKeepsTheDecision, Uncommitted
<1> QED
  BY <1>1, <1>2, <1>3, <1>4, <1>5, <1>6, <1>7, <1>8 DEF Next, TaskNext

(* The unique key and what the tasks rely on hold in every reachable state. *)
THEOREM RowSafe == Spec => []RowInv
<1>1. Init => RowInv
  BY DEF Init, RowInv, KeyInv, TaskInv, LoserFindsRow, OneRowForAll,
     LosingKeepsTheDecision, Uncommitted, OpenStages
<1>2. TypeOK /\ RowInv /\ [Next]_vars => RowInv'
  BY RowStep
<1> QED
  BY <1>1, <1>2, RowTypes, PTL DEF Spec

(* scalar_one in the except branch of get_or_create_default_policy never raises. *)
THEOREM LoserNeverFails == Spec => []LoserFindsRow
<1>1. RowInv => LoserFindsRow
  BY DEF RowInv
<1> QED
  BY <1>1, RowSafe, PTL

(* All tasks of a merchant that have decided did so under the committed row. *)
THEOREM OnePolicy == Spec => []OneRowForAll
<1>1. RowInv => OneRowForAll
  BY DEF RowInv
<1> QED
  BY <1>1, RowSafe, PTL

(* A task that lost the race still commits the case update made before it. *)
THEOREM DecisionKept == Spec => []LosingKeepsTheDecision
<1>1. RowInv => LosingKeepsTheDecision
  BY DEF RowInv
<1> QED
  BY <1>1, RowSafe, PTL

=============================================================================
