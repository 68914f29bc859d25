----------------------------- MODULE PolicyRow -----------------------------
(***************************************************************************)
(* get_or_create_default_policy (app/services/policy_service.py): the      *)
(* first tasks of a merchant all find no merchant_policies row and insert  *)
(* the default one, each in a savepoint of the transaction in which it     *)
(* decides on its own case.  create_recovery_action_idempotent has the     *)
(* same shape.                                                             *)
(*                                                                         *)
(* PostgreSQL at READ COMMITTED: a SELECT sees what is committed when it   *)
(* runs; an INSERT of a key that an open transaction has inserted waits    *)
(* until that transaction ends, and fails if it has committed.             *)
(***************************************************************************)
EXTENDS Naturals

CONSTANTS
    Tasks,     \* tasks of one merchant, each about a case of its own
    MaxFaults  \* bound on the rollbacks and time limits of a behaviour

NoRow == "none"

ASSUME TasksAssumption == NoRow \notin Tasks
ASSUME FaultsAssumption == MaxFaults \in Nat

VARIABLES
    row,     \* the committed policy row, named after the task that inserted it
    moved,   \* the tasks whose case is committed as decided
    pc,      \* where each task is
    wrote,   \* the case update in the task's open transaction
    policy,  \* the policy row the task works with
    seen,    \* what the task's first SELECT saw
    faults   \* rollbacks and time limits so far

vars == << row, moved, pc, wrote, policy, seen, faults >>

Stages ==
    { "queued", "open", "inserting", "conflict", "deciding", "done", "expired",
      "error" }

Init ==
    /\ row = NoRow
    /\ moved = {}
    /\ pc = [ w \in Tasks |-> "queued" ]
    /\ wrote = [ w \in Tasks |-> FALSE ]
    /\ policy = [ w \in Tasks |-> NoRow ]
    /\ seen = [ w \in Tasks |-> NoRow ]
    /\ faults = 0

Goto(w, stage) == pc' = [ pc EXCEPT ![w] = stage ]

(* The transaction begins: the case is updated to ANALYSING. *)
Begin(w) ==
    /\ pc[w] = "queued"
    /\ Goto(w, "open")
    /\ wrote' = [ wrote EXCEPT ![w] = TRUE ]
    /\ UNCHANGED << row, moved, policy, seen, faults >>

(* The first SELECT: an existing row is returned. *)
SelectPolicy(w) ==
    /\ pc[w] = "open"
    /\ Goto(w, IF row # NoRow THEN "deciding" ELSE "inserting")
    /\ policy' = [ policy EXCEPT ![w] = row ]
    /\ seen' = [ seen EXCEPT ![w] = row ]
    /\ UNCHANGED << row, moved, wrote, faults >>

(* A row inserted by a transaction that is still open. *)
Uncommitted(w) == policy[w] = w /\ row # w

(* Mutant of InsertWaits: the two rows do not conflict. *)
InsertNeverWaits(w) == FALSE

(* The unique constraint on merchant_id makes the INSERT wait. *)
InsertWaits(w) == \E x \in Tasks \ { w } : Uncommitted(x)

(* Mutant of after_conflict: the INSERT is not in a savepoint, so the session is
   rolled back as a whole before it is used again. *)
lose_everything(w) == FALSE

(* What ROLLBACK TO SAVEPOINT leaves of the case update. *)
after_conflict(w) == wrote[w]

(* begin_nested, INSERT and flush: the default row, or IntegrityError. *)
InsertPolicy(w) ==
    /\ pc[w] = "inserting"
    /\ ~InsertWaits(w)
    /\ IF row = NoRow
       THEN /\ Goto(w, "deciding")
            /\ policy' = [ policy EXCEPT ![w] = w ]
            /\ UNCHANGED wrote
       ELSE /\ Goto(w, "conflict")
            /\ wrote' = [ wrote EXCEPT ![w] = after_conflict(w) ]
            /\ UNCHANGED policy
    /\ UNCHANGED << row, moved, seen, faults >>

(* Mutant of visible: REPEATABLE READ, the snapshot of the first SELECT. *)
visible_in_snapshot(w) == seen[w]

(* What a SELECT sees. *)
visible(w) == row

(* The SELECT of the except branch: scalar_one raises if there is no row, and
   the task ends with an exception that is not retried. *)
SelectAgain(w) ==
    /\ pc[w] = "conflict"
    /\ policy' = [ policy EXCEPT ![w] = visible(w) ]
    /\ Goto(w, IF visible(w) = NoRow THEN "error" ELSE "deciding")
    /\ UNCHANGED << row, moved, wrote, seen, faults >>

(* The decision is made, and everything is committed. *)
Commit(w) ==
    /\ pc[w] = "deciding"
    /\ row' = IF policy[w] = w THEN w ELSE row
    /\ moved' = IF wrote[w] THEN moved \cup { w } ELSE moved
    /\ Goto(w, "done")
    /\ wrote' = [ wrote EXCEPT ![w] = FALSE ]
    /\ UNCHANGED << policy, seen, faults >>

(* Mutant of Rollback: the session is used again as it is. *)
ReuseSession(w) ==
    /\ pc[w] \in { "open", "inserting", "conflict", "deciding" }
    /\ faults < MaxFaults
    /\ faults' = faults + 1
    /\ Goto(w, "queued")
    /\ UNCHANGED << row, moved, wrote, policy, seen >>

(* The worker dies or the database fails: the transaction is rolled back, the
   row it inserted with it, and the task comes back. *)
Rollback(w) ==
    /\ pc[w] \in { "open", "inserting", "conflict", "deciding" }
    /\ faults < MaxFaults
    /\ faults' = faults + 1
    /\ Goto(w, "queued")
    /\ wrote' = [ wrote EXCEPT ![w] = FALSE ]
    /\ policy' = [ policy EXCEPT ![w] = NoRow ]
    /\ seen' = [ seen EXCEPT ![w] = NoRow ]
    /\ UNCHANGED << row, moved >>

(* Mutant of SoftTimeLimit: the session is opened without "with", so that the
   exception leaves its transaction open, and with it the row it inserted. *)
LeakSession(w) ==
    /\ pc[w] \in { "open", "inserting", "conflict", "deciding" }
    /\ faults < MaxFaults
    /\ faults' = faults + 1
    /\ Goto(w, "expired")
    /\ wrote' = [ wrote EXCEPT ![w] = FALSE ]
    /\ UNCHANGED << row, moved, policy, seen >>

(* The task runs into its time limit, waiting for the INSERT or for the LLM: the
   exception leaves the session, which rolls back, and is raised again without a
   retry, so the task ends undecided. *)
SoftTimeLimit(w) ==
    /\ pc[w] \in { "open", "inserting", "conflict", "deciding" }
    /\ faults < MaxFaults
    /\ faults' = faults + 1
    /\ Goto(w, "expired")
    /\ wrote' = [ wrote EXCEPT ![w] = FALSE ]
    /\ policy' = [ policy EXCEPT ![w] = NoRow ]
    /\ seen' = [ seen EXCEPT ![w] = NoRow ]
    /\ UNCHANGED << row, moved >>

TaskNext(w) ==
    \/ Begin(w)
    \/ SelectPolicy(w)
    \/ InsertPolicy(w)
    \/ SelectAgain(w)
    \/ Commit(w)

Next == \E w \in Tasks : TaskNext(w) \/ Rollback(w) \/ SoftTimeLimit(w)

Spec == Init /\ [][Next]_vars

(* Workers keep consuming, and a task that can go on does; nothing says that one
   that waits is ended by its time limit. *)
FairSpec == Spec /\ \A w \in Tasks : WF_vars(TaskNext(w))

-----------------------------------------------------------------------------
(* Every stage and row is one of those listed; a task holds a case update only
   while its transaction is open. *)
TypeOK ==
    /\ row \in Tasks \cup { NoRow }
    /\ moved \subseteq Tasks
    /\ pc \in [ Tasks -> Stages ]
    /\ wrote \in [ Tasks -> BOOLEAN ]
    /\ policy \in [ Tasks -> Tasks \cup { NoRow } ]
    /\ seen \in [ Tasks -> Tasks \cup { NoRow } ]
    /\ faults \in 0..MaxFaults
    /\ \A w \in Tasks : wrote[w] => pc[w] \notin { "queued", "done", "expired" }

(* The loser of the race always finds the winner's row: after its INSERT has
   failed, scalar_one cannot raise, whoever was rolled back in between. *)
LoserFindsRow == \A w \in Tasks : pc[w] # "error"

(* All decisions of a merchant are made under one policy row, the one that is
   committed: no task commits with a row that was rolled back or replaced. *)
OneRowForAll ==
    \A w \in Tasks :
        pc[w] = "done" => row # NoRow /\ policy[w] = row

(* The lost race costs the task nothing: its savepoint is rolled back and its
   transaction is not, so the case it has decided on is committed as decided. *)
LosingKeepsTheDecision ==
    \A w \in Tasks : pc[w] = "done" => w \in moved

(* The stages in which a task has an open transaction. *)
OpenStages == { "open", "inserting", "conflict", "deciding" }

(* The unique key: one inserted row at most is neither committed nor rolled back,
   and none once a row is committed. *)
KeyInv ==
    /\ \A w, x \in Tasks : Uncommitted(w) /\ Uncommitted(x) => w = x
    /\ \A w \in Tasks : Uncommitted(w) => row = NoRow

(* What a task inside its transaction may rely on: its case update is pending, a
   conflict is with a committed row, and the policy it decides under is its own
   insert or the committed row. *)
TaskInv ==
    \A w \in Tasks :
        /\ pc[w] \in OpenStages => wrote[w]
        /\ pc[w] = "conflict" => row # NoRow
        /\ pc[w] = "deciding" =>
              \/ policy[w] = w
              \/ row # NoRow /\ policy[w] = row

(* The inductive invariant behind the three properties above. *)
RowInv ==
    /\ KeyInv
    /\ TaskInv
    /\ LoserFindsRow
    /\ OneRowForAll
    /\ LosingKeepsTheDecision

(* Nobody waits for ever, although an INSERT may wait for another task's whole
   transaction, LLM call included: every task decides, or is the one that its own
   time limit ended.  A task that dies, fails or expires while it holds the key
   does not stop the others. *)
EveryTaskEnds == \A w \in Tasks : <>(pc[w] \in { "done", "expired" })

=============================================================================
