-------------------------- MODULE Dashboard_proofs --------------------------
(***************************************************************************)
(* Proofs about Dashboard, for any finite number of cases, any request and *)
(* any interleaving of its SELECTs with the commits of the write path.     *)
(* They rest on the theorems of RecoveryCore: rows are never deleted, what *)
(* is final stays so, and the audit trail tells what the rows tell.        *)
(***************************************************************************)
EXTENDS Dashboard, RecoveryCore_proofs, FiniteSetTheorems

(* The dashboard only reads: with it the write path does what it does alone. *)
THEOREM OnlyReads == DashboardSpec => Spec
<1>1. DashboardInit => Init
  BY DEF DashboardInit
<1>2. [DashboardNext]_<< vars, readVars >> => [Next]_vars
  BY DEF DashboardNext, Request, RunSelect, Respond
<1> QED
  BY <1>1, <1>2, PTL DEF DashboardSpec, Spec

-----------------------------------------------------------------------------
(* Rows grow: a case or an action that exists goes on existing, an executed
   action stays executed, a closed case stays closed and a recovered one
   recovered. *)
RowsGrow ==
    \A c \in Cases :
        /\ status[c] # NoRow => status'[c] # NoRow
        /\ status[c] = "RECOVERED" => status'[c] = "RECOVERED"
        /\ is_terminal(status[c]) => is_terminal(status'[c])
        /\ \A t \in ActionTypes :
              /\ action[c][t] # NoRow => action'[c][t] # NoRow
              /\ action[c][t] = "EXECUTED" => action'[c][t] = "EXECUTED"

(* A case that is decided, or moved on after that, has an action. *)
LEMMA DecidedStep ==
    ASSUME TypeOK, Lifecycle!Next, NEW c \in Cases, status'[c] # status[c],
           status'[c] \notin { NoRow, "ELIGIBLE", "RECOVERED" }
    PROVE  \E t \in ActionTypes : action'[c][t] # NoRow
<1> USE LifecycleNames, Shapes DEF NoRow
<1>1. PICK d \in Cases :
         \/ Lifecycle!Open(d)
         \/ \E t \in ActionTypes :
               \/ Lifecycle!Decide(d, t)
               \/ Lifecycle!Start(d, t)
               \/ Lifecycle!Call(d, t)
               \/ Lifecycle!Succeed(d, t)
               \/ Lifecycle!Fail(d, t)
               \/ Lifecycle!Cancel(d, t)
         \/ \E found \in SUBSET ActionTypes : Lifecycle!Recover(d, found)
  BY DEF Lifecycle!Next
<1>2. ~Lifecycle!Open(d)
  BY DEF Lifecycle!Open
<1>3. ASSUME NEW t \in ActionTypes, Lifecycle!Decide(d, t)
      PROVE  action'[c][t] = "APPROVED"
  BY <1>3 DEF Lifecycle!Decide
<1>4. ASSUME NEW t \in ActionTypes, Lifecycle!Succeed(d, t)
      PROVE  action'[c][t] = "EXECUTED"
  BY <1>4 DEF Lifecycle!Succeed
<1>5. ASSUME NEW t \in ActionTypes, Lifecycle!Cancel(d, t)
      PROVE  action'[c][t] = "CANCELLED"
  BY <1>5 DEF Lifecycle!Cancel
<1>6. \A t \in ActionTypes :
         ~Lifecycle!Start(d, t) /\ ~Lifecycle!Call(d, t) /\ ~Lifecycle!Fail(d, t)
  BY DEF Lifecycle!Start, Lifecycle!Call, Lifecycle!Fail
<1>7. \A found \in SUBSET ActionTypes : ~Lifecycle!Recover(d, found)
  BY DEF Lifecycle!Recover
<1>8. PICK t \in ActionTypes : \/ Lifecycle!Decide(d, t)
                               \/ Lifecycle!Succeed(d, t)
                               \/ Lifecycle!Cancel(d, t)
  BY <1>1, <1>2, <1>6, <1>7
<1>9. action'[c][t] \in { "APPROVED", "EXECUTED", "CANCELLED" }
  BY <1>3, <1>4, <1>5, <1>8
<1> QED
  BY <1>9

(* Having one of the possible statuses is being there. *)
LEMMA AnyAction ==
    ASSUME TypeOK, NEW c \in Cases
    PROVE  HasAction(c, ActionStatuses) <=> \E t \in ActionTypes : action[c][t] # NoRow
<1>1. NoRow \notin ActionStatuses
  BY DEF NoRow, ActionStatuses
<1> QED
  BY <1>1, Shapes DEF HasAction

(* Every step of the write path lets the rows grow. *)
LEMMA GrowStep ==
    ASSUME TypeOK, TypeOK', SafetyInv, AgreementInv, DecidedInv, [Next]_vars
    PROVE  RowsGrow /\ DecidedInv'
<1>1. Lifecycle!Next \/ UNCHANGED << status, action, calls >>
  BY LifecycleStep
<1>2. /\ \A c \in Cases :
            /\ status[c] # NoRow => status'[c] # NoRow
            /\ is_terminal(status[c]) => is_terminal(status'[c])
      /\ \A c \in Cases, t \in ActionTypes :
            /\ action[c][t] # NoRow => action'[c][t] # NoRow
            /\ action[c][t] = "EXECUTED" => action'[c][t] = "EXECUTED"
  BY <1>1, LifecyclePreserves
<1>3. \A c \in Cases : status[c] = "RECOVERED" => status'[c] = "RECOVERED"
  <2>1. CASE Next
    <3>1. is_terminal("RECOVERED")
      BY DEF is_terminal, TERMINAL_STATES
    <3> QED
      BY <2>1, <3>1, ClosedStep
  <2>2. CASE UNCHANGED vars
    BY <2>2 DEF vars, rows
  <2> QED
    BY <2>1, <2>2
<1>4. RowsGrow
  BY <1>2, <1>3 DEF RowsGrow
<1>5. DecidedInv'
  <2> SUFFICES ASSUME NEW c \in Cases,
                      status'[c] \notin { NoRow, "ELIGIBLE", "RECOVERED" }
               PROVE  HasAction(c, ActionStatuses)'
    BY DEF DecidedInv, NoRow
  <2>1. \E t \in ActionTypes : action'[c][t] # NoRow
    <3>1. CASE status'[c] = status[c]
      <4>1. \E t \in ActionTypes : action[c][t] # NoRow
        BY <3>1, AnyAction DEF DecidedInv
      <4> QED
        BY <4>1, <1>2
    <3>2. CASE status'[c] # status[c]
      BY <3>2, <1>1, DecidedStep
    <3> QED
      BY <3>1, <3>2
  <2>2. HasAction(c, ActionStatuses)' <=> \E t \in ActionTypes : action'[c][t] # NoRow
    <3>1. \A t \in ActionTypes : action'[c][t] \in ActionStatuses \cup { NoRow }
      BY DEF TypeOK, RowTypes, ActionRows
    <3>2. NoRow \notin ActionStatuses
      BY DEF NoRow, ActionStatuses
    <3> QED
      BY <3>1, <3>2 DEF HasAction
  <2> QED
    BY <2>1, <2>2
<1> QED
  BY <1>4, <1>5

-----------------------------------------------------------------------------
(* Counting.  A set of cases has as many members as its table has such rows, and
   a larger set has no fewer. *)
LEMMA SubsetCount ==
    ASSUME NEW S \in SUBSET Cases, NEW T \in SUBSET S
    PROVE  /\ IsFiniteSet(S)
           /\ Cardinality(S) \in Nat
           /\ Cardinality(T) \in Nat
           /\ Cardinality(T) <= Cardinality(S)
<1>1. IsFiniteSet(S)
  BY CasesAssumption, FS_Subset
<1>2. IsFiniteSet(T) /\ Cardinality(T) <= Cardinality(S)
  BY <1>1, FS_Subset
<1> QED
  BY <1>1, <1>2, FS_CardinalityType

(* There are finitely many actions to count. *)
LEMMA FinitelyManyActions == IsFiniteSet(Cases \X ActionTypes)
<1>1. IsFiniteSet(ActionTypes)
  <2>1. ActionTypes = ((((({} \cup { "WAIT" }) \cup { "CREATE_PAYMENT_LINK" })
                        \cup { "SEND_REMINDER" }) \cup { "ESCALATE" })
                        \cup { "STOP" })
    BY DEF ActionTypes
  <2> HIDE DEF ActionTypes
  <2>2. IsFiniteSet({} \cup { "WAIT" })
    BY FS_EmptySet, FS_AddElement
  <2>3. IsFiniteSet(({} \cup { "WAIT" }) \cup { "CREATE_PAYMENT_LINK" })
    BY <2>2, FS_AddElement
  <2>4. IsFiniteSet((({} \cup { "WAIT" }) \cup { "CREATE_PAYMENT_LINK" })
                       \cup { "SEND_REMINDER" })
    BY <2>3, FS_AddElement
  <2>5. IsFiniteSet(((({} \cup { "WAIT" }) \cup { "CREATE_PAYMENT_LINK" })
                       \cup { "SEND_REMINDER" }) \cup { "ESCALATE" })
    BY <2>4, FS_AddElement
  <2> QED
    BY <2>1, <2>5, FS_AddElement
<1> QED
  BY <1>1, CasesAssumption, FS_Product

(* Cases that all have an action are no more than the actions. *)
LEMMA ActionsCover ==
    ASSUME NEW S \in SUBSET Cases,
           \A c \in S : \E t \in ActionTypes : action[c][t] # NoRow
    PROVE  /\ Cardinality(Acted) \in Nat
           /\ Cardinality(S) <= Cardinality(Acted)
<1>1. IsFiniteSet(Acted)
  BY FinitelyManyActions, FS_Subset DEF Acted
<1> DEFINE f == [ c \in S |->
                    << c, CHOOSE t \in ActionTypes : action[c][t] # NoRow >> ]
<1>2. \A c \in S : f[c] \in Acted /\ f[c][1] = c
  BY DEF Acted
<1>3. f \in Injection(S, Acted)
  <2>1. f \in [ S -> Acted ]
    BY <1>2
  <2>2. \A a, b \in S : f[a] = f[b] => a = b
    BY <1>2
  <2> QED
    BY <2>1, <2>2 DEF Injection, IsInjective
<1> HIDE DEF f
<1> QED
  BY <1>1, <1>3, FS_Injection, FS_CardinalityType

(* Two sets of cases without a common member. *)
LEMMA DisjointCount ==
    ASSUME NEW S \in SUBSET Cases, NEW T \in SUBSET Cases, S \cap T = {}
    PROVE  Cardinality(S) + Cardinality(T) = Cardinality(S \cup T)
<1>1. IsFiniteSet(S) /\ IsFiniteSet(T) /\ IsFiniteSet(S \cup T)
  BY SubsetCount
<1>2. Cardinality(S \cup T)
        = Cardinality(S) + Cardinality(T) - Cardinality(S \cap T)
  BY <1>1, FS_Union
<1>3. Cardinality(S \cap T) = 0
  BY FS_EmptySet
<1>4. /\ Cardinality(S) \in Nat
      /\ Cardinality(T) \in Nat
      /\ Cardinality(S \cup T) \in Nat
  BY <1>1, FS_CardinalityType
<1> QED
  BY <1>2, <1>3, <1>4

(* The counts of one aggregation are those of the rows, and the stopped and
   escalated cases among them have their actions. *)
LEMMA TotalsCount ==
    ASSUME TypeOK, DecidedInv
    PROVE  /\ Reached(merchant_totals)
           /\ merchant_totals.recovered = Cardinality(InStatus("RECOVERED"))
           /\ Closed(merchant_totals)
                 = Cardinality(ClosedCases)
           /\ merchant_totals.stopped + merchant_totals.escalated
                 <= Cardinality(Acted)
<1> DEFINE R == InStatus("RECOVERED")
           S == InStatus("STOPPED")
           E == InStatus("ESCALATED")
           T == ClosedCases
<1>1. /\ merchant_totals.recovered = Cardinality(R)
      /\ merchant_totals.stopped = Cardinality(S)
      /\ merchant_totals.escalated = Cardinality(E)
  BY DEF merchant_totals
<1>2. /\ R \in SUBSET Cases
      /\ S \in SUBSET Cases
      /\ E \in SUBSET Cases
      /\ S \cup E \in SUBSET Cases
      /\ S \cap E = {}
      /\ R \cap (S \cup E) = {}
      /\ T = R \cup (S \cup E)
  BY DEF InStatus, ClosedCases, is_terminal, TERMINAL_STATES
<1>3. \A c \in S \cup E : \E t \in ActionTypes : action[c][t] # NoRow
  BY AnyAction DEF InStatus, DecidedInv, NoRow
<1> HIDE DEF R, S, E, T
<1>4. /\ Cardinality(R) \in Nat
      /\ Cardinality(S) \in Nat
      /\ Cardinality(E) \in Nat
  BY <1>2, SubsetCount
<1>5. Cardinality(S) + Cardinality(E) = Cardinality(S \cup E)
  BY <1>2, DisjointCount
<1>6. Cardinality(R) + Cardinality(S \cup E) = Cardinality(T)
  BY <1>2, DisjointCount
<1>7. Cardinality(S \cup E) <= Cardinality(Acted)
  BY <1>2, <1>3, ActionsCover
<1>8. Closed(merchant_totals) = Cardinality(T)
  BY <1>1, <1>4, <1>5, <1>6 DEF Closed
<1>9. Reached(merchant_totals)
  <2>1. Cardinality(T) \in Nat
    BY <1>2, SubsetCount
  <2>2. /\ merchant_totals.recovered <= Cardinality(R)
        /\ Closed(merchant_totals) <= Cardinality(T)
    BY <1>1, <1>4, <1>8, <2>1
  <2> QED
    BY <1>1, <1>4, <2>2 DEF Reached, R, T
<1> QED
  BY <1>1, <1>5, <1>7, <1>8, <1>9 DEF R, T

(* When the rows grow, so does every count that the properties compare. *)
LEMMA CountsStep ==
    ASSUME RowsGrow
    PROVE  /\ Cardinality(InStatus("RECOVERED")) \in Nat
           /\ Cardinality(InStatus("RECOVERED"))' \in Nat
           /\ Cardinality(InStatus("RECOVERED")) <= Cardinality(InStatus("RECOVERED"))'
           /\ Cardinality(ClosedCases) \in Nat
           /\ Cardinality(ClosedCases)' \in Nat
           /\ Cardinality(ClosedCases) <= Cardinality(ClosedCases)'
           /\ Cardinality(Existing) \in Nat
           /\ Cardinality(Existing)' \in Nat
           /\ Cardinality(Existing) <= Cardinality(Existing)'
           /\ Cardinality(Acted) \in Nat
           /\ Cardinality(Acted)' \in Nat
           /\ Cardinality(Acted) <= Cardinality(Acted)'
<1>1. /\ InStatus("RECOVERED")' \in SUBSET Cases
      /\ InStatus("RECOVERED") \in SUBSET (InStatus("RECOVERED")')
  BY DEF RowsGrow, InStatus
<1>2. /\ ClosedCases' \in SUBSET Cases
      /\ ClosedCases \in SUBSET (ClosedCases')
  BY DEF RowsGrow, ClosedCases
<1>3. /\ Existing' \in SUBSET Cases
      /\ Existing \in SUBSET (Existing')
  BY DEF RowsGrow, Existing
<1>4. /\ Acted' \in SUBSET (Cases \X ActionTypes)
      /\ Acted \in SUBSET (Acted')
  BY DEF RowsGrow, Acted
<1>5. /\ IsFiniteSet(Acted')
      /\ IsFiniteSet(Acted)
      /\ Cardinality(Acted) <= Cardinality(Acted')
  BY <1>4, FinitelyManyActions, FS_Subset
<1>6. Cardinality(Acted) \in Nat /\ Cardinality(Acted') \in Nat
  BY <1>5, FS_CardinalityType
<1> QED
  BY <1>1, <1>2, <1>3, <1>5, <1>6, SubsetCount

(* A commit of the write path takes nothing away from what has been shown. *)
LEMMA AnswerKept ==
    ASSUME TypeOK, TypeOK', SafetyInv, AgreementInv, AnswerInv, [Next]_vars,
           UNCHANGED readVars
    PROVE  AnswerInv'
<1>1. RowsGrow /\ DecidedInv'
  BY GrowStep DEF AnswerInv
<1>2. request' = request /\ view' = view /\ board' = board
  BY DEF readVars
<1>3. ReadTypes'
  BY <1>2 DEF AnswerInv, ReadTypes
<1>4. DetailExplains' /\ MetricsAddUp' /\ PageIsFull'
  BY <1>2 DEF AnswerInv, DetailExplains, MetricsAddUp, PageIsFull, Answered, Shown
<1>5. DetailInv'
  <2> SUFFICES ASSUME request.endpoint = "detail"
               PROVE  DetailInv'
    BY <1>2 DEF DetailInv
  <2>1. request.case \in Cases /\ DetailInv
    BY DEF AnswerInv, DetailInv
  <2>2. PICK c \in Cases : c = request.case
    BY <2>1
  <2>3. HasAction(c, ActionStatuses) => HasAction(c, ActionStatuses)'
    <3>1. HasAction(c, ActionStatuses) => \E t \in ActionTypes : action[c][t] # NoRow
      BY AnyAction
    <3>2. \A t \in ActionTypes : action'[c][t] # NoRow => action'[c][t] \in ActionStatuses
      BY DEF TypeOK, RowTypes, ActionRows
    <3> QED
      BY <1>1, <3>1, <3>2 DEF RowsGrow, HasAction
  <2>4. HasAction(c, { "EXECUTED" }) => HasAction(c, { "EXECUTED" })'
    BY <1>1 DEF RowsGrow, HasAction
  <2>5. /\ status[c] # NoRow => status'[c] # NoRow
        /\ status[c] = "RECOVERED" => status'[c] = "RECOVERED"
    BY <1>1 DEF RowsGrow
  <2>6. request'.case = c
    BY <1>2, <2>2
  <2> QED
    BY <1>2, <2>1, <2>2, <2>3, <2>4, <2>5, <2>6 DEF DetailInv, Shown
<1>6. MetricsInv'
  <2>1. MetricsInv
    BY DEF AnswerInv
  <2>2. Reached(board) => Reached(board)'
    BY <1>1, <1>2, CountsStep DEF Reached, Closed
  <2>3. Reached(view.totals) => Reached(view.totals)'
    BY <1>1, <1>2, CountsStep DEF Reached, Closed
  <2>4. ASSUME request.endpoint = "metrics", request.step >= 1
        PROVE  view.totals.stopped + view.totals.escalated <= Cardinality(Acted)'
    BY <1>1, <2>1, <2>4, CountsStep DEF MetricsInv, Reached
  <2> QED
    BY <1>2, <2>1, <2>2, <2>3, <2>4 DEF MetricsInv, Closed
<1>7. ListInv'
  BY <1>1, <1>2, CountsStep DEF AnswerInv, ListInv, base_query
<1> QED
  BY <1>1, <1>3, <1>4, <1>5, <1>6, <1>7 DEF AnswerInv

-----------------------------------------------------------------------------
(* How many SELECTs an endpoint runs. *)
LEMMA HowMany ==
    /\ Len(Selects("detail")) = 3
    /\ Len(Selects("metrics")) = 3
    /\ Len(Selects("list")) = 2
BY DEF Selects, get_case_explainability, get_merchant_metrics, get_paginated_cases

(* A request that comes in has seen nothing yet. *)
LEMMA RequestSafe ==
    ASSUME TypeOK, AnswerInv, Request
    PROVE  AnswerInv'
<1>1. /\ view' = view
      /\ board' = board
      /\ UNCHANGED << status, action, audit >>
  BY DEF Request, vars, rows
<1>2. /\ request'.step = 0
      /\ request'.endpoint \in Endpoints
      /\ request'.endpoint = "detail" =>
            request'.case \in Cases /\ status[request'.case] # NoRow
  BY DEF Request, RequestDetail, RequestMetrics, RequestList, NoRequest, Endpoints
<1>3. request' \in [ endpoint : Endpoints \cup { None }, case : Cases \cup { None },
                     offset : Nat, filter : CaseStatuses \cup { NoFilter },
                     step : 0..3 ]
  <2>1. /\ NoRequest.offset \in Nat /\ NoRequest.step \in 0..3
        /\ NoRequest.filter = NoFilter
    BY DEF NoRequest
  <2>2. \A o \in Offsets, f \in Filters :
           o \in Nat /\ f \in CaseStatuses \cup { NoFilter }
    BY LimitAssumption, FiltersAssumption
  <2> QED
    BY <2>1, <2>2 DEF Request, RequestDetail, RequestMetrics, RequestList, NoRequest,
       Endpoints
<1>4. ReadTypes'
  BY <1>1, <1>2, <1>3 DEF ReadTypes, AnswerInv, Endpoints, None
<1>5. ~Answered'
  BY <1>2, HowMany DEF Answered, Endpoints
<1>6. DecidedInv' /\ Reached(board)'
  BY <1>1 DEF AnswerInv, DecidedInv, HasAction, MetricsInv, Reached, InStatus,
     ClosedCases
<1> QED
  BY <1>1, <1>2, <1>4, <1>5, <1>6 DEF AnswerInv, DetailInv, MetricsInv, ListInv,
     DetailExplains, MetricsAddUp, PageIsFull

(* The figures shown are those of the answer. *)
LEMMA RespondSafe ==
    ASSUME TypeOK, AnswerInv, Respond
    PROVE  AnswerInv' /\ CountsGrow
<1>1. /\ request' = NoRequest
      /\ view' = NoView
      /\ board' = IF request.endpoint = "metrics" THEN view.totals ELSE board
      /\ UNCHANGED << status, action, audit >>
  BY DEF Respond, vars, rows
<1>2. request.endpoint = "metrics" => request.step = 3
  BY HowMany DEF Respond, Answered
<1>3. /\ Reached(board)
      /\ request.endpoint = "metrics" =>
            /\ Reached(view.totals)
            /\ board.recovered <= view.totals.recovered
            /\ Closed(board) <= Closed(view.totals)
  BY <1>2 DEF AnswerInv, MetricsInv
<1>4. Reached(board)'
  BY <1>1, <1>3 DEF Reached, InStatus, ClosedCases, Closed
<1>5. CountsGrow
  BY <1>1, <1>3 DEF CountsGrow, Reached, Closed
<1>6. ReadTypes'
  BY <1>1 DEF ReadTypes, NoRequest
<1>7. DecidedInv'
  BY <1>1 DEF AnswerInv, DecidedInv, HasAction
<1>8. request'.endpoint = None /\ ~Answered'
  BY <1>1 DEF NoRequest, Answered
<1> QED
  BY <1>4, <1>5, <1>6, <1>7, <1>8 DEF AnswerInv, DetailInv, MetricsInv, ListInv,
     DetailExplains, MetricsAddUp, PageIsFull, None

(* The parts of an answer. *)
LEMMA Parts ==
    DOMAIN NoView = { "case", "actions", "audits", "totals", "total_actions", "average",
                      "total_count", "items" }
BY DEF NoView

(* Which SELECT runs, by endpoint and step. *)
LEMMA WhichSelect ==
    ASSUME AnswerInv, RunSelect
    PROVE  \/ /\ request.endpoint = "detail"
              /\ \/ /\ request.step = 0
                    /\ view' = [ view EXCEPT !["case"] = Select("case") ]
                 \/ /\ request.step = 1
                    /\ view' = [ view EXCEPT !["actions"] = Select("actions") ]
                 \/ /\ request.step = 2
                    /\ view' = [ view EXCEPT !["audits"] = Select("audits") ]
           \/ /\ request.endpoint = "metrics"
              /\ \/ /\ request.step = 0
                    /\ view' = [ view EXCEPT !["totals"] = Select("totals") ]
                 \/ /\ request.step = 1
                    /\ view' = [ view EXCEPT !["total_actions"] =
                                   Select("total_actions") ]
                 \/ /\ request.step = 2
                    /\ view' = [ view EXCEPT !["average"] = Select("average") ]
           \/ /\ request.endpoint = "list"
              /\ \/ /\ request.step = 0
                    /\ view' = [ view EXCEPT !["total_count"] = Select("total_count") ]
                 \/ /\ request.step = 1
                    /\ view' = [ view EXCEPT !["items"] = Select("items") ]
<1> DEFINE part == Selects(request.endpoint)[request.step + 1]
<1>1. /\ request.endpoint \in Endpoints
      /\ request.step \in 0..3
      /\ request.step # Len(Selects(request.endpoint))
      /\ request.endpoint = "list" => request.step <= 2
  BY DEF AnswerInv, ReadTypes, RunSelect, Answered
<1>2. PICK q : q = part /\ view' = [ view EXCEPT ![q] = Select(q) ]
  BY DEF RunSelect
<1>3. CASE request.endpoint = "detail"
  <2>1. Selects(request.endpoint) = << "case", "actions", "audits" >>
    BY <1>3 DEF Selects, get_case_explainability
  <2>2. request.step = 0 \/ request.step = 1 \/ request.step = 2
    <3>1. request.step # 3
      BY <1>1, <1>3, HowMany
    <3> QED
      BY <1>1, <1>3, <3>1
  <2>3. CASE request.step = 0
    <3>1. part = "case"
      BY <2>1, <2>3
    <3> HIDE DEF part
    <3> QED
      BY <1>2, <1>3, <2>3, <3>1
  <2>4. CASE request.step = 1
    <3>1. part = "actions"
      BY <2>1, <2>4
    <3> HIDE DEF part
    <3> QED
      BY <1>2, <1>3, <2>4, <3>1
  <2>5. CASE request.step = 2
    <3>1. part = "audits"
      BY <2>1, <2>5
    <3> HIDE DEF part
    <3> QED
      BY <1>2, <1>3, <2>5, <3>1
  <2> QED
    BY <2>2, <2>3, <2>4, <2>5
<1>4. CASE request.endpoint = "metrics"
  <2>1. Selects(request.endpoint) = << "totals", "total_actions", "average" >>
    BY <1>4 DEF Selects, get_merchant_metrics
  <2>2. request.step = 0 \/ request.step = 1 \/ request.step = 2
    <3>1. request.step # 3
      BY <1>1, <1>4, HowMany
    <3> QED
      BY <1>1, <1>4, <3>1
  <2>3. CASE request.step = 0
    <3>1. part = "totals"
      BY <2>1, <2>3
    <3> HIDE DEF part
    <3> QED
      BY <1>2, <1>4, <2>3, <3>1
  <2>4. CASE request.step = 1
    <3>1. part = "total_actions"
      BY <2>1, <2>4
    <3> HIDE DEF part
    <3> QED
      BY <1>2, <1>4, <2>4, <3>1
  <2>5. CASE request.step = 2
    <3>1. part = "average"
      BY <2>1, <2>5
    <3> HIDE DEF part
    <3> QED
      BY <1>2, <1>4, <2>5, <3>1
  <2> QED
    BY <2>2, <2>3, <2>4, <2>5
<1>5. CASE request.endpoint = "list"
  <2>1. Selects(request.endpoint) = << "total_count", "items" >>
    BY <1>5 DEF Selects, get_paginated_cases
  <2>2. request.step = 0 \/ request.step = 1
    <3>1. request.step # 2
      BY <1>1, <1>5, HowMany
    <3> QED
      BY <1>1, <1>5, <3>1
  <2>3. CASE request.step = 0
    <3>1. part = "total_count"
      BY <2>1, <2>3
    <3> HIDE DEF part
    <3> QED
      BY <1>2, <1>5, <2>3, <3>1
  <2>4. CASE request.step = 1
    <3>1. part = "items"
      BY <2>1, <2>4
    <3> HIDE DEF part
    <3> QED
      BY <1>2, <1>5, <2>4, <3>1
  <2> QED
    BY <2>2, <2>3, <2>4
<1> QED
  BY <1>1, <1>3, <1>4, <1>5 DEF Endpoints

(* What a SELECT returns. *)
LEMMA Selected ==
    /\ Select("case") = status[request.case]
    /\ Select("actions") = action[request.case]
    /\ Select("audits") = audited_entries(request.case)
    /\ Select("totals") = merchant_totals
    /\ Select("total_actions") = Cardinality(Acted)
    /\ Select("average") = (InStatus("RECOVERED") # {})
    /\ Select("total_count") = Cardinality(base_query(request.filter))
    /\ Select("items") =
          page_size(Cardinality(base_query(request.filter)), request.offset)
BY DEF Select

(* A SELECT writes nothing, and adds one part to the answer. *)
LEMMA SelectFrame ==
    ASSUME TypeOK, AnswerInv, RunSelect
    PROVE  /\ UNCHANGED << status, action, audit, board >>
           /\ request'.endpoint = request.endpoint
           /\ request'.case = request.case
           /\ request'.offset = request.offset
           /\ request'.filter = request.filter
           /\ request'.step = request.step + 1
           /\ ReadTypes'
           /\ DecidedInv'
           /\ Reached(board)'
<1>1. UNCHANGED << status, action, audit, board >>
  BY DEF RunSelect, vars, rows
<1>2. /\ request \in [ endpoint : Endpoints \cup { None }, case : Cases \cup { None },
                       offset : Nat, filter : CaseStatuses \cup { NoFilter },
                       step : 0..3 ]
      /\ request' = [ request EXCEPT !.step = request.step + 1 ]
      /\ request.endpoint \in Endpoints
  BY DEF AnswerInv, ReadTypes, RunSelect
<1>3. /\ request'.endpoint = request.endpoint
      /\ request'.case = request.case
      /\ request'.offset = request.offset
      /\ request'.filter = request.filter
      /\ request'.step = request.step + 1
  BY <1>2
<1>4. /\ request.step \in 0..2
      /\ request.endpoint = "list" => request.step \in 0..1
  BY WhichSelect
<1>5. DOMAIN view' = DOMAIN NoView'
  <2>1. DOMAIN view' = DOMAIN view
    BY WhichSelect
  <2> QED
    BY <2>1 DEF AnswerInv, ReadTypes, NoView
<1>6. ReadTypes'
  <2>1. request' \in [ endpoint : Endpoints \cup { None }, case : Cases \cup { None },
                       offset : Nat, filter : CaseStatuses \cup { NoFilter },
                       step : 0..3 ]
    <3>1. request.step + 1 \in 0..3
      BY <1>4
    <3> QED
      BY <1>2, <3>1
  <2>2. request'.endpoint # None
    BY <1>2, <1>3 DEF Endpoints, None
  <2>3. request'.endpoint = "list" => request'.step <= 2
    BY <1>3, <1>4
  <2> QED
    BY <1>5, <2>1, <2>2, <2>3 DEF ReadTypes
<1>7. DecidedInv' /\ Reached(board)'
  BY <1>1 DEF AnswerInv, DecidedInv, HasAction, MetricsInv, Reached, InStatus,
     ClosedCases
<1> QED
  BY <1>1, <1>3, <1>6, <1>7

(* The three SELECTs of a case detail. *)
LEMMA DetailSelect ==
    ASSUME TypeOK, CaseAgreesWithAction, AuditMatchesRows, AnswerInv, RunSelect,
           request.endpoint = "detail"
    PROVE  AnswerInv'
<1>1. /\ UNCHANGED << status, action, audit, board >>
      /\ request'.endpoint = "detail"
      /\ request'.case = request.case
      /\ request'.step = request.step + 1
      /\ ReadTypes' /\ DecidedInv' /\ Reached(board)'
  BY SelectFrame
<1>2. PICK c \in Cases : c = request.case
  BY DEF AnswerInv, DetailInv
<1>3. /\ status[c] # NoRow
      /\ request'.case = c
      /\ DetailInv
  BY <1>1, <1>2 DEF AnswerInv, DetailInv
<1>4. DOMAIN view = { "case", "actions", "audits", "totals", "total_actions", "average",
                      "total_count", "items" }
  BY Parts DEF AnswerInv, ReadTypes
<1>5. /\ HasAction(c, ActionStatuses)' <=> HasAction(c, ActionStatuses)
      /\ HasAction(c, { "EXECUTED" })' <=> HasAction(c, { "EXECUTED" })
      /\ status'[c] = status[c]
  BY <1>1 DEF HasAction
<1>6. Answered' <=> request'.step = 3
  <2>1. request' # NoRequest
    BY <1>1 DEF NoRequest, None
  <2> QED
    BY <1>1, <2>1, HowMany DEF Answered
<1>7. CASE request.step = 0
  <2>1. view'.case = status[c]
    BY <1>2, <1>4, <1>7, WhichSelect, Selected
  <2>2. /\ status[c] \notin { "ELIGIBLE", "RECOVERED" } => HasAction(c, ActionStatuses)
        /\ status[c] = "WAITING" => HasAction(c, { "EXECUTED" })
    BY <1>3, Names DEF AnswerInv, DecidedInv, CaseAgreesWithAction, HasAction
  <2>3. DetailInv'
    BY <1>1, <1>2, <1>3, <1>5, <1>7, <2>1, <2>2 DEF DetailInv
  <2> QED
    BY <1>1, <1>6, <1>7, <2>3 DEF AnswerInv, MetricsInv, ListInv, DetailExplains,
       MetricsAddUp, PageIsFull
<1>8. CASE request.step = 1
  <2>1. view'.actions = action[c] /\ view'.case = view.case
    BY <1>2, <1>4, <1>8, WhichSelect, Selected
  <2>2. /\ Shown' # {} <=> \E t \in ActionTypes : action[c][t] # NoRow
        /\ HasAction(c, { "EXECUTED" }) =>
              \E t \in Shown' : view'.actions[t] = "EXECUTED"
    BY <2>1 DEF Shown, HasAction, NoRow
  <2>3. HasAction(c, ActionStatuses) <=> \E t \in ActionTypes : action[c][t] # NoRow
    BY AnyAction
  <2>4. DetailInv'
    BY <1>1, <1>2, <1>3, <1>5, <1>8, <2>1, <2>2, <2>3 DEF DetailInv
  <2> QED
    BY <1>1, <1>6, <1>8, <2>4 DEF AnswerInv, MetricsInv, ListInv, DetailExplains,
       MetricsAddUp, PageIsFull
<1>9. CASE request.step = 2
  <2>1. /\ view'.audits = audited_entries(c)
        /\ view'.case = view.case
        /\ view'.actions = view.actions
    BY <1>2, <1>4, <1>9, WhichSelect, Selected
  <2>2. /\ view'.audits["eligible"] = audit[c]["eligible"]
        /\ view'.audits["decision"] = audit[c]["decision"]
        /\ view'.audits["recovered"] = audit[c]["recovered"]
    BY <2>1, EntryNames DEF audited_entries, CaseEntries
  <2>3. /\ audit[c]["eligible"] = 1
        /\ HasAction(c, ActionStatuses) => audit[c]["decision"] = 1
        /\ status[c] = "RECOVERED" => audit[c]["recovered"] > 0
    BY <1>3 DEF AuditMatchesRows, AuditTells, Entered
  <2>4. Shown' = Shown
    BY <2>1 DEF Shown
  <2>5. DetailInv'
    BY <1>1, <1>2, <1>3, <1>5, <1>9, <2>1, <2>4 DEF DetailInv
  <2>6. DetailExplains'
    BY <1>2, <1>3, <1>9, <2>1, <2>2, <2>3, <2>4 DEF DetailInv, DetailExplains
  <2> QED
    BY <1>1, <2>5, <2>6 DEF AnswerInv, MetricsInv, ListInv, MetricsAddUp, PageIsFull
<1> QED
  BY <1>7, <1>8, <1>9, WhichSelect

(* The three SELECTs of the metrics. *)
LEMMA MetricsSelect ==
    ASSUME TypeOK, AnswerInv, RunSelect, request.endpoint = "metrics"
    PROVE  AnswerInv'
<1>1. /\ UNCHANGED << status, action, audit, board >>
      /\ request'.endpoint = "metrics"
      /\ request'.step = request.step + 1
      /\ ReadTypes' /\ DecidedInv' /\ Reached(board)'
  BY SelectFrame
<1>2. DOMAIN view = { "case", "actions", "audits", "totals", "total_actions", "average",
                      "total_count", "items" }
  BY Parts DEF AnswerInv, ReadTypes
<1>3. MetricsInv /\ Reached(board)
  BY DEF AnswerInv, MetricsInv
<1>4. /\ Acted' = Acted
      /\ InStatus("RECOVERED")' = InStatus("RECOVERED")
      /\ ClosedCases' = ClosedCases
  BY <1>1 DEF Acted, InStatus, ClosedCases
<1>5. Answered' <=> request'.step = 3
  <2>1. request' # NoRequest
    BY <1>1 DEF NoRequest, None
  <2> QED
    BY <1>1, <2>1, HowMany DEF Answered
<1>6. SUFFICES MetricsInv' /\ MetricsAddUp'
  BY <1>1 DEF AnswerInv, DetailInv, ListInv, DetailExplains, PageIsFull
<1>7. CASE request.step = 0
  <2>1. view'.totals = merchant_totals
    BY <1>2, <1>7, WhichSelect, Selected
  <2>2. /\ Reached(merchant_totals)
        /\ board.recovered <= merchant_totals.recovered
        /\ Closed(board) <= Closed(merchant_totals)
        /\ merchant_totals.stopped + merchant_totals.escalated <= Cardinality(Acted)
    BY <1>3, TotalsCount DEF AnswerInv, Reached
  <2>3. Reached(view'.totals) /\ Reached(view.totals)'
    BY <1>4, <2>1, <2>2 DEF Reached, Closed
  <2> QED
    BY <1>1, <1>4, <1>5, <1>7, <2>1, <2>2, <2>3 DEF MetricsInv, MetricsAddUp, Closed
<1>8. CASE request.step = 1
  <2>1. view'.total_actions = Cardinality(Acted) /\ view'.totals = view.totals
    BY <1>2, <1>8, WhichSelect, Selected
  <2>2. Reached(view.totals) => Reached(view.totals)'
    BY <1>4, <2>1 DEF Reached, Closed
  <2> QED
    BY <1>1, <1>3, <1>4, <1>5, <1>8, <2>1, <2>2 DEF MetricsInv, MetricsAddUp, Closed
<1>9. CASE request.step = 2
  <2>1. /\ view'.average = (InStatus("RECOVERED") # {})
        /\ view'.totals = view.totals
        /\ view'.total_actions = view.total_actions
    BY <1>2, <1>9, WhichSelect, Selected
  <2>2. Reached(view.totals) => Reached(view.totals)'
    BY <1>4, <2>1 DEF Reached, Closed
  <2>3. view.totals.recovered > 0 => InStatus("RECOVERED") # {}
    <3>1. /\ view.totals.recovered \in Nat
          /\ view.totals.recovered <= Cardinality(InStatus("RECOVERED"))
      BY <1>3, <1>9 DEF MetricsInv, Reached
    <3> QED
      BY <3>1, FS_EmptySet
  <2>4. MetricsInv'
    BY <1>1, <1>3, <1>4, <1>9, <2>1, <2>2 DEF MetricsInv, Closed
  <2>5. MetricsAddUp'
    <3>1. InStatus("RECOVERED") # {} => view'.average
      BY <2>1
    <3>2. view'.totals.stopped + view'.totals.escalated <= view'.total_actions
      BY <1>3, <1>9, <2>1 DEF MetricsInv
    <3>3. view'.totals.recovered > 0 => view'.average
      <4>1. view'.totals.recovered > 0 => InStatus("RECOVERED") # {}
        BY <2>1, <2>3
      <4> QED
        BY <3>1, <4>1, Zenon
    <3> QED
      BY <3>2, <3>3, Zenon DEF MetricsAddUp
  <2> QED
    BY <2>4, <2>5
<1> QED
  BY <1>7, <1>8, <1>9, WhichSelect

(* A page of a longer list has no fewer items. *)
LEMMA LongerPage ==
    ASSUME NEW m \in Nat, NEW n \in Nat, m <= n, NEW offset \in Nat
    PROVE  page_size(n, offset) >= page_size(m, offset)
<1>1. \A a, b \in Int : Min({ a, b }) = IF a <= b THEN a ELSE b
  BY DEF Min
<1> DEFINE rest(k) == IF offset < k THEN k - offset ELSE 0
<1>2. rest(m) \in Nat /\ rest(n) \in Nat /\ rest(m) <= rest(n)
  OBVIOUS
<1>3. Limit \in Int
  BY LimitAssumption
<1> HIDE DEF rest
<1>4. Min({ Limit, rest(n) }) >= Min({ Limit, rest(m) })
  BY <1>1, <1>2, <1>3
<1> QED
  BY <1>4 DEF page_size, rest

(* The two SELECTs of the case list. *)
LEMMA ListSelect ==
    ASSUME TypeOK, AnswerInv, RunSelect, request.endpoint = "list"
    PROVE  AnswerInv'
<1>1. /\ UNCHANGED << status, action, audit, board >>
      /\ request'.endpoint = "list"
      /\ request'.filter = request.filter
      /\ request'.offset = request.offset
      /\ request'.step = request.step + 1
      /\ ReadTypes' /\ DecidedInv' /\ Reached(board)'
  BY SelectFrame
<1>2. DOMAIN view = { "case", "actions", "audits", "totals", "total_actions", "average",
                      "total_count", "items" }
  BY Parts DEF AnswerInv, ReadTypes
<1>3. request.offset \in Nat
  BY DEF AnswerInv, ReadTypes
<1>4. PICK n \in Nat : n = Cardinality(base_query(request.filter))
  <2>1. base_query(request.filter) \in SUBSET Cases
    BY DEF base_query, Existing, InStatus
  <2> QED
    BY <2>1, SubsetCount
<1>5. Cardinality(base_query(request.filter))' = n
  BY <1>1, <1>4 DEF base_query, Existing, InStatus
<1>6. SUFFICES ListInv' /\ PageIsFull'
  BY <1>1 DEF AnswerInv, DetailInv, MetricsInv, DetailExplains, MetricsAddUp
<1>7. CASE request.step = 0
  <2>1. view'.total_count = n
    BY <1>2, <1>4, <1>7, WhichSelect, Selected
  <2>2. ~Answered'
    BY <1>1, <1>7, HowMany DEF Answered
  <2> QED
    BY <1>5, <2>1, <2>2 DEF ListInv, PageIsFull
<1>8. CASE request.step = 1
  <2>1. /\ view'.items = page_size(n, request.offset)
        /\ view'.total_count = view.total_count
    BY <1>2, <1>4, <1>8, WhichSelect, Selected
  <2>2. request.filter \in { NoFilter, "RECOVERED" } =>
           view.total_count \in Nat /\ view.total_count <= n
    BY <1>4, <1>8 DEF AnswerInv, ListInv
  <2>3. ListInv'
    BY <1>1, <1>5, <2>1, <2>2 DEF ListInv
  <2>4. request.filter \in { NoFilter, "RECOVERED" } =>
           page_size(n, request.offset) >= page_size(view.total_count, request.offset)
    BY <1>3, <2>2, LongerPage
  <2>5. page_size(view.total_count, request.offset)'
          = page_size(view.total_count, request.offset)
    BY <1>1, <2>1 DEF page_size
  <2> QED
    BY <1>1, <2>1, <2>3, <2>4, <2>5 DEF PageIsFull
<1> QED
  BY <1>7, <1>8, WhichSelect

-----------------------------------------------------------------------------
(* One step preserves the inductive invariant, and the figures on the board do
   not shrink. *)
LEMMA AnswerStep ==
    ASSUME TypeOK, TypeOK', SafetyInv, AgreementInv, AuditMatchesRows, AnswerInv,
           [DashboardNext]_<< vars, readVars >>
    PROVE  AnswerInv' /\ (CountsGrow \/ UNCHANGED << vars, readVars >>)
<1>1. board' = board => CountsGrow
  <2>1. Reached(board)
    BY DEF AnswerInv, MetricsInv
  <2> QED
    BY <2>1 DEF Reached, CountsGrow, Closed
<1>2. CASE Next /\ UNCHANGED readVars
  BY <1>1, <1>2, AnswerKept DEF readVars
<1>3. CASE Request
  BY <1>1, <1>3, RequestSafe DEF Request
<1>4. CASE RunSelect
  <2>1. AnswerInv'
    BY <1>4, WhichSelect, DetailSelect, MetricsSelect, ListSelect DEF AgreementInv
  <2> QED
    BY <1>1, <1>4, <2>1 DEF RunSelect
<1>5. CASE Respond
  BY <1>5, RespondSafe
<1>6. CASE UNCHANGED << vars, readVars >>
  BY <1>6, AnswerKept
<1> QED
  BY <1>2, <1>3, <1>4, <1>5, <1>6 DEF DashboardNext

(* Before the first request the board shows nothing. *)
LEMMA AnswerInit == DashboardInit => AnswerInv
<1> SUFFICES ASSUME DashboardInit
             PROVE  AnswerInv
  OBVIOUS
<1>1. /\ request = NoRequest
      /\ view = NoView
      /\ board.recovered = 0 /\ board.stopped = 0 /\ board.escalated = 0
      /\ Init
  BY DEF DashboardInit, NoView
<1>2. ReadTypes
  BY <1>1 DEF ReadTypes, NoRequest
<1>3. DecidedInv
  BY <1>1 DEF Init, DecidedInv, NoRow
<1>4. Reached(board)
  <2>1. /\ Cardinality(InStatus("RECOVERED")) \in Nat
        /\ Cardinality(ClosedCases) \in Nat
    <3>1. InStatus("RECOVERED") \in SUBSET Cases /\ ClosedCases \in SUBSET Cases
      BY DEF InStatus, ClosedCases
    <3> QED
      BY <3>1, SubsetCount
  <2> QED
    BY <1>1, <2>1 DEF Reached, Closed
<1>5. request.endpoint = None /\ ~Answered
  BY <1>1 DEF NoRequest, Answered
<1> QED
  BY <1>2, <1>3, <1>4, <1>5 DEF AnswerInv, DetailInv, MetricsInv, ListInv,
     DetailExplains, MetricsAddUp, PageIsFull, None

(* What the SELECTs of an unfinished request have shown stays true, in every
   reachable state. *)
THEOREM AnswersHold == DashboardSpec => []AnswerInv
<1>1. DashboardInit => AnswerInv
  BY AnswerInit
<1>2. /\ TypeOK /\ TypeOK' /\ SafetyInv /\ AgreementInv /\ AuditMatchesRows
      /\ AnswerInv /\ [DashboardNext]_<< vars, readVars >>
      => AnswerInv'
  BY AnswerStep
<1> QED
  BY <1>1, <1>2, OnlyReads, TypeCorrect, Safety, Agreement, AuditTrail, PTL
     DEF DashboardSpec

(* A case detail explains itself although its SELECTs see different moments. *)
THEOREM DetailsExplain == DashboardSpec => []DetailExplains
<1>1. AnswerInv => DetailExplains
  BY DEF AnswerInv
<1> QED
  BY <1>1, AnswersHold, PTL

(* The metrics add up across their SELECTs, for any number of cases. *)
THEOREM MetricsAgree == DashboardSpec => []MetricsAddUp
<1>1. AnswerInv => MetricsAddUp
  BY DEF AnswerInv
<1> QED
  BY <1>1, AnswersHold, PTL

(* A page has the items that the total above it promises. *)
THEOREM PagesAreFull == DashboardSpec => []PageIsFull
<1>1. AnswerInv => PageIsFull
  BY DEF AnswerInv
<1> QED
  BY <1>1, AnswersHold, PTL

(* The counts of recovered and of closed cases on the board never shrink. *)
THEOREM CountsNeverShrink == DashboardSpec => [][CountsGrow]_<< vars, readVars >>
<1>1. /\ TypeOK /\ TypeOK' /\ SafetyInv /\ AgreementInv /\ AuditMatchesRows
      /\ AnswerInv /\ [DashboardNext]_<< vars, readVars >>
      => [CountsGrow]_<< vars, readVars >>
  BY AnswerStep
<1> QED
  BY <1>1, AnswersHold, OnlyReads, TypeCorrect, Safety, Agreement, AuditTrail, PTL
     DEF DashboardSpec

=============================================================================
