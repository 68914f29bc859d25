----------------------------- MODULE Dashboard -----------------------------
(***************************************************************************)
(* The read path: the /dashboard endpoints (app/api/dashboard.py) and the  *)
(* SELECTs behind them (app/services/dashboard_service.py), run against    *)
(* the rows of RecoveryCore while webhooks and workers go on committing.   *)
(*                                                                         *)
(* A request is one READ COMMITTED transaction, so each of its SELECTs     *)
(* sees the rows as they are committed when it runs, not as the SELECT     *)
(* before it saw them.  One request is answered at a time: requests write  *)
(* nothing, so two of them never meet.                                     *)
(***************************************************************************)
EXTENDS RecoveryCore, Sequences, FiniteSetsExt

CONSTANTS
    Limit,    \* the limit parameter of the case list
    Offsets,  \* its offset parameter
    Filters   \* its status parameter: statuses, or NoFilter

NoFilter == "all"

ASSUME LimitAssumption == Limit \in 1..100 /\ Offsets \subseteq Nat
ASSUME FiltersAssumption == Filters \subseteq CaseStatuses \cup { NoFilter }
ASSUME CasesAssumption == IsFiniteSet(Cases)  \* the rows of a table

VARIABLES
    request,  \* the request being answered and how many SELECTs it has done
    view,     \* what those SELECTs returned
    board     \* the metrics shown last

readVars == << request, view, board >>

Endpoints == { "detail", "metrics", "list" }

NoRequest ==
    [ endpoint |-> None, case |-> None, offset |-> 0, filter |-> NoFilter,
      step |-> 0 ]

NoView ==
    [ case |-> NoRow,
      actions |-> [ t \in ActionTypes |-> NoRow ],
      audits |-> [ n \in AuditEntries |-> 0 ],
      totals |-> [ cases |-> 0, recovered |-> 0, stopped |-> 0, escalated |-> 0,
                   at_risk |-> 0, recovered_amount |-> 0 ],
      total_actions |-> 0,
      average |-> FALSE,
      total_count |-> 0,
      items |-> 0 ]

DashboardInit ==
    /\ Init
    /\ request = NoRequest
    /\ view = NoView
    /\ board = NoView.totals

-----------------------------------------------------------------------------
(* The SELECTs. *)

InStatus(st) == { c \in Cases : status[c] = st }

Existing == { c \in Cases : status[c] # NoRow }

(* The rows of recovery_actions, by case and type. *)
Acted == { ct \in Cases \X ActionTypes : action[ct[1]][ct[2]] # NoRow }

AmountOf(cases) == MapThenSumSet(LAMBDA c : facts[c].amount, cases)

(* Mutant of merchant_totals: scheduled cases are counted as stopped. *)
totals_wrong_status ==
    [ cases |-> Cardinality(Existing),
      recovered |-> Cardinality(InStatus("RECOVERED")),
      stopped |-> Cardinality(InStatus("ACTION_SCHEDULED")),
      escalated |-> Cardinality(InStatus("ESCALATED")),
      at_risk |-> AmountOf(Existing),
      recovered_amount |-> AmountOf(InStatus("RECOVERED")) ]

(* The aggregation of get_merchant_metrics, a single statement. *)
merchant_totals ==
    [ cases |-> Cardinality(Existing),
      recovered |-> Cardinality(InStatus("RECOVERED")),
      stopped |-> Cardinality(InStatus("STOPPED")),
      escalated |-> Cardinality(InStatus("ESCALATED")),
      at_risk |-> AmountOf(Existing),
      recovered_amount |-> AmountOf(InStatus("RECOVERED")) ]

(* base_query of get_paginated_cases *)
base_query(filter) ==
    IF filter = NoFilter THEN Existing ELSE InStatus(filter)

(* OFFSET and LIMIT: how many of n rows the page has. *)
page_size(n, offset) ==
    Min({ Limit, IF offset < n THEN n - offset ELSE 0 })

(* The audit rows of get_case_explainability: entity_type recovery_case. *)
audited_entries(c) ==
    [ n \in AuditEntries |-> IF n \in CaseEntries THEN audit[c][n] ELSE 0 ]

(* What the SELECT for a part of the answer returns.  The average time to
   recovery is only told apart from None. *)
Select(part) ==
    CASE part = "case" -> status[request.case]
      [] part = "actions" -> action[request.case]
      [] part = "audits" -> audited_entries(request.case)
      [] part = "totals" -> merchant_totals
      [] part = "total_actions" -> Cardinality(Acted)
      [] part = "average" -> InStatus("RECOVERED") # {}
      [] part = "total_count" -> Cardinality(base_query(request.filter))
      [] part = "items" ->
            page_size(Cardinality(base_query(request.filter)), request.offset)

(* Mutants of get_case_explainability, get_merchant_metrics and
   get_paginated_cases: the same SELECTs the other way round. *)
explain_backwards == << "audits", "actions", "case" >>

metrics_backwards == << "average", "total_actions", "totals" >>

page_before_count == << "items", "total_count" >>

(* The SELECTs of each endpoint, in order. *)
get_case_explainability == << "case", "actions", "audits" >>

get_merchant_metrics == << "totals", "total_actions", "average" >>

get_paginated_cases == << "total_count", "items" >>

Selects(endpoint) ==
    CASE endpoint = "detail" -> get_case_explainability
      [] endpoint = "metrics" -> get_merchant_metrics
      [] endpoint = "list" -> get_paginated_cases

-----------------------------------------------------------------------------
Answered ==
    /\ request # NoRequest
    /\ request.step = Len(Selects(request.endpoint))

(* read_case_detail; a case that does not exist is answered with 404. *)
RequestDetail(c) ==
    /\ status[c] # NoRow
    /\ request' = [ NoRequest EXCEPT !.endpoint = "detail", !.case = c ]

(* read_metrics *)
RequestMetrics == request' = [ NoRequest EXCEPT !.endpoint = "metrics" ]

(* read_cases *)
RequestList(offset, filter) ==
    request' = [ NoRequest EXCEPT !.endpoint = "list", !.offset = offset,
                                  !.filter = filter ]

(* A request comes in. *)
Request ==
    /\ request = NoRequest
    /\ \/ \E c \in Cases : RequestDetail(c)
       \/ RequestMetrics
       \/ \E o \in Offsets, f \in Filters : RequestList(o, f)
    /\ UNCHANGED << vars, view, board >>

(* Its next SELECT runs. *)
RunSelect ==
    /\ request # NoRequest
    /\ ~Answered
    /\ LET part == Selects(request.endpoint)[request.step + 1]
       IN  view' = [ view EXCEPT ![part] = Select(part) ]
    /\ request' = [ request EXCEPT !.step = @ + 1 ]
    /\ UNCHANGED << vars, board >>

(* The answer is shown, and the session closed. *)
Respond ==
    /\ Answered
    /\ board' = IF request.endpoint = "metrics" THEN view.totals ELSE board
    /\ request' = NoRequest
    /\ view' = NoView
    /\ UNCHANGED vars

DashboardNext ==
    \/ Next /\ UNCHANGED readVars
    \/ Request
    \/ RunSelect
    \/ Respond

DashboardSpec == DashboardInit /\ [][DashboardNext]_<< vars, readVars >>

-----------------------------------------------------------------------------
(* The actions in the answer. *)
Shown == { t \in ActionTypes : view.actions[t] # NoRow }

(* A case detail explains itself although its three SELECTs see three different
   moments: a case shown as decided comes with its action and the decision
   entry, one shown as waiting with the action that was executed, one shown as
   recovered with the entry that says so, and no action is shown without the
   decision behind it.  (Each SELECT may be later than the one before it, so
   what the first shows must never disappear.) *)
DetailExplains ==
    Answered /\ request.endpoint = "detail" =>
        /\ view.audits["eligible"] > 0
        /\ view.case \notin { "ELIGIBLE", "RECOVERED" } => Shown # {}
        /\ view.case = "WAITING" => \E t \in Shown : view.actions[t] = "EXECUTED"
        /\ view.case = "RECOVERED" => view.audits["recovered"] > 0
        /\ Shown # {} => view.audits["decision"] > 0

(* The metrics add up across their SELECTs: every case shown as stopped or
   escalated has an action in the total, and there is an average time to
   recovery if a case is shown as recovered. *)
MetricsAddUp ==
    Answered /\ request.endpoint = "metrics" =>
        /\ view.totals.stopped + view.totals.escalated <= view.total_actions
        /\ view.totals.recovered > 0 => view.average

(* A page is never shorter than the total shown above it promises, for the whole
   list and for the recovered cases: cases are not deleted and RECOVERED is
   final, and the count is taken first. *)
PageIsFull ==
    Answered /\ request.endpoint = "list"
             /\ request.filter \in { NoFilter, "RECOVERED" } =>
        view.items >= page_size(view.total_count, request.offset)

(* The cases counted as closed. *)
Closed(b) == b.recovered + b.stopped + b.escalated

CountsGrow ==
    /\ board'.recovered >= board.recovered
    /\ Closed(board') >= Closed(board)

(* From one refresh to the next the figures only grow: recovered cases and the
   recovered amount never shrink, and neither do the closed cases, although a
   closed case may still change from STOPPED or ESCALATED to RECOVERED. *)
FiguresNeverShrink ==
    [][CountsGrow /\ board'.recovered_amount >= board.recovered_amount]_
        << vars, readVars >>

-----------------------------------------------------------------------------
(* The inductive invariant behind these properties: what the SELECTs so far have
   shown is still true of the rows, or has only been added to. *)

ReadTypes ==
    /\ request \in [ endpoint : Endpoints \cup { None }, case : Cases \cup { None },
                     offset : Nat, filter : CaseStatuses \cup { NoFilter },
                     step : 0..3 ]
    /\ request.endpoint = None => request = NoRequest
    /\ request.endpoint = "list" => request.step <= 2
    /\ DOMAIN view = DOMAIN NoView

(* A case that has left ELIGIBLE other than by its payment has an action. *)
DecidedInv ==
    \A c \in Cases :
        status[c] \notin { NoRow, "ELIGIBLE", "RECOVERED" } =>
            HasAction(c, ActionStatuses)

DetailInv ==
    request.endpoint = "detail" =>
        /\ request.case \in Cases
        /\ status[request.case] # NoRow
        /\ request.step >= 1 =>
              /\ view.case \notin { "ELIGIBLE", "RECOVERED" } =>
                    HasAction(request.case, ActionStatuses)
              /\ view.case = "WAITING" => HasAction(request.case, { "EXECUTED" })
              /\ view.case = "RECOVERED" => status[request.case] = "RECOVERED"
        /\ request.step >= 2 =>
              /\ view.case \notin { "ELIGIBLE", "RECOVERED" } => Shown # {}
              /\ view.case = "WAITING" =>
                    \E t \in Shown : view.actions[t] = "EXECUTED"
              /\ Shown # {} => HasAction(request.case, ActionStatuses)

ClosedCases == { c \in Cases : is_terminal(status[c]) }

(* The counts of closed cases in b are numbers that the rows have reached. *)
Reached(b) ==
    /\ b.recovered \in Nat /\ b.stopped \in Nat /\ b.escalated \in Nat
    /\ b.recovered <= Cardinality(InStatus("RECOVERED"))
    /\ Closed(b) <= Cardinality(ClosedCases)

MetricsInv ==
    /\ Reached(board)
    /\ request.endpoint = "metrics" /\ request.step >= 1 =>
          /\ Reached(view.totals)
          /\ board.recovered <= view.totals.recovered
          /\ Closed(board) <= Closed(view.totals)
          /\ view.totals.stopped + view.totals.escalated <= Cardinality(Acted)
          /\ request.step >= 2 =>
                view.totals.stopped + view.totals.escalated <= view.total_actions

ListInv ==
    /\ request.endpoint = "list"
    /\ request.filter \in { NoFilter, "RECOVERED" }
    /\ request.step >= 1
    => /\ view.total_count \in Nat
       /\ view.total_count <= Cardinality(base_query(request.filter))

AnswerInv ==
    /\ ReadTypes
    /\ DecidedInv
    /\ DetailInv
    /\ MetricsInv
    /\ ListInv
    /\ DetailExplains
    /\ MetricsAddUp
    /\ PageIsFull

=============================================================================
