---------------------------- MODULE ResultPanel ----------------------------
(***************************************************************************)
(* What the result grid and the table views show.                          *)
(*                                                                         *)
(* There is one grid: the columns and rows of UiState belong to the result *)
(* panel and to every table view.  A query result is kept aside, whole, by *)
(* the event task (original_data); the filter and the sort of the panel    *)
(* are computed from it on the UI thread.  The data and the DDL of a table *)
(* view come from tasks of their own and are not kept.                     *)
(*                                                                         *)
(* Results arrive in any order.  Taking one from the event channel and     *)
(* handling it is one step, Arrive; what the handler leaves to the UI      *)
(* thread is a closure, run in order and between two callbacks of the      *)
(* user.  Rows are named, not computed: the result they come from and the  *)
(* filter and sort that were applied to it.                                *)
(***************************************************************************)
EXTENDS Naturals, Sequences, FiniteSets, SequencesExt

CONSTANTS
    Tables,     \* tables that can be opened
    Columns,    \* columns of a result
    Filters,    \* predicates of the filter field other than the empty one
    None,       \* no table, no column, no filter, no result
    MaxQueries, \* bound on the queries run
    MaxFetches  \* bound on the fetches of table data and DDL

ASSUME NoneIsNone == None \notin Tables \cup Columns \cup Filters
ASSUME BoundsNat == MaxQueries \in Nat /\ MaxFetches \in Nat

VARIABLES
    views,      \* the table view tabs, after one SQL tab
    active,     \* the active tab, 0 the SQL tab
    tvTable,    \* UiState.tv-table-name
    tvLoading,  \* UiState.tv-data-loading
    tvDdl,      \* UiState.tv-ddl: the object it describes
    ddlLoading, \* UiState.tv-ddl-loading
    orig,       \* original_data: a query result, and the sort it is under
    cols,       \* UiState.result-columns: the result they are of
    shownRows,  \* UiState.result-rows: the result, the filter and the sort
    filter,     \* UiState.result-active-filter
    sort,       \* UiState.result-sort-col and -asc
    work,       \* runs and fetches that have not been answered yet
    closures,   \* what invoke_from_event_loop has queued
    mixed,      \* the panel was used while it did not show original_data
    queries, fetches

tvVars    == <<views, active, tvTable, tvLoading, tvDdl, ddlLoading>>
gridVars  == <<cols, shownRows, filter, sort>>
panelVars == <<tvVars, orig, gridVars, work, closures, mixed, queries, fetches>>

Query(n)  == [kind |-> "query", n |-> n]
Table(t)  == [kind |-> "table", table |-> t]
Queries   == [kind : {"query"}, n : 1 .. MaxQueries]
Results   == Queries \cup [kind : {"table"}, table : Tables]

Unsorted  == [col |-> None, asc |-> TRUE]
Sorts     == [col : Columns \cup {None}, asc : BOOLEAN]

(* The rows of a result under a filter and a sort.                         *)
Rows(r, f, s) == [of |-> r, filter |-> f, sort |-> s]

Work == [kind : {"query"}, n : 1 .. MaxQueries]
        \cup [kind : {"data", "ddl"}, table : Tables, n : 1 .. MaxFetches]

PanelTypeOK ==
    /\ views \in Seq(Tables) /\ active \in 0 .. Len(views)
    /\ IsInjective(views)
    /\ tvTable \in Tables \cup {None} /\ tvDdl \in Tables \cup {None}
    /\ tvLoading \in BOOLEAN /\ ddlLoading \in BOOLEAN
    /\ orig \in [of : Queries, sort : Sorts] \cup {None}
    /\ cols \in Results \cup {None}
    /\ shownRows \in [of : Results, filter : Filters \cup {None}, sort : Sorts] \cup {None}
    /\ filter \in Filters \cup {None} /\ sort \in Sorts
    /\ work \subseteq Work
    /\ closures \in Seq([of : {"finished"}, n : 1 .. MaxQueries]
                        \cup [of : {"data", "ddl"}, table : Tables, ok : BOOLEAN])
    /\ mixed \in BOOLEAN /\ queries \in 0 .. MaxQueries /\ fetches \in 0 .. MaxFetches

PanelInit ==
    /\ views = <<>> /\ active = 0
    /\ tvTable = None /\ tvLoading = FALSE /\ tvDdl = None /\ ddlLoading = FALSE
    /\ orig = None
    /\ cols = None /\ shownRows = None /\ filter = None /\ sort = Unsorted
    /\ work = {} /\ closures = <<>>
    /\ mixed = FALSE /\ queries = 0 /\ fetches = 0

-----------------------------------------------------------------------------
(* The user runs queries and works in the result panel of the SQL tab.     *)

PanelUnchanged == UNCHANGED <<tvVars, work, closures, queries, fetches>>

RunQuery ==
    /\ active = 0 /\ queries < MaxQueries
    /\ queries' = queries + 1
    /\ work' = work \cup {Query(queries')}
    /\ UNCHANGED <<tvVars, orig, gridVars, closures, mixed, fetches>>

(* The panel does not show original_data: table data came after it, or its *)
(* own closure has not run yet.                                            *)
Behind == cols # orig.of \/ (\E i \in DOMAIN closures : closures[i].of = "finished")

(* filter-result-rows and clear-result-filter; the sort is that of         *)
(* original_data.                                                          *)
FilterRows(f) ==
    /\ active = 0 /\ orig # None
    /\ shownRows' = Rows(orig.of, f, orig.sort)
    /\ filter' = f
    /\ mixed' = (mixed \/ Behind)
    /\ UNCHANGED <<orig, cols, sort>> /\ PanelUnchanged

Toggled(c) == [col |-> c, asc |-> IF orig.sort.col = c THEN ~ orig.sort.asc ELSE TRUE]

(* Mutant: the sort shows all rows and keeps the filter.                   *)
UnfilteredSort(c) ==
    /\ active = 0 /\ orig # None
    /\ orig' = [orig EXCEPT !.sort = Toggled(c)]
    /\ shownRows' = Rows(orig.of, None, Toggled(c))
    /\ sort' = Toggled(c)
    /\ mixed' = (mixed \/ Behind)
    /\ UNCHANGED <<cols, filter>> /\ PanelUnchanged

(* sort-result-col: the filter is that of the UI.                          *)
SortRows(c) ==
    /\ active = 0 /\ orig # None
    /\ orig' = [orig EXCEPT !.sort = Toggled(c)]
    /\ shownRows' = Rows(orig.of, filter, Toggled(c))
    /\ sort' = Toggled(c)
    /\ mixed' = (mixed \/ Behind)
    /\ UNCHANGED <<cols, filter>> /\ PanelUnchanged

-----------------------------------------------------------------------------
(* Table views.                                                            *)

Fetch(kind, t) ==
    /\ fetches < MaxFetches
    /\ fetches' = fetches + 1
    /\ work' = work \cup {[kind |-> kind, table |-> t, n |-> fetches']}

TvUnchanged == UNCHANGED <<orig, gridVars, closures, mixed, queries>>

find_table_view(t) == t \in Range(views)

(* A new view fetches its data; one that is open already shows what there  *)
(* is.                                                                     *)
OpenTable(t) ==
    /\ tvTable' = t /\ tvDdl' = None /\ ddlLoading' = FALSE
    /\ IF find_table_view(t)
       THEN /\ active' \in {i \in DOMAIN views : views[i] = t}
            /\ tvLoading' = FALSE
            /\ UNCHANGED <<views, work, fetches>>
       ELSE /\ views' = Append(views, t) /\ active' = Len(views')
            /\ tvLoading' = TRUE
            /\ Fetch("data", t)
    /\ TvUnchanged

SwitchTab(i) ==
    /\ active' = i
    /\ tvTable' = IF i = 0 THEN tvTable ELSE views[i]
    /\ UNCHANGED <<views, tvLoading, tvDdl, ddlLoading, work, fetches>>
    /\ TvUnchanged

(* close-tab leaves the name, the data and the DDL of the view alone.      *)
CloseView(i) ==
    /\ views' = RemoveAt(views, i)
    /\ active' = IF active > Len(views') THEN Len(views') ELSE active
    /\ UNCHANGED <<tvTable, tvLoading, tvDdl, ddlLoading, work, fetches>>
    /\ TvUnchanged

(* Refresh, and another number of rows: for the view of the table that is  *)
(* named, if it is still open.                                             *)
RefreshData ==
    /\ active # 0 /\ find_table_view(tvTable)
    /\ tvLoading' = TRUE
    /\ Fetch("data", tvTable)
    /\ UNCHANGED <<views, active, tvTable, tvDdl, ddlLoading>>
    /\ TvUnchanged

FetchDdl ==
    /\ active # 0 /\ find_table_view(tvTable)
    /\ tvDdl' = None /\ ddlLoading' = TRUE
    /\ Fetch("ddl", tvTable)
    /\ UNCHANGED <<views, active, tvTable, tvLoading>>
    /\ TvUnchanged

-----------------------------------------------------------------------------
(* Answers.                                                                *)

ArriveUnchanged == UNCHANGED <<tvVars, gridVars, mixed, queries, fetches>>

(* handle_query_finished: original_data now, the grid by a closure.        *)
QueryFinished(w) ==
    /\ w.kind = "query"
    /\ orig' = [of |-> w, sort |-> Unsorted]
    /\ closures' = Append(closures, [of |-> "finished", n |-> w.n])
    /\ work' = work \ {w}
    /\ ArriveUnchanged

(* An error or a cancellation leaves the grid alone.                       *)
QueryFailed(w) ==
    /\ w.kind = "query"
    /\ work' = work \ {w}
    /\ UNCHANGED <<orig, closures>> /\ ArriveUnchanged

(* TableDataLoaded or -Failed, DdlLoaded or -FetchFailed: the handlers do  *)
(* not look at the tab the answer is for.                                  *)
Fetched(w) ==
    /\ w.kind \in {"data", "ddl"}
    /\ \E ok \in BOOLEAN :
         closures' = Append(closures, [of |-> w.kind, table |-> w.table, ok |-> ok])
    /\ work' = work \ {w}
    /\ UNCHANGED orig /\ ArriveUnchanged

(* Everything the panel says of its rows is reset with them.               *)
ShowResult(n) ==
    /\ cols' = Query(n) /\ shownRows' = Rows(Query(n), None, Unsorted)
    /\ filter' = None /\ sort' = Unsorted
    /\ UNCHANGED <<tvLoading, tvDdl, ddlLoading>>

(* Mutant: the rows arrive and the loading flag stays.                     *)
ShowDataOnly(c) ==
    /\ c.ok => cols' = Table(c.table) /\ shownRows' = Rows(Table(c.table), None, Unsorted)
    /\ ~ c.ok => UNCHANGED <<cols, shownRows>>
    /\ tvLoading' = IF c.ok THEN FALSE ELSE tvLoading
    /\ UNCHANGED <<filter, sort, tvDdl, ddlLoading>>

(* Table data goes into the grid as it is.                                 *)
ShowData(c) ==
    /\ tvLoading' = FALSE
    /\ IF c.ok
       THEN cols' = Table(c.table) /\ shownRows' = Rows(Table(c.table), None, Unsorted)
       ELSE UNCHANGED <<cols, shownRows>>
    /\ UNCHANGED <<filter, sort, tvDdl, ddlLoading>>

ShowDdl(c) ==
    /\ tvDdl' = (IF c.ok THEN c.table ELSE None) /\ ddlLoading' = FALSE
    /\ UNCHANGED <<gridVars, tvLoading>>

RunClosure ==
    /\ closures # <<>> /\ closures' = Tail(closures)
    /\ LET c == Head(closures) IN
         \/ c.of = "finished" /\ ShowResult(c.n)
         \/ c.of = "data" /\ ShowData(c)
         \/ c.of = "ddl" /\ ShowDdl(c)
    /\ UNCHANGED <<views, active, tvTable, orig, work, mixed, queries, fetches>>

Arrive == \E w \in work : QueryFinished(w) \/ QueryFailed(w) \/ Fetched(w)

User ==
    \/ RunQuery
    \/ \E f \in Filters \cup {None} : FilterRows(f)
    \/ \E c \in Columns : SortRows(c)
    \/ \E t \in Tables : OpenTable(t)
    \/ \E i \in 0 .. Len(views) : SwitchTab(i)
    \/ \E i \in DOMAIN views : CloseView(i)
    \/ RefreshData \/ FetchDdl

PanelNext == User \/ Arrive \/ RunClosure

PanelSpec == PanelInit /\ [][PanelNext]_panelVars

(* A task ends, and the event loop runs what is queued; the user may stop. *)
PanelFairSpec == PanelSpec /\ WF_panelVars(Arrive) /\ WF_panelVars(RunClosure)

-----------------------------------------------------------------------------
(* Properties.                                                             *)

(* While the grid has a query result under its columns, the rows are of    *)
(* that same result, and the filter and the sort shown over them are those *)
(* they were made with, and the next click goes on from: whichever results *)
(* arrived in between, as long as the panel is not used in the moment      *)
(* original_data is ahead of the grid or the grid has table data.          *)
PanelCoherent ==
    ~ mixed /\ cols # None /\ cols.kind = "query" =>
        /\ shownRows = Rows(cols, filter, sort)
        /\ orig.of = cols => orig.sort = sort

(* A spinner of a table view turns only while an answer that will stop it  *)
(* is on its way: no path of a fetch ends without an event.                *)
SpinnersHaveCause ==
    LET Outstanding(kind) == \/ \E w \in work : w.kind = kind
                             \/ \E i \in DOMAIN closures : closures[i].of = kind IN
    (tvLoading => Outstanding("data")) /\ (ddlLoading => Outstanding("ddl"))

(* Both spinners stop for good once the user stops clicking.               *)
SpinnersStop == <>[](~ tvLoading /\ ~ ddlLoading)
=============================================================================
