------------------------------ MODULE TuiState ------------------------------
(***************************************************************************)
(* The state of the TUI (struct App) and what update does to it, one       *)
(* operator per branch: the list of runs and its index, cursors, screens,  *)
(* overlays, filters and visual mode.  Row numbers start at 0, as in the   *)
(* code.  What is only drawn (status bar, spinner, scroll offset) and the  *)
(* search matches, which nothing ever fills, are left out.                 *)
(***************************************************************************)
EXTENDS Calculation, Integers, Sequences, FiniteSets

CONSTANTS
    Runs,            \* run ids: positive numbers
    FilterStatuses,  \* FILTER_STATUSES: "all" first
    HalfPage         \* rows of half a page: 10

ASSUME TuiStateAssumption ==
    /\ Runs \subseteq Nat \ {0}
    /\ FilterStatuses \in Seq(STRING) /\ FilterStatuses # <<>> /\ FilterStatuses[1] = "all"
    /\ HalfPage \in Nat \ {0}

None == 0          \* no cursor of a next page
NoAnchor == -1     \* not in visual mode
Closed == [kind |-> "none"]

\* A run as the server sent it: [id, status, calcs], each calculation with its
\* status and whether it has a result.  search: the runs that match the query.
NewApp ==
    [runs |-> <<>>, index |-> <<>>, screen |-> "RunList", pane |-> "RunList",
     runCursor |-> 0, calcCursor |-> 0, overlay |-> Closed, status |-> "all",
     search |-> Runs, next |-> None, loading |-> TRUE, anchor |-> NoAnchor]

Lesser(i, j) == IF i <= j THEN i ELSE j
Minus(i, j) == IF i <= j THEN 0 ELSE i - j     \* saturating_sub

\* The members of a finite set, in order.
Ordered(S, Before(_, _)) ==
    LET place(x) == Cardinality({y \in S : y = x \/ Before(y, x)})
    IN [k \in 1..Cardinality(S) |-> CHOOSE x \in S : place(x) = k]

----------------------------------------------------------------------------
(* App                                                                     *)

VisibleRuns(app) ==
    LET visible == {k \in DOMAIN app.runs : /\ app.status \in {"all", app.runs[k].status}
                                            /\ app.runs[k].id \in app.search}
        row == Ordered(visible, <)
    IN [k \in DOMAIN row |-> app.runs[row[k]]]

\* 0 when nothing is visible.
LastRow(app) == Minus(Len(VisibleRuns(app)), 1)

HasSelectedRun(app) == app.runCursor < Len(VisibleRuns(app))
SelectedRun(app) == VisibleRuns(app)[app.runCursor + 1]
LastCalc(app) == Minus(Len(SelectedRun(app).calcs), 1)

HasSelectedCalc(app) == HasSelectedRun(app) /\ app.calcCursor < Len(SelectedRun(app).calcs)
SelectedCalc(app) == SelectedRun(app).calcs[app.calcCursor + 1]
SelectedCalcId(app) == <<SelectedRun(app).id, app.calcCursor + 1>>

UpsertRun(app, run) ==
    IF run.id \in DOMAIN app.index
    THEN [app EXCEPT !.runs[app.index[run.id]] = run]
    ELSE [app EXCEPT !.runs = Append(@, run),
                     !.index = [r \in DOMAIN @ \cup {run.id} |->
                                   IF r = run.id THEN Len(app.runs) + 1 ELSE @[r]]]

\* One after the other.
UpsertRuns(app, runs) ==
    LET after[k \in 0..Len(runs)] ==
            IF k = 0 THEN app ELSE UpsertRun(after[k - 1], runs[k])
    IN after[Len(runs)]

\* The status of the run itself stays what it was.
UpdateCalcStatus(app, calc, status) ==
    IF calc[1] \in DOMAIN app.index
    THEN [app EXCEPT !.runs[app.index[calc[1]]].calcs[calc[2]].status = status]
    ELSE app

\* The visible rows between anchor and cursor, both included.
VisualRuns(app) ==
    LET lo == Lesser(app.anchor, app.runCursor)
        hi == IF lo = app.anchor THEN app.runCursor ELSE app.anchor
    IN SubSeq(VisibleRuns(app), lo + 1, Lesser(hi + 1, Len(VisibleRuns(app))))

----------------------------------------------------------------------------
(* Messages                                                                *)

\* Mutant of RunsLoaded: the index of the old list is kept.
RunsLoadedIndexKept(app, runs, next) ==
    [UpsertRuns([app EXCEPT !.runs = <<>>], runs) EXCEPT !.next = next, !.loading = FALSE]

\* Mutant of RunsLoaded: an empty list is ignored.
RunsLoadedUnlessEmpty(app, runs, next) ==
    IF runs = <<>> THEN app
    ELSE [UpsertRuns([app EXCEPT !.runs = <<>>, !.index = <<>>], runs)
             EXCEPT !.next = next, !.loading = FALSE]

\* The cursors are left where they were.
RunsLoaded(app, runs, next) ==
    [UpsertRuns([app EXCEPT !.runs = <<>>, !.index = <<>>], runs)
        EXCEPT !.next = next, !.loading = FALSE]

MoreRunsLoaded(app, runs, next) == [UpsertRuns(app, runs) EXCEPT !.next = next]

----------------------------------------------------------------------------
(* Keys without effects, when no overlay is open                           *)

Focus(app, direction) ==
    [app EXCEPT !.pane =
        IF direction = "prev" THEN IF @ = "Detail" THEN "CalcList" ELSE "RunList"
        ELSE IF @ = "RunList" THEN "CalcList" ELSE "Detail"]

\* q outside the run list.
Leave(app) == [app EXCEPT !.screen = "RunList", !.pane = "RunList"]

\* Esc: visual mode first.
Back(app) ==
    IF app.anchor # NoAnchor THEN [app EXCEPT !.anchor = NoAnchor]
    ELSE [app EXCEPT !.screen = "RunList",
                     !.pane = IF app.screen = "CalcDetail" THEN "CalcList" ELSE "RunList"]

Dashboard(app) ==
    [app EXCEPT !.screen = IF @ = "Dashboard" THEN "RunList" ELSE "Dashboard"]

\* count moves of one row each; the detail pane scrolls instead.
MoveDown(app, count) ==
    CASE app.pane = "RunList"  -> [app EXCEPT !.calcCursor = 0,
                                      !.runCursor = IF @ < LastRow(app)
                                                    THEN Lesser(@ + count, LastRow(app)) ELSE @]
      [] app.pane = "CalcList" /\ HasSelectedRun(app) ->
                                  [app EXCEPT !.calcCursor =
                                      IF @ < LastCalc(app)
                                      THEN Lesser(@ + count, LastCalc(app)) ELSE @]
      [] OTHER -> app

MoveUp(app, count) ==
    CASE app.pane = "RunList"  -> [app EXCEPT !.runCursor = Minus(@, count), !.calcCursor = 0]
      [] app.pane = "CalcList" -> [app EXCEPT !.calcCursor = Minus(@, count)]
      [] OTHER -> app

GotoTop(app) ==
    CASE app.pane = "RunList"  -> [app EXCEPT !.runCursor = 0]
      [] app.pane = "CalcList" -> [app EXCEPT !.calcCursor = 0]
      [] OTHER -> app

GotoBottom(app) ==
    CASE app.pane = "RunList" -> [app EXCEPT !.runCursor = LastRow(app)]
      [] app.pane = "CalcList" /\ HasSelectedRun(app) -> [app EXCEPT !.calcCursor = LastCalc(app)]
      [] OTHER -> app

HalfPageDown(app, count) ==
    CASE app.pane = "RunList" ->
            [app EXCEPT !.runCursor = Lesser(@ + HalfPage * count, LastRow(app))]
      [] app.pane = "CalcList" /\ HasSelectedRun(app) ->
            [app EXCEPT !.calcCursor = Lesser(@ + HalfPage * count, LastCalc(app))]
      [] OTHER -> app

HalfPageUp(app, count) ==
    CASE app.pane = "RunList"  -> [app EXCEPT !.runCursor = Minus(@, HalfPage * count)]
      [] app.pane = "CalcList" -> [app EXCEPT !.calcCursor = Minus(@, HalfPage * count)]
      [] OTHER -> app

Enter(app) ==
    CASE app.pane = "RunList" /\ HasSelectedRun(app) ->
            [app EXCEPT !.screen = "RunDetail", !.pane = "CalcList", !.calcCursor = 0]
      [] app.pane = "CalcList" /\ HasSelectedCalc(app) ->
            [app EXCEPT !.screen = "CalcDetail", !.pane = "Detail"]
      [] OTHER -> app

VisualToggle(app) ==
    IF app.pane # "RunList" THEN app
    ELSE [app EXCEPT !.anchor = IF @ = NoAnchor THEN app.runCursor ELSE NoAnchor]

\* The overlay opens on the filter in force, or on the first.
FilterOverlay(app) ==
    LET at == {i \in DOMAIN FilterStatuses : FilterStatuses[i] = app.status}
    IN [app EXCEPT !.overlay = [kind |-> "filter",
                                cursor |-> IF at = {} THEN 1 ELSE CHOOSE i \in at : TRUE]]

----------------------------------------------------------------------------
(* Keys in an overlay                                                      *)

FilterMove(app, by) ==
    IF app.overlay.cursor + by \in DOMAIN FilterStatuses
    THEN [app EXCEPT !.overlay.cursor = @ + by] ELSE app

FilterChoose(app) ==
    [app EXCEPT !.status = FilterStatuses[app.overlay.cursor], !.runCursor = 0, !.overlay = Closed]

Close(app) == [app EXCEPT !.overlay = Closed]
=============================================================================
