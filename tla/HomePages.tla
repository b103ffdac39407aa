----------------------------- MODULE HomePages -----------------------------
(***************************************************************************)
(* One running program: its pages, the calendar of a month, the panel of   *)
(* upcoming maintenance next to it, the AGV list, and how they learn that  *)
(* rows of the database changed.  Nothing reads the database again by      *)
(* itself.  A handler that wrote rows emits signals, and their slots       *)
(* decide what is read again: at once, by a timer of zero length, or when  *)
(* the page is opened next (pendingCalendarReload_, agvListDirty_).  The   *)
(* events of the calendar come from a cache that only two of the signals   *)
(* empty.  Resizing the window builds every page anew.                     *)
(*                                                                         *)
(* An AGV has at most one task, and a date is its month.  Left out: the    *)
(* AGVs a viewer may not see, what the panel does with tasks completed     *)
(* today and the reminders sent when it is filled, the counters, and the   *)
(* search field except on the list.  The years have MaxMonth months        *)
(* together.  Dialogs are answered at once.                                *)
(***************************************************************************)
EXTENDS Integers, Sequences

CONSTANTS
    Agvs,
    MaxMonth,       \* the last month of maxYear, counted from the first of minYear
    Near,           \* the last month of which a task is overdue or due within a week
    MaxChanges      \* bound: clicks, changes by others and polls, together

ASSUME HomeBounds == MaxMonth \in Nat \ {0} /\ Near \in Nat /\ MaxChanges \in Nat

Months == 1 .. MaxMonth
Pages == {"calendar", "list", "card", "other"}

VARIABLES
    due,            \* due[a]: month of the task of AGV a, 0 without a task (database)
    view,           \* the leftMenu widget
    onCalendar,     \* AGVs unchanged since the signals that empty the cache (observer)
    onList,         \* AGVs that only this program has changed, and all since (observer)
    onPanel,        \* AGVs unchanged since the signals that fill the panel (observer)
    quiet,          \* this program wrote nothing since a search hid rows of the list (observer)
    changes         \* what happened so far (bound)

observers == <<onCalendar, onList, onPanel, quiet>>
vars == <<due, view, observers, changes>>

Dates == [Agvs -> Months \cup {0}]

\* cache: calendarEventsCache...; grid: calendarTablePtr and calendarEventsByDate_;
\* highlight: calendarHighlightActive_, while its timer runs; lit: cells drawn
\* highlighted; timers: the zero-length timers in their order, where "dropped" is
\* one that fills a table of an earlier calendarLoadGeneration_ and "load" is the one
\* of scheduleDeferredStartupLoads; panel: AGVs in rightUpcomingMaintenanceFrame;
\* partial: the list holds only what a search found.
View == [page: Pages, month: Months,
         cache: [month: Months \cup {0}, events: SUBSET Agvs],
         grid: [month: Months, events: SUBSET Agvs],
         highlight: BOOLEAN, lit: BOOLEAN, pending: BOOLEAN,
         timers: Seq({"rebuild", "fill", "dropped", "load"}), panel: SUBSET Agvs,
         listDirty: BOOLEAN, rendered: BOOLEAN, listed: Dates, partial: BOOLEAN]

Empty == [month |-> 0, events |-> {}]

\* The AGVs that loadUpcomingMaintenance returns.
Upcoming(dates) == {a \in Agvs : dates[a] # 0 /\ dates[a] <= Near}

\* The program as its start leaves it once its first timers have fired.
Init ==
    /\ due \in Dates
    /\ \E m \in Months :
           LET events == {a \in Agvs : due[a] = m}
           IN  view = [page |-> "calendar", month |-> m, cache |-> [month |-> m, events |-> events],
                       grid |-> [month |-> m, events |-> events],
                       highlight |-> FALSE, lit |-> FALSE, pending |-> FALSE, timers |-> <<>>,
                       panel |-> Upcoming(due), listDirty |-> TRUE, rendered |-> FALSE,
                       listed |-> [a \in Agvs |-> 0], partial |-> FALSE]
    /\ onCalendar = Agvs /\ onList = Agvs /\ onPanel = Agvs /\ quiet = TRUE
    /\ changes = 0

-----------------------------------------------------------------------------
\* buildCalendarTable: an empty table of the selected month, filled by a timer.
BuildCalendarTable(v) ==
    [v EXCEPT !.grid = [month |-> v.month, events |-> {}],
              !.lit = v.highlight,
              !.timers = Append([i \in DOMAIN v.timers |->
                                    IF v.timers[i] = "fill" THEN "dropped" ELSE v.timers[i]],
                                "fill")]

\* setSelectedMonthYear
SetSelectedMonthYear(v, m) == BuildCalendarTable([v EXCEPT !.month = m])

\* loadCalendarEventsRange: an empty result is never taken from the cache.
Events(v) ==
    IF v.cache.month = v.grid.month /\ v.cache.events # {}
    THEN v.cache.events
    ELSE {a \in Agvs : due[a] = v.grid.month}

\* Mutant: filling the table asks for another one.
FillCalendarTable_Again(v) ==
    [v EXCEPT !.grid.events = Events(v),
              !.cache = [month |-> v.grid.month, events |-> Events(v)],
              !.timers = Append(@, "rebuild")]

\* The timer of buildCalendarTable.
FillCalendarTable(v) ==
    [v EXCEPT !.grid.events = Events(v),
              !.cache = [month |-> v.grid.month, events |-> Events(v)]]

\* The calendar is built again soon if it is visible, else when it is shown.
CalendarLater(v) ==
    IF v.page = "calendar"
    THEN [v EXCEPT !.timers = Append(@, "rebuild")]
    ELSE [v EXCEPT !.pending = TRUE]

RebuildList(v) == [v EXCEPT !.rendered = TRUE, !.listed = due', !.partial = FALSE]

UpdateUpcomingMaintenance(v) == [v EXCEPT !.panel = Upcoming(due')]

\* The slot of DataBus::calendarChanged.
CalendarChanged(v) == CalendarLater(UpdateUpcomingMaintenance([v EXCEPT !.cache = Empty]))

\* Mutant: a hidden calendar is not remembered.
AgvListChanged_OnlyVisible(v) ==
    LET cleared == [v EXCEPT !.cache = Empty, !.listDirty = TRUE]
    IN  IF v.page = "calendar" THEN CalendarLater(cleared) ELSE cleared

\* The slot of DataBus::agvListChanged; a visible list is not built again.
AgvListChanged(v) == CalendarLater([v EXCEPT !.cache = Empty, !.listDirty = TRUE])

\* Mutant: a hidden list is not marked.
TasksChanged_NotDirty(v) ==
    LET shown == UpdateUpcomingMaintenance(v)
    IN  CalendarLater(IF v.page = "list" THEN [RebuildList(shown) EXCEPT !.listDirty = FALSE] ELSE shown)

\* Mutant: the panel waits for the next calendarChanged.
TasksChanged_NoPanel(v) ==
    CalendarLater(IF v.page = "list"
                  THEN [RebuildList(v) EXCEPT !.listDirty = FALSE]
                  ELSE [v EXCEPT !.listDirty = TRUE])

\* The slot of AgvSettingsPage::tasksChanged; it leaves the cache alone.
TasksChanged(v) ==
    LET shown == UpdateUpcomingMaintenance(v)
    IN  CalendarLater(IF v.page = "list"
                      THEN [RebuildList(shown) EXCEPT !.listDirty = FALSE]
                      ELSE [shown EXCEPT !.listDirty = TRUE])

\* The slot of OpcConnectionManager::telemetryUpdated.
TelemetryUpdated(v) ==
    IF v.page = "list"
    THEN [RebuildList(v) EXCEPT !.listDirty = FALSE]
    ELSE [v EXCEPT !.listDirty = TRUE]

ShowCalendar(v) ==
    IF v.pending
    THEN [v EXCEPT !.page = "calendar", !.pending = FALSE, !.timers = Append(@, "rebuild")]
    ELSE [v EXCEPT !.page = "calendar"]

ShowAgvList(v) ==
    IF v.listDirty \/ ~v.rendered
    THEN [RebuildList(v) EXCEPT !.listDirty = FALSE, !.page = "list"]
    ELSE [v EXCEPT !.page = "list"]

ShowPage(v, p) ==
    CASE p = "calendar" -> ShowCalendar(v)
      [] p = "list" -> ShowAgvList(v)
      [] OTHER -> [v EXCEPT !.page = p]

-----------------------------------------------------------------------------
\* Something happens outside the timers.
Change == changes < MaxChanges /\ changes' = changes + 1

\* This program writes the row of a, and calendar and list are to show it.
Told(a, m) ==
    /\ due' = [due EXCEPT ![a] = m]
    /\ onCalendar' = Agvs /\ onList' = Agvs /\ quiet' = ~view.partial

\* The panel is to show every row, or has not been told of a.
PanelTold == onPanel' = Agvs
PanelMisses(a) == onPanel' = onPanel \ {a}

Still == UNCHANGED <<due, observers>>

\* The buttons of the menu, and the back buttons of the pages.
GoTo(p) == Change /\ Still /\ view' = ShowPage(view, p)

\* Adding an AGV from the menu, on any page: insertAgvToDb, then showAgvList.
AddFromMenu(a, m) ==
    LET dirty == [AgvListChanged(view) EXCEPT !.listDirty = TRUE]
        listed == IF view.page = "list"
                  THEN [RebuildList(dirty) EXCEPT !.listDirty = FALSE]
                  ELSE dirty
    IN  /\ Change /\ due[a] = 0 /\ Told(a, m) /\ PanelMisses(a)
        /\ view' = ShowAgvList(listed)

\* Adding an AGV from the list page.
AddFromList(a, m) ==
    /\ Change /\ view.page = "list" /\ due[a] = 0 /\ Told(a, m) /\ PanelMisses(a)
    /\ view' = RebuildList(AgvListChanged(view))

\* Deleting AGVs from the list page, or restoring them; the dates that come back
\* are those of the snapshot, whatever they are.
DeleteOrRestore(a, m) ==
    /\ Change /\ view.page = "list" /\ Told(a, m) /\ PanelTold
    /\ (m = 0) # (due[a] = 0)
    /\ view' = CalendarChanged(AgvListChanged(RebuildList(view)))

\* The button of a row of the card that completes its task.
CompleteTask(a, m) ==
    /\ Change /\ view.page = "card" /\ due[a] # 0 /\ m # 0 /\ Told(a, m) /\ PanelTold
    /\ view' = CalendarChanged(TasksChanged(view))

\* openBulkCompleteTasksDialog, on any page, for one AGV: calendarChanged, and the list
\* is built at once, whether it is visible or not.  The empty id of agvTasksChanged is
\* that of a card no AGV has been opened on yet, which then emits tasksChanged.
BulkComplete(a, m) ==
    /\ Change /\ due[a] # 0 /\ m # 0 /\ Told(a, m) /\ PanelTold
    /\ \E noCard \in BOOLEAN :
           view' = RebuildList(IF noCard THEN TasksChanged(CalendarChanged(view))
                               ELSE CalendarChanged(view))

\* Saving the AGV itself on its card, which may take it out of service.
SaveAgv(a, m) ==
    /\ Change /\ view.page = "card" /\ Told(a, m) /\ PanelTold
    /\ view' = TasksChanged(AgvListChanged(view))

\* Adding, editing, deleting or restoring a task on the card: tasksChanged only.
SaveTask(a, m) ==
    /\ Change /\ view.page = "card"
    /\ due' = [due EXCEPT ![a] = m]
    /\ onCalendar' = onCalendar \ {a} /\ onList' = Agvs /\ quiet' = ~view.partial /\ PanelTold
    /\ view' = TasksChanged(view)

\* poll of OPC, on any page: it writes what the AGV reports.
OpcPoll(a, m) ==
    /\ Change /\ Told(a, m) /\ PanelMisses(a)
    /\ view' = AgvListChanged(TelemetryUpdated(view))

\* Another program writes; this one hears nothing of it.
WrittenByOthers(a, m) ==
    /\ Change
    /\ due' = [due EXCEPT ![a] = m]
    /\ onCalendar' = onCalendar \ {a} /\ onList' = onList \ {a} /\ PanelMisses(a)
    /\ UNCHANGED <<view, quiet>>

\* onSearchTextChanged on the list; an empty field shows the whole list again.
\* showAgvList empties the field while the list is hidden, which leaves the list as it is.
Search(found) ==
    /\ Change /\ view.page = "list"
    /\ UNCHANGED <<due, onCalendar, onList, onPanel>>
    /\ quiet' = TRUE
    /\ view' = [RebuildList(view) EXCEPT !.partial = found]

\* Mutant: the first and the last year do not stop the arrows.
ChangeMonth_Endless(delta) ==
    /\ Change /\ Still /\ view.page = "calendar"
    /\ view' = SetSelectedMonthYear(view, view.month + delta)

\* changeMonth, by the arrows above the calendar.
ChangeMonth(delta) ==
    /\ Change /\ Still /\ view.page = "calendar"
    /\ view.month + delta \in Months
    /\ view' = SetSelectedMonthYear(view, view.month + delta)

\* The dialog of the calendar's settings: a day or a week of month m is highlighted.
ChoosePeriod(m) ==
    /\ Change /\ Still /\ view.page = "calendar"
    /\ view' = LET chosen == [view EXCEPT !.highlight = TRUE]
               IN  IF m = view.month
                   THEN [chosen EXCEPT !.lit = TRUE]
                   ELSE SetSelectedMonthYear(chosen, m)

\* Mutant: the calendar is refreshed only if it is visible.
HighlightTimeout_OnlyVisible ==
    /\ view.highlight /\ Still /\ UNCHANGED changes
    /\ view' = IF view.page = "calendar"
               THEN [view EXCEPT !.highlight = FALSE, !.lit = FALSE]
               ELSE [view EXCEPT !.highlight = FALSE]

\* calendarHighlightTimer, 20 s after the choice.
HighlightTimeout ==
    /\ view.highlight /\ Still /\ UNCHANGED changes
    /\ view' = IF view.page = "calendar"
               THEN [view EXCEPT !.highlight = FALSE, !.lit = FALSE]
               ELSE [view EXCEPT !.highlight = FALSE, !.pending = TRUE]

\* setScaleFactor: initUI, then restoreActivePage.
Resize ==
    /\ Change /\ Still
    /\ view' = ShowPage([BuildCalendarTable(view) EXCEPT !.listDirty = TRUE, !.rendered = FALSE,
                                                         !.listed = [a \in Agvs |-> 0],
                                                         !.partial = FALSE, !.panel = {},
                                                         !.timers = Append(@, "load")],
                        view.page)

\* The oldest timer of zero length.
RunTimer ==
    /\ view.timers # <<>> /\ Still /\ UNCHANGED changes
    /\ view' = LET rest == [view EXCEPT !.timers = Tail(@)]
               IN  CASE Head(view.timers) = "rebuild" -> BuildCalendarTable(rest)
                     [] Head(view.timers) = "fill" -> FillCalendarTable(rest)
                     [] Head(view.timers) = "load" -> UpdateUpcomingMaintenance(rest)
                     [] Head(view.timers) = "dropped" -> rest

Next ==
    \/ \E p \in Pages : GoTo(p)
    \/ \E a \in Agvs, m \in Months : AddFromMenu(a, m) \/ AddFromList(a, m)
    \/ \E a \in Agvs, m \in Months \cup {0} :
           \/ DeleteOrRestore(a, m) \/ CompleteTask(a, m) \/ SaveAgv(a, m) \/ SaveTask(a, m)
           \/ BulkComplete(a, m) \/ OpcPoll(a, m) \/ WrittenByOthers(a, m)
    \/ \E found \in BOOLEAN : Search(found)
    \/ \E delta \in {-1, 1} : ChangeMonth(delta)
    \/ \E m \in Months : ChoosePeriod(m)
    \/ HighlightTimeout
    \/ Resize
    \/ RunTimer

Spec == Init /\ [][Next]_vars

\* Qt fires a timer of zero length once no event waits.
FairSpec == Spec /\ WF_vars(RunTimer)

-----------------------------------------------------------------------------
TypeOK ==
    /\ due \in Dates
    /\ view \in View
    /\ onCalendar \subseteq Agvs /\ onList \subseteq Agvs /\ onPanel \subseteq Agvs
    /\ quiet \in BOOLEAN
    /\ changes \in 0 .. MaxChanges

\* No timer of zero length waits.
AtRest == view.timers = <<>>

\* The table shows AGV a where the database has it.
Drawn(a) == a \in view.grid.events <=> due[a] = view.grid.month

\* The calendar on the screen is the one of the selected month, and it shows every
\* row of the database that was there when the program last emitted a signal that
\* the list of AGVs or the calendar changed, in whatever order changes, timers,
\* pages, months and resizing came.  Rows saved on a card without such a signal,
\* and rows written by other programs since, are the exception.
CalendarInStep ==
    view.page = "calendar" /\ AtRest =>
        view.grid.month = view.month /\ \A a \in onCalendar : Drawn(a)

\* The AGV list on the screen shows every row as this program left it, unless
\* another program wrote it since; and a search hides rows only until this program
\* writes again, although the field is emptied while the list keeps what it found.
ListInStep ==
    view.page = "list" =>
        /\ \A a \in onList : view.listed[a] = due[a]
        /\ view.partial => quiet

\* The panel of upcoming maintenance next to the calendar shows the AGVs that are due,
\* also after resizing, once its timer has fired; but AGVs that were added or that OPC
\* wrote since it was last told are missing, as are changes by others.
PanelInStep ==
    view.page = "calendar" /\ AtRest =>
        \A a \in onPanel : a \in view.panel <=> a \in Upcoming(due)

\* A highlight is on the screen only while its timer runs, also when the timer
\* ended on another page.
HighlightEnds == view.page = "calendar" /\ AtRest /\ view.lit => view.highlight

\* A calendar that stays on the screen comes to rest and shows what the program
\* announced: the timers that build and fill tables end.
CalendarCatchesUp ==
    view.page = "calendar"
        ~> ((AtRest /\ \A a \in onCalendar : Drawn(a)) \/ view.page # "calendar")
=============================================================================
