-------------------------- MODULE HomePages_proofs --------------------------
(***************************************************************************)
(* Proofs about HomePages for any number of AGVs, months and changes: its  *)
(* types, and that the calendar, the list, the panel and the highlight on  *)
(* the screen are in step with what the program has announced.             *)
(***************************************************************************)
EXTENDS HomePages, SequenceTheorems, TLAPS

-----------------------------------------------------------------------------
(* The inductive invariant, one part for each thing on the screen.         *)

Kinds == {"rebuild", "fill", "dropped", "load"}

\* A timer of zero length of this kind waits.
Waits(v, kind) == \E i \in 1 .. Len(v.timers) : v.timers[i] = kind

\* The table is the one of the selected month; it is right, or it will be filled or
\* built again.
GridInv(v, rows, C) ==
    /\ v.grid.month = v.month
    /\ \/ Waits(v, "rebuild") \/ Waits(v, "fill") \/ v.pending
       \/ \A a \in C : a \in v.grid.events <=> rows[a] = v.grid.month

\* The cached events are right.
CacheInv(v, rows, C) ==
    v.cache.month # 0 => \A a \in C : a \in v.cache.events <=> rows[a] = v.cache.month

\* A list that is shown, or that would be shown without being built again, is right,
\* and hides rows only if nothing was written since the search (q).
ListInv(v, rows, L, q) ==
    v.page = "list" \/ (v.rendered /\ ~v.listDirty) =>
        (\A a \in L : v.listed[a] = rows[a]) /\ (v.partial => q)

\* A highlight without its timer will be removed; what a calendar on the screen waits
\* for is a timer.
LitInv(v) ==
    /\ v.lit => v.highlight \/ v.pending \/ Waits(v, "rebuild")
    /\ v.pending => v.page # "calendar"

PagesInv ==
    /\ GridInv(view, due, onCalendar)
    /\ CacheInv(view, due, onCalendar)
    /\ ListInv(view, due, onList, quiet)
    /\ LitInv(view)

-----------------------------------------------------------------------------
(* Timers.                                                                 *)

\* A timer that is started waits behind the others.
LEMMA AppendTimer ==
    ASSUME NEW t \in Seq(Kinds), NEW kind \in Kinds
    PROVE  /\ Append(t, kind) \in Seq(Kinds) /\ Len(Append(t, kind)) = Len(t) + 1 /\ Len(t) \in Nat
           /\ Append(t, kind)[Len(t) + 1] = kind
           /\ \A i \in 1 .. Len(t) : Append(t, kind)[i] = t[i]
OBVIOUS

\* The oldest timer fires: the others wait on.
LEMMA TailTimer ==
    ASSUME NEW t \in Seq(Kinds), t # <<>>
    PROVE  /\ Head(t) \in Kinds /\ Tail(t) \in Seq(Kinds)
           /\ \A kind : kind # Head(t) /\ (\E i \in 1 .. Len(t) : t[i] = kind)
                        => \E i \in 1 .. Len(Tail(t)) : Tail(t)[i] = kind
<1>1. /\ Head(t) = t[1] /\ Head(t) \in Kinds /\ Tail(t) \in Seq(Kinds) /\ Len(t) \in Nat \ {0}
      /\ Len(Tail(t)) = Len(t) - 1 /\ \A i \in 1 .. Len(t) - 1 : Tail(t)[i] = t[i + 1]
  OBVIOUS
<1>2. ASSUME NEW kind, kind # Head(t), NEW i \in 1 .. Len(t), t[i] = kind
      PROVE  \E j \in 1 .. Len(Tail(t)) : Tail(t)[j] = kind
  <2>1. i # 1 /\ i - 1 \in 1 .. Len(Tail(t)) /\ i - 1 + 1 = i
    BY <1>1, <1>2
  <2>2. Tail(t)[i - 1] = kind
    BY <1>1, <1>2, <2>1
  <2> QED
    BY <2>1, <2>2
<1> QED
  BY <1>1, <1>2

-----------------------------------------------------------------------------
(* What the operations on a view return.                                   *)

ListKept(w, v) ==
    /\ w.listDirty = v.listDirty /\ w.rendered = v.rendered
    /\ w.listed = v.listed /\ w.partial = v.partial
\* The list of w shows every row as it is after the step.
Fresh(w) == w.listed = due' /\ ~w.partial
TableKept(w, v) ==
    /\ w.month = v.month /\ w.grid = v.grid /\ w.highlight = v.highlight /\ w.lit = v.lit
CalendarKept(w, v) ==
    TableKept(w, v) /\ w.cache = v.cache /\ w.pending = v.pending /\ w.timers = v.timers

\* The calendar of w will be built again.
Announced(w, v) ==
    /\ w.page = "calendar" => Waits(w, "rebuild") /\ w.pending = v.pending
    /\ w.page # "calendar" => w.pending /\ w.timers = v.timers

\* The months, the empty cache and the kinds of timers.
LEMMA Basics == /\ Empty \in [month: Months \cup {0}, events: SUBSET Agvs] /\ Empty.month = 0
                /\ {"rebuild", "fill", "load"} \subseteq Kinds
BY DEF Empty, Kinds

\* The fields of a view.
LEMMA ViewFields ==
    ASSUME NEW v \in View
    PROVE  /\ v.page \in Pages /\ v.month \in Months
           /\ v.cache \in [month: Months \cup {0}, events: SUBSET Agvs]
           /\ v.grid \in [month: Months, events: SUBSET Agvs]
           /\ v.highlight \in BOOLEAN /\ v.lit \in BOOLEAN /\ v.pending \in BOOLEAN
           /\ v.timers \in Seq(Kinds)
           /\ v.listDirty \in BOOLEAN /\ v.rendered \in BOOLEAN /\ v.listed \in Dates
           /\ v.partial \in BOOLEAN /\ v.panel \in SUBSET Agvs
BY DEF View, Kinds

\* buildCalendarTable leaves a table of the selected month that a timer will fill.
LEMMA BuildFacts ==
    ASSUME NEW v \in View
    PROVE  LET w == BuildCalendarTable(v)
           IN  /\ w \in View /\ w.page = v.page /\ w.month = v.month /\ w.grid.month = v.month
               /\ w.cache = v.cache /\ w.highlight = v.highlight /\ w.lit = v.highlight
               /\ w.pending = v.pending /\ Waits(w, "fill") /\ ListKept(w, v)
<1> DEFINE old == [i \in DOMAIN v.timers |-> IF v.timers[i] = "fill" THEN "dropped" ELSE v.timers[i]]
           w == BuildCalendarTable(v)
<1>1. v.timers \in Seq(Kinds) /\ v.month \in Months /\ v.highlight \in BOOLEAN
  BY ViewFields
<1>2. old \in Seq(Kinds)
  <2>1. DOMAIN v.timers = 1 .. Len(v.timers) /\ Len(v.timers) \in Nat
    BY <1>1
  <2>2. \A i \in 1 .. Len(v.timers) : old[i] \in Kinds
    BY <1>1, <2>1 DEF Kinds
  <2>3. old \in [1 .. Len(v.timers) -> Kinds]
    BY <2>1, <2>2
  <2> HIDE DEF old
  <2> QED
    BY <2>1, <2>3, SeqDef
<1>3. "fill" \in Kinds
  BY Basics
<1> HIDE DEF old
<1>4. /\ Append(old, "fill") \in Seq(Kinds) /\ Len(Append(old, "fill")) = Len(old) + 1
      /\ Len(old) \in Nat /\ Append(old, "fill")[Len(old) + 1] = "fill"
  BY <1>2, <1>3, AppendTimer
<1>5. w = [v EXCEPT !.grid = [month |-> v.month, events |-> {}], !.lit = v.highlight,
                    !.timers = Append(old, "fill")]
  BY DEF BuildCalendarTable, old
<1> HIDE DEF w
<1>6. /\ w \in View /\ w.page = v.page /\ w.month = v.month /\ w.grid.month = v.month
      /\ w.cache = v.cache /\ w.highlight = v.highlight /\ w.lit = v.highlight
      /\ w.pending = v.pending /\ w.timers = Append(old, "fill")
  BY <1>1, <1>4, <1>5 DEF View, Kinds
<1>7. ListKept(w, v)
  BY <1>5 DEF View, ListKept
<1>8. Waits(w, "fill")
  BY <1>4, <1>6 DEF Waits
<1> QED
  BY <1>6, <1>7, <1>8 DEF w

\* A calendar that is to be built again is announced and otherwise left alone.
LEMMA LaterFacts ==
    ASSUME NEW v \in View
    PROVE  LET w == CalendarLater(v)
           IN  /\ w \in View /\ w.page = v.page /\ w.cache = v.cache
               /\ TableKept(w, v) /\ ListKept(w, v) /\ Announced(w, v)
<1> DEFINE w == CalendarLater(v)
<1>1. v.timers \in Seq(Kinds) /\ "rebuild" \in Kinds
  BY ViewFields, Basics
<1>2. CASE v.page = "calendar"
  <2>1. w = [v EXCEPT !.timers = Append(v.timers, "rebuild")]
    BY <1>2 DEF CalendarLater
  <2>2. /\ Append(v.timers, "rebuild") \in Seq(Kinds) /\ Len(v.timers) \in Nat
        /\ Len(Append(v.timers, "rebuild")) = Len(v.timers) + 1
        /\ Append(v.timers, "rebuild")[Len(v.timers) + 1] = "rebuild"
    BY <1>1, AppendTimer
  <2> HIDE DEF w
  <2>3. /\ w \in View /\ w.page = v.page /\ w.cache = v.cache /\ w.pending = v.pending
        /\ w.timers = Append(v.timers, "rebuild")
    BY <2>1, <2>2 DEF View, Kinds
  <2>4. TableKept(w, v) /\ ListKept(w, v)
    BY <2>1 DEF View, TableKept, ListKept
  <2>5. Announced(w, v)
    BY <1>2, <2>2, <2>3 DEF Announced, Waits
  <2> QED
    BY <2>3, <2>4, <2>5 DEF w
<1>3. CASE v.page # "calendar"
  <2>1. w = [v EXCEPT !.pending = TRUE]
    BY <1>3 DEF CalendarLater
  <2> HIDE DEF w
  <2>2. w \in View /\ w.page = v.page /\ w.cache = v.cache /\ w.pending /\ w.timers = v.timers
    BY <2>1 DEF View
  <2>3. TableKept(w, v) /\ ListKept(w, v)
    BY <2>1 DEF View, TableKept, ListKept
  <2>4. Announced(w, v)
    BY <1>3, <2>2 DEF Announced
  <2> QED
    BY <2>2, <2>3, <2>4 DEF w
<1> QED
  BY <1>2, <1>3

\* What is read for the table: from a right cache or from the database, and right for
\* the AGVs that the cache is right for.
LEMMA EventsFacts ==
    ASSUME NEW v \in View, NEW C \in SUBSET Agvs, CacheInv(v, due, C)
    PROVE  /\ Events(v) \in SUBSET Agvs
           /\ \A a \in C : a \in Events(v) <=> due[a] = v.grid.month
<1>1. v.grid.month \in Months /\ v.cache.events \in SUBSET Agvs /\ 0 \notin Months
  BY ViewFields DEF Months
<1>2. CASE v.cache.month = v.grid.month /\ v.cache.events # {}
  BY <1>1, <1>2 DEF Events, CacheInv
<1>3. CASE ~(v.cache.month = v.grid.month /\ v.cache.events # {})
  <2>1. Events(v) = {a \in Agvs : due[a] = v.grid.month}
    BY <1>3 DEF Events
  <2> QED
    BY <2>1
<1> QED
  BY <1>2, <1>3

\* A table that is filled.
LEMMA FillFacts ==
    ASSUME NEW v \in View, Events(v) \in SUBSET Agvs
    PROVE  LET w == FillCalendarTable(v)
           IN  /\ w \in View /\ w.page = v.page /\ w.month = v.month /\ w.grid.month = v.grid.month
               /\ w.grid.events = Events(v) /\ w.cache.month = v.grid.month
               /\ w.cache.events = Events(v) /\ w.highlight = v.highlight /\ w.lit = v.lit
               /\ w.pending = v.pending /\ w.timers = v.timers /\ ListKept(w, v)
<1> DEFINE e == Events(v)
           w == FillCalendarTable(v)
<1>1. v.grid.month \in Months /\ v.grid \in [month: Months, events: SUBSET Agvs] /\ e \in SUBSET Agvs
  BY ViewFields
<1>2. w = [v EXCEPT !.grid = [v.grid EXCEPT !.events = e], !.cache = [month |-> v.grid.month, events |-> e]]
  BY DEF FillCalendarTable
<1>3. /\ [v.grid EXCEPT !.events = e] \in [month: Months, events: SUBSET Agvs]
      /\ [v.grid EXCEPT !.events = e].month = v.grid.month
      /\ [v.grid EXCEPT !.events = e].events = e
  BY <1>1
<1> DEFINE g == [v.grid EXCEPT !.events = e]
<1> HIDE DEF e, w, g
<1>4. w = [v EXCEPT !.grid = g, !.cache = [month |-> v.grid.month, events |-> e]]
  BY <1>2 DEF g
<1>5. g \in [month: Months, events: SUBSET Agvs] /\ g.month = v.grid.month /\ g.events = e
  BY <1>3 DEF g
<1>6. w \in View /\ w.page = v.page /\ w.month = v.month /\ w.grid = g
  BY <1>1, <1>4, <1>5 DEF View
<1>7. w.cache.month = v.grid.month /\ w.cache.events = e
  BY <1>4 DEF View
<1>8. /\ w.highlight = v.highlight /\ w.lit = v.lit /\ w.pending = v.pending /\ w.timers = v.timers
      /\ ListKept(w, v)
  BY <1>4 DEF View, ListKept
<1> QED
  BY <1>5, <1>6, <1>7, <1>8 DEF w, e

\* The panel is filled from the rows as they are now; nothing else changes.
LEMMA UpcomingFacts ==
    ASSUME NEW v \in View
    PROVE  LET w == UpdateUpcomingMaintenance(v)
           IN  /\ w \in View /\ w.page = v.page /\ CalendarKept(w, v) /\ ListKept(w, v)
               /\ w.panel = Upcoming(due')
<1>1. Upcoming(due') \in SUBSET Agvs
  BY DEF Upcoming
<1> DEFINE r == Upcoming(due')
<1> HIDE DEF r
<1>2. UpdateUpcomingMaintenance(v) = [v EXCEPT !.panel = r] /\ r \in SUBSET Agvs
  BY <1>1 DEF UpdateUpcomingMaintenance, r
<1> QED
  BY <1>2 DEF View, CalendarKept, TableKept, ListKept, r

\* The slot of calendarChanged empties the cache and announces the calendar.
LEMMA CalendarChangedFacts ==
    ASSUME NEW v \in View
    PROVE  LET w == CalendarChanged(v)
           IN  /\ w \in View /\ w.page = v.page /\ w.cache = Empty
               /\ TableKept(w, v) /\ ListKept(w, v) /\ Announced(w, v)
<1> DEFINE u == [v EXCEPT !.cache = Empty]
<1>1. /\ u \in View /\ u.page = v.page /\ u.cache = Empty /\ u.timers = v.timers
      /\ u.pending = v.pending
  BY Basics DEF View
<1>2. TableKept(u, v) /\ ListKept(u, v)
  BY DEF View, TableKept, ListKept
<1> DEFINE x == UpdateUpcomingMaintenance(u)
<1>3. CalendarChanged(v) = CalendarLater(x)
  BY DEF CalendarChanged
<1> HIDE DEF u
<1>4. x \in View /\ x.page = u.page /\ CalendarKept(x, u) /\ ListKept(x, u)
  BY <1>1, UpcomingFacts
<1> HIDE DEF x
<1> QED
  BY <1>1, <1>2, <1>3, <1>4, LaterFacts DEF TableKept, CalendarKept, ListKept, Announced

\* The slot of agvListChanged empties the cache, announces the calendar and marks the list.
LEMMA AgvListChangedFacts ==
    ASSUME NEW v \in View
    PROVE  LET w == AgvListChanged(v)
           IN  /\ w \in View /\ w.page = v.page /\ w.cache = Empty
               /\ TableKept(w, v) /\ Announced(w, v)
               /\ w.listDirty /\ w.rendered = v.rendered
               /\ w.listed = v.listed /\ w.partial = v.partial
<1> DEFINE u == [v EXCEPT !.cache = Empty, !.listDirty = TRUE]
<1>1. /\ u \in View /\ u.page = v.page /\ u.cache = Empty /\ u.timers = v.timers
      /\ u.pending = v.pending
  BY Basics DEF View
<1>2. /\ TableKept(u, v) /\ u.listDirty /\ u.rendered = v.rendered
      /\ u.listed = v.listed /\ u.partial = v.partial
  BY DEF View, TableKept
<1>3. AgvListChanged(v) = CalendarLater(u)
  BY DEF AgvListChanged
<1> HIDE DEF u
<1> QED
  BY <1>1, <1>2, <1>3, LaterFacts DEF TableKept, ListKept, Announced

\* A list that is built again shows the rows as they are now.
LEMMA RebuildFacts ==
    ASSUME NEW v \in View, due' \in Dates
    PROVE  /\ LET w == RebuildList(v)
              IN  /\ w \in View /\ w.page = v.page /\ CalendarKept(w, v)
                  /\ w.rendered /\ Fresh(w) /\ w.listDirty = v.listDirty
           /\ LET w == [RebuildList(v) EXCEPT !.listDirty = FALSE]
              IN  /\ w \in View /\ w.page = v.page /\ CalendarKept(w, v)
                  /\ w.rendered /\ Fresh(w) /\ ~w.listDirty
<1> DEFINE w == RebuildList(v)
           x == [w EXCEPT !.listDirty = FALSE]
<1>1. /\ w \in View /\ w.page = v.page
      /\ w.rendered /\ Fresh(w) /\ w.listDirty = v.listDirty
  BY DEF RebuildList, View, Fresh
<1>2. CalendarKept(w, v)
  BY DEF RebuildList, View, CalendarKept, TableKept
<1> HIDE DEF w
<1>3. x \in View /\ x.page = w.page /\ x.rendered = w.rendered /\ Fresh(x) /\ ~x.listDirty
  BY <1>1 DEF View, Fresh
<1>4. CalendarKept(x, w)
  BY <1>1 DEF View, CalendarKept, TableKept
<1> QED
  BY <1>1, <1>2, <1>3, <1>4 DEF CalendarKept, TableKept, w

\* A list that has been told of a change is right on the screen and marked elsewhere.
ListTold(w) ==
    /\ w.page = "list" => Fresh(w) /\ w.rendered /\ ~w.listDirty
    /\ w.page # "list" => w.listDirty

\* The mark of a list that is not on the screen.
LEMMA MarkFacts ==
    ASSUME NEW v \in View
    PROVE  LET w == [v EXCEPT !.listDirty = TRUE]
           IN  /\ w \in View /\ w.page = v.page /\ CalendarKept(w, v) /\ w.listDirty
BY DEF View, CalendarKept, TableKept

\* The slot of telemetryUpdated is about the list only.
LEMMA TelemetryFacts ==
    ASSUME NEW v \in View, due' \in Dates
    PROVE  LET w == TelemetryUpdated(v)
           IN  w \in View /\ w.page = v.page /\ CalendarKept(w, v) /\ ListTold(w)
<1>1. CASE v.page = "list"
  <2>1. TelemetryUpdated(v) = [RebuildList(v) EXCEPT !.listDirty = FALSE]
    BY <1>1 DEF TelemetryUpdated
  <2> QED
    BY <1>1, <2>1, RebuildFacts DEF ListTold
<1>2. CASE v.page # "list"
  <2>1. TelemetryUpdated(v) = [v EXCEPT !.listDirty = TRUE]
    BY <1>2 DEF TelemetryUpdated
  <2> QED
    BY <1>2, <2>1, MarkFacts DEF ListTold
<1> QED
  BY <1>1, <1>2

\* The slot of tasksChanged tells the list and announces the calendar, and leaves the cache.
LEMMA TasksChangedFacts ==
    ASSUME NEW v \in View, due' \in Dates
    PROVE  LET w == TasksChanged(v)
           IN  /\ w \in View /\ w.page = v.page /\ w.cache = v.cache
               /\ TableKept(w, v) /\ Announced(w, v) /\ ListTold(w)
<1> DEFINE x == UpdateUpcomingMaintenance(v)
           u == TelemetryUpdated(x)
<1>1. TasksChanged(v) = CalendarLater(u)
  BY UpcomingFacts DEF TasksChanged, TelemetryUpdated, UpdateUpcomingMaintenance, View
<1>2. x \in View /\ x.page = v.page /\ CalendarKept(x, v)
  BY UpcomingFacts
<1> HIDE DEF x
<1>3. u \in View /\ u.page = x.page /\ CalendarKept(u, x) /\ ListTold(u)
  BY <1>2, TelemetryFacts
<1> HIDE DEF u
<1> QED
  BY <1>1, <1>2, <1>3, LaterFacts DEF Fresh, CalendarKept, TableKept, ListKept, Announced, ListTold

\* The list page: built again unless it is right.
LEMMA ShowListFacts ==
    ASSUME NEW v \in View, due' \in Dates
    PROVE  LET w == ShowAgvList(v)
           IN  /\ w \in View /\ w.page = "list" /\ CalendarKept(w, v)
               /\ \/ Fresh(w)
                  \/ ListKept(w, v) /\ v.rendered /\ ~v.listDirty
<1>1. CASE v.listDirty \/ ~v.rendered
  <2> DEFINE u == [RebuildList(v) EXCEPT !.listDirty = FALSE]
             w == [u EXCEPT !.page = "list"]
  <2>1. u \in View /\ CalendarKept(u, v) /\ Fresh(u)
    BY RebuildFacts
  <2>2. ShowAgvList(v) = w
    BY <1>1 DEF ShowAgvList, RebuildList
  <2> HIDE DEF u
  <2>3. w \in View /\ w.page = "list" /\ Fresh(w)
    BY <2>1 DEF View, Pages, Fresh
  <2>4. CalendarKept(w, u)
    BY <2>1 DEF View, CalendarKept, TableKept
  <2> QED
    BY <2>1, <2>2, <2>3, <2>4 DEF CalendarKept, TableKept
<1>2. CASE ~(v.listDirty \/ ~v.rendered)
  <2> DEFINE w == [v EXCEPT !.page = "list"]
  <2>1. ShowAgvList(v) = w
    BY <1>2 DEF ShowAgvList
  <2>2. w \in View /\ w.page = "list"
    BY DEF View, Pages
  <2>3. CalendarKept(w, v) /\ ListKept(w, v)
    BY DEF View, CalendarKept, TableKept, ListKept
  <2> QED
    BY <1>2, <2>1, <2>2, <2>3
<1> QED
  BY <1>1, <1>2

\* Every page: what the calendar waits for becomes a timer when it is shown.
LEMMA ShowPageFacts ==
    ASSUME NEW v \in View, NEW p \in Pages, due' \in Dates
    PROVE  LET w == ShowPage(v, p)
           IN  /\ w \in View /\ w.page = p /\ w.cache = v.cache /\ TableKept(w, v)
               /\ \/ w.pending = v.pending /\ w.timers = v.timers /\ (p = "calendar" => ~v.pending)
                  \/ p = "calendar" /\ ~w.pending /\ Waits(w, "rebuild")
               /\ p = "list" => Fresh(w) \/ (ListKept(w, v) /\ v.rendered /\ ~v.listDirty)
               /\ p # "list" => ListKept(w, v)
<1>1. CASE p = "calendar"
  <2>1. ShowPage(v, p) = ShowCalendar(v)
    BY <1>1 DEF ShowPage
  <2>2. CASE v.pending
    <3> DEFINE t == Append(v.timers, "rebuild")
               w == [v EXCEPT !.page = "calendar", !.pending = FALSE, !.timers = t]
    <3>1. /\ t \in Seq(Kinds) /\ Len(v.timers) \in Nat
          /\ Len(t) = Len(v.timers) + 1 /\ t[Len(v.timers) + 1] = "rebuild"
      BY ViewFields, Basics, AppendTimer
    <3>2. ShowPage(v, p) = w
      BY <2>1, <2>2 DEF ShowCalendar
    <3> HIDE DEF t
    <3>3. w \in View /\ w.page = p /\ w.cache = v.cache /\ ~w.pending /\ w.timers = t
      BY <1>1, <3>1 DEF View, Pages, Kinds
    <3>4. TableKept(w, v) /\ ListKept(w, v)
      BY DEF View, TableKept, ListKept
    <3>5. Waits(w, "rebuild")
      BY <3>1, <3>3 DEF Waits
    <3> HIDE DEF w
    <3> QED
      BY <1>1, <3>2, <3>3, <3>4, <3>5
  <2>3. CASE ~v.pending
    <3> DEFINE w == [v EXCEPT !.page = "calendar"]
    <3>1. ShowPage(v, p) = w
      BY <2>1, <2>3 DEF ShowCalendar
    <3>2. w \in View /\ w.page = p /\ w.cache = v.cache /\ w.pending = v.pending /\ w.timers = v.timers
      BY <1>1 DEF View, Pages
    <3>3. TableKept(w, v) /\ ListKept(w, v)
      BY DEF View, TableKept, ListKept
    <3> HIDE DEF w
    <3> QED
      BY <1>1, <2>3, <3>1, <3>2, <3>3
  <2> QED
    BY <2>2, <2>3
<1>2. CASE p = "list"
  <2>1. ShowPage(v, p) = ShowAgvList(v)
    BY <1>2 DEF ShowPage
  <2> QED
    BY <1>2, <2>1, ShowListFacts DEF CalendarKept
<1>3. CASE p # "calendar" /\ p # "list"
  <2> DEFINE w == [v EXCEPT !.page = p]
  <2>1. ShowPage(v, p) = w
    BY <1>3 DEF ShowPage
  <2>2. w \in View /\ w.page = p /\ w.cache = v.cache /\ w.pending = v.pending /\ w.timers = v.timers
    BY DEF View
  <2>3. TableKept(w, v) /\ ListKept(w, v)
    BY DEF View, TableKept, ListKept
  <2> HIDE DEF w
  <2> QED
    BY <1>3, <2>1, <2>2, <2>3
<1> QED
  BY <1>1, <1>2, <1>3

-----------------------------------------------------------------------------
(* The invariant: initially, and after each action.                        *)

\* The types and the invariant of the pages.
HomeInv == TypeOK /\ PagesInv

\* Initially table, cache and panel are right, and the list is yet to be built.
LEMMA InitInv == Init => HomeInv
<1> SUFFICES ASSUME Init PROVE HomeInv
  OBVIOUS
<1>1. PICK m \in Months :
           LET events == {a \in Agvs : due[a] = m}
           IN  view = [page |-> "calendar", month |-> m, cache |-> [month |-> m, events |-> events],
                       grid |-> [month |-> m, events |-> events],
                       highlight |-> FALSE, lit |-> FALSE, pending |-> FALSE, timers |-> <<>>,
                       panel |-> Upcoming(due), listDirty |-> TRUE, rendered |-> FALSE,
                       listed |-> [a \in Agvs |-> 0], partial |-> FALSE]
  BY DEF Init
<1> DEFINE events == {a \in Agvs : due[a] = m}
           none == [a \in Agvs |-> 0]
           near == Upcoming(due)
<1>2. none \in Dates /\ <<>> \in Seq(Kinds) /\ near \in SUBSET Agvs /\ events \in SUBSET Agvs
  BY DEF Dates, Kinds, Upcoming
<1>3. \A a \in Agvs : a \in events <=> due[a] = m
  OBVIOUS
<1>4. view = [page |-> "calendar", month |-> m, cache |-> [month |-> m, events |-> events],
              grid |-> [month |-> m, events |-> events],
              highlight |-> FALSE, lit |-> FALSE, pending |-> FALSE, timers |-> <<>>,
              panel |-> near, listDirty |-> TRUE, rendered |-> FALSE,
              listed |-> none, partial |-> FALSE]
  BY <1>1
<1> HIDE DEF events, none, near
<1>5. view \in View
  BY <1>2, <1>4 DEF View, Pages, Kinds
<1>6. TypeOK
  BY <1>5, HomeBounds DEF Init, TypeOK
<1>7. /\ view.grid.month = view.month /\ view.grid.month = m /\ view.cache.month = m
      /\ view.grid.events = events /\ view.cache.events = events /\ view.page = "calendar"
      /\ ~view.rendered /\ ~view.lit /\ ~view.pending
  BY <1>4
<1>8. onCalendar = Agvs
  BY DEF Init
<1> QED
  BY <1>3, <1>6, <1>7, <1>8 DEF HomeInv, PagesInv, GridInv, CacheInv, ListInv, LitInv

\* What a click or a poll does to the bound.
LEMMA ChangeType ==
    ASSUME TypeOK, Change
    PROVE  changes' \in 0 .. MaxChanges
BY HomeBounds DEF TypeOK, Change

\* A row that is written leaves dates.
LEMMA WrittenDates ==
    ASSUME TypeOK, NEW a \in Agvs, NEW m \in Months \cup {0}, due' = [due EXCEPT ![a] = m]
    PROVE  due' \in Dates /\ \A b \in Agvs \ {a} : due'[b] = due[b]
BY DEF TypeOK, Dates

\* A calendar that waits to be built again is right for now, whatever was written.
LEMMA WaitingIsRight ==
    ASSUME NEW w \in View, w.grid.month = w.month, w.cache.month = 0,
           Waits(w, "rebuild") \/ w.pending, w.pending => w.page # "calendar",
           NEW rows, NEW C
    PROVE  GridInv(w, rows, C) /\ CacheInv(w, rows, C) /\ LitInv(w)
BY DEF GridInv, CacheInv, LitInv

\* A change this program has told both pages of: the table, the cache and the list are
\* to be read again, or show the new rows.
LEMMA ToldInv ==
    ASSUME HomeInv, Change, NEW a \in Agvs, NEW m \in Months \cup {0}, Told(a, m), view' \in View,
           onPanel' \in SUBSET Agvs,
           view'.grid.month = view'.month, view'.cache = Empty,
           Waits(view', "rebuild") \/ view'.pending, view'.pending => view'.page # "calendar",
           view'.page = "list" \/ (view'.rendered /\ ~view'.listDirty) => Fresh(view')
    PROVE  HomeInv'
<1>1. due' \in Dates /\ onCalendar' = Agvs /\ onList' = Agvs /\ quiet' \in BOOLEAN
  BY WrittenDates DEF HomeInv, Told
<1>2. TypeOK'
  BY <1>1, ChangeType DEF HomeInv, TypeOK
<1>3. (GridInv(view, due, onCalendar) /\ CacheInv(view, due, onCalendar) /\ LitInv(view))'
  BY Basics, WaitingIsRight
<1>4. ListInv(view, due, onList, quiet)'
  BY <1>1 DEF ListInv, Fresh
<1> QED
  BY <1>2, <1>3, <1>4 DEF HomeInv, PagesInv

\* What the invariant says of the calendar before a step.
LEMMA Before ==
    ASSUME HomeInv
    PROVE  /\ view \in View /\ view.grid.month = view.month
           /\ view.pending => view.page # "calendar"
           /\ onCalendar \in SUBSET Agvs /\ onList \in SUBSET Agvs
           /\ onPanel \in SUBSET Agvs /\ quiet \in BOOLEAN
BY DEF HomeInv, TypeOK, PagesInv, GridInv, LitInv

\* An announced calendar waits for a timer or for its page.
LEMMA AnnouncedWaits ==
    ASSUME HomeInv, NEW w, NEW v, Announced(w, v), v.pending = view.pending, w.page = view.page
    PROVE  (Waits(w, "rebuild") \/ w.pending) /\ (w.pending => w.page # "calendar")
BY Before DEF Announced

\* AddFromMenu keeps the invariant.
LEMMA AddFromMenuInv ==
    ASSUME HomeInv, NEW a \in Agvs, NEW m \in Months, AddFromMenu(a, m)
    PROVE  HomeInv'
<1> DEFINE v1 == AgvListChanged(view)
           v2 == [v1 EXCEPT !.listDirty = TRUE]
           v3 == IF view.page = "list" THEN [RebuildList(v2) EXCEPT !.listDirty = FALSE] ELSE v2
<1>1. /\ Change /\ Told(a, m) /\ onPanel' \in SUBSET Agvs
      /\ view' = ShowAgvList(v3)
  BY Before DEF AddFromMenu, PanelMisses
<1>2. due' \in Dates
  BY <1>1, WrittenDates DEF HomeInv, Told
<1>3. /\ v1 \in View /\ v1.page = view.page /\ v1.cache = Empty /\ TableKept(v1, view)
      /\ Announced(v1, view) /\ view.grid.month = view.month
  BY Before, AgvListChangedFacts
<1>4. (Waits(v1, "rebuild") \/ v1.pending) /\ (v1.pending => v1.page # "calendar")
  BY <1>3, AnnouncedWaits
<1> HIDE DEF v1
<1>5. v2 \in View /\ v2.page = v1.page /\ CalendarKept(v2, v1) /\ v2.listDirty
  BY <1>3, MarkFacts
<1> HIDE DEF v2
<1>6. v3 \in View /\ CalendarKept(v3, v2) /\ (Fresh(v3) \/ v3.listDirty)
  BY <1>2, <1>5, RebuildFacts DEF CalendarKept, TableKept
<1> HIDE DEF v3
<1>7. /\ view' \in View /\ view'.page = "list" /\ CalendarKept(view', v3)
      /\ Fresh(view')
  BY <1>1, <1>2, <1>6, ShowListFacts DEF ListKept, Fresh
<1>8. /\ view'.grid.month = view'.month /\ view'.cache = Empty
      /\ Waits(view', "rebuild") \/ view'.pending
  BY <1>3, <1>4, <1>5, <1>6, <1>7 DEF CalendarKept, TableKept, Waits
<1> QED
  BY <1>1, <1>7, <1>8, ToldInv

\* AddFromList keeps the invariant.
LEMMA AddFromListInv ==
    ASSUME HomeInv, NEW a \in Agvs, NEW m \in Months, AddFromList(a, m)
    PROVE  HomeInv'
<1> DEFINE v1 == AgvListChanged(view)
<1>1. /\ Change /\ Told(a, m) /\ onPanel' \in SUBSET Agvs
      /\ view' = RebuildList(v1)
  BY Before DEF AddFromList, PanelMisses
<1>2. due' \in Dates
  BY <1>1, WrittenDates DEF HomeInv, Told
<1>3. /\ v1 \in View /\ v1.page = view.page /\ v1.cache = Empty /\ TableKept(v1, view)
      /\ Announced(v1, view) /\ view.grid.month = view.month
  BY Before, AgvListChangedFacts
<1>4. (Waits(v1, "rebuild") \/ v1.pending) /\ (v1.pending => v1.page # "calendar")
  BY <1>3, AnnouncedWaits
<1> HIDE DEF v1
<1>5. view' \in View /\ view'.page = v1.page /\ CalendarKept(view', v1) /\ Fresh(view')
  BY <1>1, <1>2, <1>3, RebuildFacts
<1>6. /\ view'.grid.month = view'.month /\ view'.cache = Empty
      /\ Waits(view', "rebuild") \/ view'.pending
      /\ view'.pending => view'.page # "calendar"
  BY <1>3, <1>4, <1>5 DEF CalendarKept, TableKept, Waits
<1> QED
  BY <1>1, <1>5, <1>6, ToldInv

\* DeleteOrRestore keeps the invariant: the list is built first, the signals follow.
LEMMA DeleteOrRestoreInv ==
    ASSUME HomeInv, NEW a \in Agvs, NEW m \in Months \cup {0}, DeleteOrRestore(a, m)
    PROVE  HomeInv'
<1> DEFINE v1 == RebuildList(view)
           v2 == AgvListChanged(v1)
<1>1. /\ Change /\ Told(a, m) /\ onPanel' \in SUBSET Agvs
      /\ view' = CalendarChanged(v2) /\ view.page = "list"
  BY Before DEF DeleteOrRestore, PanelTold
<1>2. due' \in Dates
  BY <1>1, WrittenDates DEF HomeInv, Told
<1>3. v1 \in View /\ v1.page = view.page /\ CalendarKept(v1, view) /\ Fresh(v1)
  BY <1>2, Before, RebuildFacts
<1> HIDE DEF v1
<1>4. /\ v2 \in View /\ v2.page = v1.page /\ TableKept(v2, v1) /\ v2.listed = v1.listed
      /\ v2.partial = v1.partial
  BY <1>3, AgvListChangedFacts
<1> HIDE DEF v2
<1>5. /\ view' \in View /\ view'.page = v2.page /\ view'.cache = Empty /\ TableKept(view', v2)
      /\ ListKept(view', v2) /\ Announced(view', v2)
  BY <1>1, <1>4, CalendarChangedFacts
<1>6. view'.page = "list" /\ view'.pending /\ Fresh(view')
  BY <1>1, <1>3, <1>4, <1>5 DEF Announced, ListKept, Fresh
<1>7. view'.grid.month = view'.month
  BY <1>3, <1>4, <1>5, Before DEF CalendarKept, TableKept
<1> QED
  BY <1>1, <1>5, <1>6, <1>7, ToldInv

\* CompleteTask keeps the invariant.
LEMMA CompleteTaskInv ==
    ASSUME HomeInv, NEW a \in Agvs, NEW m \in Months \cup {0}, CompleteTask(a, m)
    PROVE  HomeInv'
<1> DEFINE v1 == TasksChanged(view)
<1>1. /\ Change /\ Told(a, m) /\ onPanel' \in SUBSET Agvs
      /\ view' = CalendarChanged(v1) /\ view.page = "card"
  BY Before DEF CompleteTask, PanelTold
<1>2. due' \in Dates
  BY <1>1, WrittenDates DEF HomeInv, Told
<1>3. v1 \in View /\ v1.page = view.page /\ TableKept(v1, view) /\ ListTold(v1)
  BY <1>2, Before, TasksChangedFacts
<1> HIDE DEF v1
<1>4. /\ view' \in View /\ view'.page = v1.page /\ view'.cache = Empty /\ TableKept(view', v1)
      /\ ListKept(view', v1) /\ Announced(view', v1)
  BY <1>1, <1>3, CalendarChangedFacts
<1>5. view'.page = "card" /\ view'.pending /\ view'.listDirty
  BY <1>1, <1>3, <1>4 DEF Announced, ListKept, ListTold
<1>6. view'.grid.month = view'.month
  BY <1>3, <1>4, Before DEF TableKept
<1> QED
  BY <1>1, <1>4, <1>5, <1>6, ToldInv

\* BulkComplete keeps the invariant on every page.
LEMMA BulkCompleteInv ==
    ASSUME HomeInv, NEW a \in Agvs, NEW m \in Months \cup {0}, BulkComplete(a, m)
    PROVE  HomeInv'
<1> DEFINE v1 == CalendarChanged(view)
<1>1. /\ Change /\ Told(a, m) /\ onPanel' \in SUBSET Agvs
      /\ view' = RebuildList(TasksChanged(v1)) \/ view' = RebuildList(v1)
  BY Before DEF BulkComplete, PanelTold
<1>2. due' \in Dates
  BY <1>1, WrittenDates DEF HomeInv, Told
<1>3. /\ v1 \in View /\ v1.page = view.page /\ v1.cache = Empty /\ TableKept(v1, view)
      /\ Announced(v1, view) /\ view.grid.month = view.month
  BY Before, CalendarChangedFacts
<1>4. (Waits(v1, "rebuild") \/ v1.pending) /\ (v1.pending => v1.page # "calendar")
  BY <1>3, AnnouncedWaits
<1> HIDE DEF v1
<1>5. PICK v2 \in View : /\ view' = RebuildList(v2) /\ v2.page = v1.page /\ v2.cache = v1.cache
                         /\ TableKept(v2, v1) /\ (Waits(v2, "rebuild") \/ v2.pending)
                         /\ v2.pending => v2.page # "calendar"
  <2> DEFINE v2 == TasksChanged(v1)
  <2>1. CASE view' = RebuildList(v1)
    <3>1. TableKept(v1, v1)
      BY DEF TableKept
    <3> QED
      BY <1>3, <1>4, <2>1, <3>1, Zenon
  <2>2. CASE view' = RebuildList(v2)
    <3>1. /\ v2 \in View /\ v2.page = v1.page /\ v2.cache = v1.cache /\ TableKept(v2, v1)
          /\ Announced(v2, v1)
      BY <1>2, <1>3, TasksChangedFacts
    <3> HIDE DEF v2
    <3>2. (Waits(v2, "rebuild") \/ v2.pending) /\ (v2.pending => v2.page # "calendar")
      BY <1>4, <3>1 DEF Announced
    <3> QED
      BY <2>2, <3>1, <3>2, Zenon
  <2> QED
    BY <1>1, <2>1, <2>2
<1>6. view' \in View /\ view'.page = v2.page /\ CalendarKept(view', v2) /\ Fresh(view')
  BY <1>2, <1>5, RebuildFacts
<1>7. /\ view'.grid.month = view'.month /\ view'.cache = Empty
      /\ Waits(view', "rebuild") \/ view'.pending
      /\ view'.pending => view'.page # "calendar"
  BY <1>3, <1>5, <1>6 DEF CalendarKept, TableKept, Waits
<1> QED
  BY <1>1, <1>6, <1>7, ToldInv

\* SaveAgv keeps the invariant.
LEMMA SaveAgvInv ==
    ASSUME HomeInv, NEW a \in Agvs, NEW m \in Months \cup {0}, SaveAgv(a, m)
    PROVE  HomeInv'
<1> DEFINE v1 == AgvListChanged(view)
<1>1. /\ Change /\ Told(a, m) /\ onPanel' \in SUBSET Agvs
      /\ view' = TasksChanged(v1) /\ view.page = "card"
  BY Before DEF SaveAgv, PanelTold
<1>2. due' \in Dates
  BY <1>1, WrittenDates DEF HomeInv, Told
<1>3. v1 \in View /\ v1.page = view.page /\ TableKept(v1, view) /\ v1.cache = Empty
  BY Before, AgvListChangedFacts
<1> HIDE DEF v1
<1>4. /\ view' \in View /\ view'.page = v1.page /\ view'.cache = v1.cache /\ TableKept(view', v1)
      /\ Announced(view', v1) /\ ListTold(view')
  BY <1>1, <1>2, <1>3, TasksChangedFacts
<1>5. view'.page = "card" /\ view'.pending /\ view'.listDirty /\ view'.cache = Empty
  BY <1>1, <1>3, <1>4 DEF Announced, ListTold
<1>6. view'.grid.month = view'.month
  BY <1>3, <1>4, Before DEF TableKept
<1> QED
  BY <1>1, <1>4, <1>5, <1>6, ToldInv

\* OpcPoll keeps the invariant on every page.
LEMMA OpcPollInv ==
    ASSUME HomeInv, NEW a \in Agvs, NEW m \in Months \cup {0}, OpcPoll(a, m)
    PROVE  HomeInv'
<1> DEFINE v1 == TelemetryUpdated(view)
<1>1. /\ Change /\ Told(a, m) /\ onPanel' \in SUBSET Agvs
      /\ view' = AgvListChanged(v1)
  BY Before DEF OpcPoll, PanelMisses
<1>2. due' \in Dates
  BY <1>1, WrittenDates DEF HomeInv, Told
<1>3. v1 \in View /\ v1.page = view.page /\ CalendarKept(v1, view) /\ ListTold(v1)
  BY <1>2, Before, TelemetryFacts
<1> HIDE DEF v1
<1>4. /\ view' \in View /\ view'.page = v1.page /\ view'.cache = Empty /\ TableKept(view', v1)
      /\ Announced(view', v1)
      /\ view'.listDirty /\ view'.rendered = v1.rendered
      /\ view'.listed = v1.listed /\ view'.partial = v1.partial
  BY <1>1, <1>3, AgvListChangedFacts
<1>5. (Waits(view', "rebuild") \/ view'.pending) /\ (view'.pending => view'.page # "calendar")
  BY <1>3, <1>4, AnnouncedWaits DEF CalendarKept
<1>6. view'.grid.month = view'.month
  BY <1>3, <1>4, Before DEF CalendarKept, TableKept
<1>7. view'.page = "list" => Fresh(view')
  BY <1>3, <1>4 DEF ListTold, Fresh
<1> QED
  BY <1>1, <1>4, <1>5, <1>6, <1>7, ToldInv

\* SaveTask keeps the invariant: the cache is right for all other AGVs.
LEMMA SaveTaskInv ==
    ASSUME HomeInv, NEW a \in Agvs, NEW m \in Months \cup {0}, SaveTask(a, m)
    PROVE  HomeInv'
<1>1. /\ Change /\ due' = [due EXCEPT ![a] = m] /\ onCalendar' = onCalendar \ {a} /\ onList' = Agvs
      /\ view' = TasksChanged(view) /\ view.page = "card"
      /\ onPanel' \in SUBSET Agvs /\ quiet' \in BOOLEAN
  BY DEF SaveTask, PanelTold
<1>2. due' \in Dates /\ \A b \in Agvs \ {a} : due'[b] = due[b]
  BY <1>1, WrittenDates DEF HomeInv
<1>3. /\ view' \in View /\ view'.page = view.page /\ view'.cache = view.cache /\ TableKept(view', view)
      /\ Announced(view', view) /\ ListTold(view')
  BY <1>1, <1>2, Before, TasksChangedFacts
<1>4. view'.page = "card" /\ view'.pending /\ view'.listDirty /\ view'.grid.month = view'.month
  BY <1>1, <1>3, Before DEF Announced, ListTold, TableKept
<1>5. TypeOK'
  BY <1>1, <1>2, <1>3, ChangeType, Before DEF HomeInv, TypeOK
<1>6. CacheInv(view, due, onCalendar)'
  BY <1>1, <1>2, <1>3, Before DEF HomeInv, PagesInv, CacheInv
<1> QED
  BY <1>4, <1>5, <1>6 DEF HomeInv, PagesInv, GridInv, LitInv, ListInv

\* WrittenByOthers keeps the invariant for the rows of this program.
LEMMA WrittenByOthersInv ==
    ASSUME HomeInv, NEW a \in Agvs, NEW m \in Months \cup {0}, WrittenByOthers(a, m)
    PROVE  HomeInv'
<1>1. /\ Change /\ due' = [due EXCEPT ![a] = m] /\ onCalendar' = onCalendar \ {a}
      /\ onList' = onList \ {a} /\ view' = view /\ quiet' = quiet
      /\ onPanel' \in SUBSET Agvs
  BY Before DEF WrittenByOthers, PanelMisses
<1>2. due' \in Dates /\ \A b \in Agvs \ {a} : due'[b] = due[b]
  BY <1>1, WrittenDates DEF HomeInv
<1>3. TypeOK'
  BY <1>1, <1>2, ChangeType, Before DEF HomeInv, TypeOK
<1>4. (CacheInv(view, due, onCalendar) /\ ListInv(view, due, onList, quiet) /\ LitInv(view))'
  BY <1>1, <1>2, Before DEF HomeInv, PagesInv, CacheInv, ListInv, LitInv, Waits
<1>5. GridInv(view, due, onCalendar)'
  BY <1>1, <1>2, Before DEF HomeInv, PagesInv, GridInv, Waits
<1> QED
  BY <1>3, <1>4, <1>5 DEF HomeInv, PagesInv

\* Search keeps the invariant: it reads the list anew, and nothing was written since.
LEMMA SearchInv ==
    ASSUME HomeInv, NEW found \in BOOLEAN, Search(found)
    PROVE  HomeInv'
<1> DEFINE v1 == RebuildList(view)
<1>1. /\ Change /\ due' = due /\ onCalendar' = onCalendar /\ onList' = onList /\ onPanel' = onPanel
      /\ quiet' = TRUE /\ view' = [v1 EXCEPT !.partial = found] /\ due' \in Dates
  BY DEF Search, HomeInv, TypeOK
<1>2. v1 \in View /\ v1.page = view.page /\ CalendarKept(v1, view) /\ Fresh(v1)
  BY <1>1, Before, RebuildFacts
<1> HIDE DEF v1
<1>3. view' \in View /\ view'.page = v1.page /\ view'.listed = v1.listed
  BY <1>1, <1>2 DEF View
<1>4. CalendarKept(view', v1)
  BY <1>1, <1>2 DEF View, CalendarKept, TableKept
<1>5. TypeOK'
  BY <1>1, <1>3, ChangeType DEF HomeInv, TypeOK
<1>6. (GridInv(view, due, onCalendar) /\ CacheInv(view, due, onCalendar) /\ LitInv(view))'
  BY <1>1, <1>2, <1>3, <1>4
     DEF HomeInv, PagesInv, GridInv, CacheInv, LitInv, CalendarKept, TableKept, Waits
<1>7. ListInv(view, due, onList, quiet)'
  BY <1>1, <1>2, <1>3, Before DEF ListInv, Fresh
<1> QED
  BY <1>5, <1>6, <1>7 DEF HomeInv, PagesInv

\* A step that writes nothing: the parts of the invariant about the new view.
LEMMA StillInv ==
    ASSUME HomeInv, Still, changes' \in 0 .. MaxChanges, view' \in View,
           GridInv(view', due, onCalendar), CacheInv(view', due, onCalendar),
           ListInv(view', due, onList, quiet), LitInv(view')
    PROVE  HomeInv'
<1>1. /\ due' = due /\ onCalendar' = onCalendar /\ onList' = onList
      /\ onPanel' = onPanel /\ quiet' = quiet
  BY DEF Still, observers
<1>2. TypeOK'
  BY <1>1 DEF HomeInv, TypeOK
<1> QED
  BY <1>1, <1>2 DEF HomeInv, PagesInv

\* Another page is shown, of a view that has a right table, cache and highlight, and
\* a list that is right or marked.
LEMMA ShownInv ==
    ASSUME NEW v \in View, NEW p \in Pages, due' = due, due \in Dates,
           NEW C \in SUBSET Agvs, NEW L \in SUBSET Agvs, NEW q \in BOOLEAN,
           GridInv(v, due, C), CacheInv(v, due, C), v.rendered /\ ~v.listDirty => ListInv(v, due, L, q),
           v.lit => v.highlight \/ v.pending \/ Waits(v, "rebuild")
    PROVE  LET w == ShowPage(v, p)
           IN  w \in View /\ GridInv(w, due, C) /\ CacheInv(w, due, C) /\ ListInv(w, due, L, q) /\ LitInv(w)
<1> DEFINE w == ShowPage(v, p)
<1>1. /\ w \in View /\ w.page = p /\ w.cache = v.cache /\ TableKept(w, v)
      /\ \/ w.pending = v.pending /\ w.timers = v.timers /\ (p = "calendar" => ~v.pending)
         \/ p = "calendar" /\ ~w.pending /\ Waits(w, "rebuild")
      /\ p = "list" => (w.listed = due /\ ~w.partial) \/ (ListKept(w, v) /\ v.rendered /\ ~v.listDirty)
      /\ p # "list" => ListKept(w, v)
  BY ShowPageFacts DEF Fresh
<1> HIDE DEF w
<1>2. CacheInv(w, due, C)
  BY <1>1 DEF CacheInv
<1>3. GridInv(w, due, C)
  BY <1>1 DEF GridInv, TableKept, Waits
<1>4. ListInv(w, due, L, q)
  BY <1>1 DEF ListInv, ListKept
<1>5. LitInv(w)
  BY <1>1 DEF LitInv, TableKept, Waits
<1> QED
  BY <1>1, <1>2, <1>3, <1>4, <1>5 DEF w

\* GoTo keeps the invariant.
LEMMA GoToInv ==
    ASSUME HomeInv, NEW p \in Pages, GoTo(p)
    PROVE  HomeInv'
<1>1. Change /\ Still /\ view' = ShowPage(view, p) /\ due' = due /\ due \in Dates
  BY DEF GoTo, Still, HomeInv, TypeOK
<1>2. /\ GridInv(view, due, onCalendar) /\ CacheInv(view, due, onCalendar)
      /\ ListInv(view, due, onList, quiet) /\ LitInv(view)
  BY DEF HomeInv, PagesInv
<1>3. /\ view' \in View /\ GridInv(view', due, onCalendar) /\ CacheInv(view', due, onCalendar)
      /\ ListInv(view', due, onList, quiet) /\ LitInv(view')
  BY <1>1, <1>2, Before, ShownInv DEF LitInv
<1>4. changes' \in 0 .. MaxChanges
  BY <1>1, ChangeType DEF HomeInv
<1> QED
  BY <1>1, <1>3, <1>4, StillInv

\* A table built anew is right to wait for, and what a highlight needs runs.
LEMMA BuiltInv ==
    ASSUME NEW v \in View, NEW rows, NEW C, NEW L, NEW q, CacheInv(v, rows, C), ListInv(v, rows, L, q),
           v.pending => v.page # "calendar"
    PROVE  LET w == BuildCalendarTable(v)
           IN  w \in View /\ GridInv(w, rows, C) /\ CacheInv(w, rows, C) /\ ListInv(w, rows, L, q) /\ LitInv(w)
<1> DEFINE w == BuildCalendarTable(v)
<1>1. /\ w \in View /\ w.page = v.page /\ w.month = v.month /\ w.grid.month = v.month
      /\ w.cache = v.cache /\ w.highlight = v.highlight /\ w.lit = v.highlight
      /\ w.pending = v.pending /\ Waits(w, "fill") /\ ListKept(w, v)
  BY BuildFacts
<1> HIDE DEF w
<1> QED
  BY <1>1 DEF w, GridInv, CacheInv, ListInv, LitInv, ListKept

\* Only the selected month or the highlight differs.
LEMMA SelectedFacts ==
    ASSUME NEW v \in View, NEW m \in Months, NEW h \in BOOLEAN
    PROVE  LET u == [v EXCEPT !.month = m]
               x == [v EXCEPT !.highlight = h]
           IN  /\ u \in View /\ u.page = v.page /\ u.cache = v.cache /\ u.pending = v.pending
               /\ u.timers = v.timers /\ ListKept(u, v)
               /\ x \in View /\ x.page = v.page /\ x.cache = v.cache /\ x.pending = v.pending
               /\ x.timers = v.timers /\ ListKept(x, v) /\ x.grid = v.grid /\ x.month = v.month
BY DEF View, ListKept

\* The selection of a month keeps a right cache and list.
LEMMA MonthInv ==
    ASSUME NEW v \in View, NEW m \in Months, NEW rows, NEW C, NEW L, NEW q, CacheInv(v, rows, C),
           ListInv(v, rows, L, q), v.pending => v.page # "calendar"
    PROVE  LET w == SetSelectedMonthYear(v, m)
           IN  w \in View /\ GridInv(w, rows, C) /\ CacheInv(w, rows, C) /\ ListInv(w, rows, L, q) /\ LitInv(w)
<1> DEFINE u == [v EXCEPT !.month = m]
<1>1. /\ u \in View /\ u.page = v.page /\ u.cache = v.cache /\ u.pending = v.pending
      /\ ListKept(u, v)
  BY SelectedFacts
<1>2. SetSelectedMonthYear(v, m) = BuildCalendarTable(u)
  BY DEF SetSelectedMonthYear
<1> HIDE DEF u
<1>3. CacheInv(u, rows, C) /\ ListInv(u, rows, L, q)
  BY <1>1 DEF CacheInv, ListInv, ListKept
<1> QED
  BY <1>1, <1>2, <1>3, BuiltInv

\* ChangeMonth keeps the invariant.
LEMMA ChangeMonthInv ==
    ASSUME HomeInv, NEW delta \in {-1, 1}, ChangeMonth(delta)
    PROVE  HomeInv'
<1>1. /\ Change /\ Still /\ view.month + delta \in Months
      /\ view' = SetSelectedMonthYear(view, view.month + delta)
  BY DEF ChangeMonth
<1>2. CacheInv(view, due, onCalendar) /\ ListInv(view, due, onList, quiet)
  BY DEF HomeInv, PagesInv
<1>3. /\ view' \in View /\ GridInv(view', due, onCalendar) /\ CacheInv(view', due, onCalendar)
      /\ ListInv(view', due, onList, quiet) /\ LitInv(view')
  BY <1>1, <1>2, Before, MonthInv
<1>4. changes' \in 0 .. MaxChanges
  BY <1>1, ChangeType DEF HomeInv
<1> QED
  BY <1>1, <1>3, <1>4, StillInv

\* ChoosePeriod keeps the invariant: its timer runs.
LEMMA ChoosePeriodInv ==
    ASSUME HomeInv, NEW m \in Months, ChoosePeriod(m)
    PROVE  HomeInv'
<1> DEFINE chosen == [view EXCEPT !.highlight = TRUE]
<1>1. /\ Change /\ Still /\ view.page = "calendar"
      /\ view' = IF m = view.month THEN [chosen EXCEPT !.lit = TRUE] ELSE SetSelectedMonthYear(chosen, m)
  BY DEF ChoosePeriod
<1>2. /\ GridInv(view, due, onCalendar) /\ CacheInv(view, due, onCalendar)
      /\ ListInv(view, due, onList, quiet) /\ LitInv(view) /\ view \in View
  BY Before DEF HomeInv, PagesInv
<1>3. /\ chosen \in View /\ chosen.page = view.page /\ chosen.cache = view.cache
      /\ chosen.pending = view.pending /\ chosen.timers = view.timers /\ ListKept(chosen, view)
      /\ chosen.grid = view.grid /\ chosen.month = view.month
  BY <1>2, SelectedFacts
<1>4. chosen.highlight = TRUE
  BY <1>2 DEF View
<1> HIDE DEF chosen
<1>5. CacheInv(chosen, due, onCalendar) /\ ListInv(chosen, due, onList, quiet)
  BY <1>2, <1>3 DEF CacheInv, ListInv, ListKept
<1>6. CASE m = view.month
  <2>1. view' = [chosen EXCEPT !.lit = TRUE]
    BY <1>1, <1>6
  <2>2. /\ view' \in View /\ view'.page = chosen.page /\ view'.cache = chosen.cache
        /\ view'.highlight /\ view'.pending = chosen.pending /\ view'.timers = chosen.timers
        /\ view'.grid = chosen.grid /\ view'.month = chosen.month
    BY <1>3, <1>4, <2>1 DEF View
  <2>3. ListKept(view', chosen)
    BY <1>3, <2>1 DEF View, ListKept
  <2>4. GridInv(view', due, onCalendar)
    BY <1>2, <1>3, <2>2 DEF GridInv, Waits
  <2>5. CacheInv(view', due, onCalendar) /\ ListInv(view', due, onList, quiet) /\ LitInv(view')
    BY <1>2, <1>3, <1>5, <2>2, <2>3 DEF CacheInv, ListInv, ListKept, LitInv
  <2> QED
    BY <1>1, <2>2, <2>4, <2>5, StillInv, ChangeType DEF HomeInv
<1>7. CASE m # view.month
  <2>1. view' = SetSelectedMonthYear(chosen, m)
    BY <1>1, <1>7
  <2>2. chosen.pending => chosen.page # "calendar"
    BY <1>2, <1>3 DEF LitInv
  <2>3. /\ view' \in View /\ GridInv(view', due, onCalendar) /\ CacheInv(view', due, onCalendar)
        /\ ListInv(view', due, onList, quiet) /\ LitInv(view')
    BY <1>3, <1>5, <2>1, <2>2, MonthInv
  <2> QED
    BY <1>1, <2>3, StillInv, ChangeType DEF HomeInv
<1> QED
  BY <1>6, <1>7

\* HighlightTimeout keeps the invariant: off the screen, the table is announced.
LEMMA HighlightTimeoutInv ==
    ASSUME HomeInv, HighlightTimeout
    PROVE  HomeInv'
<1>1. /\ GridInv(view, due, onCalendar) /\ CacheInv(view, due, onCalendar)
      /\ ListInv(view, due, onList, quiet) /\ LitInv(view) /\ view \in View
  BY Before DEF HomeInv, PagesInv
<1>2. Still /\ changes' \in 0 .. MaxChanges
  BY DEF HighlightTimeout, HomeInv, TypeOK
<1>3. /\ view' \in View /\ view'.page = view.page /\ view'.cache = view.cache
      /\ view'.timers = view.timers /\ view'.grid = view.grid /\ view'.month = view.month
      /\ IF view.page = "calendar" THEN ~view'.lit /\ view'.pending = view.pending ELSE view'.pending
  <2>1. CASE view.page = "calendar"
    <3>1. view' = [view EXCEPT !.highlight = FALSE, !.lit = FALSE]
      BY <2>1 DEF HighlightTimeout
    <3> QED
      BY <1>1, <2>1, <3>1 DEF View
  <2>2. CASE view.page # "calendar"
    <3>1. view' = [view EXCEPT !.highlight = FALSE, !.pending = TRUE]
      BY <2>2 DEF HighlightTimeout
    <3> QED
      BY <1>1, <2>2, <3>1 DEF View
  <2> QED
    BY <2>1, <2>2
<1>4. ListKept(view', view)
  BY <1>1 DEF HighlightTimeout, View, ListKept
<1>5. GridInv(view', due, onCalendar)
  BY <1>1, <1>3 DEF GridInv, Waits, LitInv
<1>6. CacheInv(view', due, onCalendar) /\ ListInv(view', due, onList, quiet)
  BY <1>1, <1>3, <1>4 DEF CacheInv, ListInv, ListKept
<1>7. LitInv(view')
  BY <1>1, <1>3 DEF LitInv
<1> QED
  BY <1>2, <1>3, <1>5, <1>6, <1>7, StillInv

\* The pages built anew: an empty list and panel, and a timer that fills the panel.
LEMMA RebuiltFacts ==
    ASSUME NEW v \in View
    PROVE  LET w == [v EXCEPT !.listDirty = TRUE, !.rendered = FALSE, !.listed = [a \in Agvs |-> 0],
                              !.partial = FALSE, !.panel = {}, !.timers = Append(@, "load")]
           IN  /\ w \in View /\ TableKept(w, v) /\ w.page = v.page /\ w.cache = v.cache
               /\ w.pending = v.pending /\ ~w.rendered /\ Waits(w, "load")
               /\ \A kind : Waits(v, kind) => Waits(w, kind)
<1> DEFINE none == [a \in Agvs |-> 0]
           t == Append(v.timers, "load")
           w == [v EXCEPT !.listDirty = TRUE, !.rendered = FALSE, !.listed = none,
                          !.partial = FALSE, !.panel = {}, !.timers = t]
<1>1. none \in Dates
  BY DEF Dates
<1>2. /\ t \in Seq(Kinds) /\ Len(t) = Len(v.timers) + 1 /\ Len(v.timers) \in Nat
      /\ t[Len(v.timers) + 1] = "load" /\ \A i \in 1 .. Len(v.timers) : t[i] = v.timers[i]
  BY ViewFields, Basics, AppendTimer
<1> HIDE DEF none, t
<1>3. /\ w \in View /\ w.page = v.page /\ w.cache = v.cache
      /\ w.pending = v.pending /\ ~w.rendered /\ w.timers = t
  BY <1>1, <1>2 DEF View, Kinds
<1>4. TableKept(w, v)
  BY DEF View, TableKept
<1> HIDE DEF w
<1>5. Waits(w, "load")
  BY <1>2, <1>3 DEF Waits
<1>6. ASSUME NEW kind, Waits(v, kind) PROVE Waits(w, kind)
  <2>1. PICK i \in 1 .. Len(v.timers) : v.timers[i] = kind
    BY <1>6 DEF Waits
  <2>2. i \in 1 .. Len(t) /\ t[i] = kind
    BY <1>2, <2>1
  <2> QED
    BY <1>3, <2>2 DEF Waits
<1> QED
  BY <1>3, <1>4, <1>5, <1>6 DEF w, t, none

\* Resize keeps the invariant: every page is built anew, then the old one shown.
LEMMA ResizeInv ==
    ASSUME HomeInv, Resize
    PROVE  HomeInv'
<1> DEFINE v1 == BuildCalendarTable(view)
           v2 == [v1 EXCEPT !.listDirty = TRUE, !.rendered = FALSE, !.listed = [a \in Agvs |-> 0],
                            !.partial = FALSE, !.panel = {}, !.timers = Append(@, "load")]
<1>1. Change /\ Still /\ view' = ShowPage(v2, view.page) /\ due' = due /\ due \in Dates
  BY DEF Resize, Still, HomeInv, TypeOK
<1>2. /\ CacheInv(view, due, onCalendar) /\ ListInv(view, due, onList, quiet) /\ view \in View
      /\ view.page \in Pages
  BY Before, ViewFields DEF HomeInv, PagesInv
<1>3. v1 \in View /\ GridInv(v1, due, onCalendar) /\ CacheInv(v1, due, onCalendar) /\ LitInv(v1)
  BY <1>2, Before, BuiltInv
<1> HIDE DEF v1
<1>4. /\ v2 \in View /\ TableKept(v2, v1) /\ v2.cache = v1.cache /\ ~v2.rendered
      /\ v2.pending = v1.pending /\ \A kind : Waits(v1, kind) => Waits(v2, kind)
  BY <1>3, RebuiltFacts
<1> HIDE DEF v2
<1>5. CacheInv(v2, due, onCalendar)
  BY <1>3, <1>4 DEF CacheInv
<1>6. GridInv(v2, due, onCalendar)
  BY <1>3, <1>4 DEF GridInv, TableKept
<1>7. v2.lit => v2.highlight \/ v2.pending \/ Waits(v2, "rebuild")
  BY <1>3, <1>4 DEF LitInv, TableKept
<1>8. /\ view' \in View /\ GridInv(view', due, onCalendar) /\ CacheInv(view', due, onCalendar)
      /\ ListInv(view', due, onList, quiet) /\ LitInv(view')
  BY <1>1, <1>2, <1>4, <1>5, <1>6, <1>7, Before, ShownInv
<1> QED
  BY <1>1, <1>8, StillInv, ChangeType DEF HomeInv

\* RunTimer keeps the invariant: what a timer that fires leaves undone, another one waits
\* for or the table shows.
LEMMA RunTimerInv ==
    ASSUME HomeInv, RunTimer
    PROVE  HomeInv'
<1> DEFINE rest == [view EXCEPT !.timers = Tail(view.timers)]
           kind == Head(view.timers)
<1>1. /\ GridInv(view, due, onCalendar) /\ CacheInv(view, due, onCalendar)
      /\ ListInv(view, due, onList, quiet) /\ LitInv(view) /\ view \in View
  BY Before DEF HomeInv, PagesInv
<1>2. /\ Still /\ changes' \in 0 .. MaxChanges /\ view.timers # <<>>
      /\ view' = CASE kind = "rebuild" -> BuildCalendarTable(rest)
                   [] kind = "fill" -> FillCalendarTable(rest)
                   [] kind = "load" -> UpdateUpcomingMaintenance(rest)
                   [] kind = "dropped" -> rest
  BY DEF RunTimer, HomeInv, TypeOK
<1>3. view.timers \in Seq(Kinds)
  BY <1>1, ViewFields
<1>4. kind \in Kinds /\ Tail(view.timers) \in Seq(Kinds)
  BY <1>2, <1>3, TailTimer
<1>5. /\ rest \in View /\ rest.page = view.page /\ rest.cache = view.cache
      /\ rest.pending = view.pending /\ rest.timers = Tail(view.timers)
  BY <1>1, <1>4 DEF View, Kinds
<1>6. TableKept(rest, view) /\ ListKept(rest, view)
  BY <1>1 DEF View, TableKept, ListKept
<1> HIDE DEF rest, kind
<1>7. \A k : k # kind /\ Waits(view, k) => Waits(rest, k)
  <2> DEFINE t == view.timers
  <2>1. t \in Seq(Kinds) /\ t # <<>>
    BY <1>2, <1>3
  <2> HIDE DEF t
  <2>2. \A k : k # Head(t) /\ (\E i \in 1 .. Len(t) : t[i] = k)
                => \E i \in 1 .. Len(Tail(t)) : Tail(t)[i] = k
    BY <2>1, TailTimer
  <2>3. t = view.timers /\ rest.timers = Tail(t) /\ kind = Head(t)
    BY <1>5 DEF t, kind
  <2> SUFFICES ASSUME NEW k, k # kind, Waits(view, k) PROVE Waits(rest, k)
    OBVIOUS
  <2>4. \E i \in 1 .. Len(t) : t[i] = k
    BY <2>3 DEF Waits
  <2>5. \E i \in 1 .. Len(Tail(t)) : Tail(t)[i] = k
    BY <2>2, <2>3, <2>4
  <2> QED
    BY <2>3, <2>5 DEF Waits
<1>8. CacheInv(rest, due, onCalendar) /\ ListInv(rest, due, onList, quiet)
  BY <1>1, <1>5, <1>6 DEF CacheInv, ListInv, ListKept
<1>9. CASE kind = "rebuild"
  <2>1. view' = BuildCalendarTable(rest)
    BY <1>2, <1>9
  <2>2. rest.pending => rest.page # "calendar"
    BY <1>1, <1>5 DEF LitInv
  <2>3. /\ view' \in View /\ GridInv(view', due, onCalendar) /\ CacheInv(view', due, onCalendar)
        /\ ListInv(view', due, onList, quiet) /\ LitInv(view')
    BY <1>5, <1>8, <2>1, <2>2, BuiltInv
  <2> QED
    BY <1>2, <2>3, StillInv
<1>10. CASE kind = "fill"
  <2>1. view' = FillCalendarTable(rest)
    BY <1>2, <1>10
  <2>2. /\ Events(rest) \in SUBSET Agvs
        /\ \A a \in onCalendar : a \in Events(rest) <=> due[a] = rest.grid.month
    BY <1>5, <1>8, Before, EventsFacts
  <2>3. /\ view' \in View /\ view'.page = rest.page /\ view'.month = rest.month
        /\ view'.grid.month = rest.grid.month /\ view'.grid.events = Events(rest)
        /\ view'.cache.month = rest.grid.month /\ view'.cache.events = Events(rest)
        /\ view'.highlight = rest.highlight /\ view'.lit = rest.lit
        /\ view'.pending = rest.pending /\ view'.timers = rest.timers /\ ListKept(view', rest)
    BY <1>5, <2>1, <2>2, FillFacts
  <2>4. GridInv(view', due, onCalendar)
    BY <1>1, <1>6, <2>2, <2>3 DEF GridInv, TableKept
  <2>5. CacheInv(view', due, onCalendar) /\ ListInv(view', due, onList, quiet)
    BY <1>8, <2>2, <2>3 DEF CacheInv, ListInv, ListKept
  <2>6. Waits(view, "rebuild") => Waits(view', "rebuild")
    BY <1>7, <1>10, <2>3 DEF Waits
  <2>7. LitInv(view')
    BY <1>1, <1>5, <1>6, <2>3, <2>6 DEF LitInv, TableKept
  <2> QED
    BY <1>2, <2>3, <2>4, <2>5, <2>7, StillInv
<1>11. CASE kind = "dropped" \/ kind = "load"
  <2>1. view' = rest \/ view' = UpdateUpcomingMaintenance(rest)
    BY <1>2, <1>11
  <2>2. /\ Waits(view, "rebuild") => Waits(rest, "rebuild")
        /\ Waits(view, "fill") => Waits(rest, "fill")
    BY <1>7, <1>11
  <2>3. GridInv(rest, due, onCalendar)
    BY <1>1, <1>5, <1>6, <2>2 DEF GridInv, TableKept
  <2>4. LitInv(rest)
    BY <1>1, <1>5, <1>6, <2>2 DEF LitInv, TableKept
  <2>5. CASE view' = rest
    BY <1>2, <1>5, <1>8, <2>3, <2>4, <2>5, StillInv
  <2>6. CASE view' = UpdateUpcomingMaintenance(rest)
    <3>1. /\ view' \in View /\ view'.page = rest.page /\ CalendarKept(view', rest)
          /\ ListKept(view', rest)
      BY <1>5, <2>6, UpcomingFacts
    <3>2. GridInv(view', due, onCalendar) /\ LitInv(view')
      BY <2>3, <2>4, <3>1 DEF GridInv, LitInv, CalendarKept, TableKept, Waits
    <3>3. CacheInv(view', due, onCalendar) /\ ListInv(view', due, onList, quiet)
      BY <1>8, <3>1 DEF CacheInv, ListInv, CalendarKept, ListKept
    <3> QED
      BY <1>2, <3>1, <3>2, <3>3, StillInv
  <2> QED
    BY <2>1, <2>5, <2>6
<1> QED
  BY <1>4, <1>9, <1>10, <1>11 DEF Kinds

\* Every step keeps the invariant.
LEMMA NextInv == HomeInv /\ [Next]_vars => HomeInv'
<1> SUFFICES ASSUME HomeInv, [Next]_vars PROVE HomeInv'
  OBVIOUS
<1>1. CASE \E p \in Pages : GoTo(p)
  BY <1>1, GoToInv
<1>2. CASE \E a \in Agvs, m \in Months : AddFromMenu(a, m) \/ AddFromList(a, m)
  BY <1>2, AddFromMenuInv, AddFromListInv
<1>3. ASSUME NEW a \in Agvs, NEW m \in Months \cup {0},
             \/ DeleteOrRestore(a, m) \/ CompleteTask(a, m) \/ SaveAgv(a, m) \/ SaveTask(a, m)
             \/ BulkComplete(a, m) \/ OpcPoll(a, m) \/ WrittenByOthers(a, m)
      PROVE  HomeInv'
  BY <1>3, DeleteOrRestoreInv, CompleteTaskInv, SaveAgvInv, SaveTaskInv, BulkCompleteInv,
     OpcPollInv, WrittenByOthersInv
<1>4. CASE \E delta \in {-1, 1} : ChangeMonth(delta)
  BY <1>4, ChangeMonthInv
<1>5. CASE \E m \in Months : ChoosePeriod(m)
  BY <1>5, ChoosePeriodInv
<1>6. CASE HighlightTimeout \/ Resize \/ RunTimer
  BY <1>6, HighlightTimeoutInv, ResizeInv, RunTimerInv
<1>7. CASE \E found \in BOOLEAN : Search(found)
  BY <1>7, SearchInv
<1>8. CASE UNCHANGED vars
  <2>1. UNCHANGED <<due, view, onCalendar, onList, onPanel, quiet, changes>>
    BY <1>8 DEF vars, observers
  <2>2. TypeOK'
    BY <2>1 DEF HomeInv, TypeOK
  <2> QED
    BY <2>1, <2>2 DEF HomeInv, PagesInv
<1> QED
  BY <1>1, <1>2, <1>3, <1>4, <1>5, <1>6, <1>7, <1>8 DEF Next

\* The invariant holds in every state.
LEMMA AlwaysInv == Spec => []HomeInv
BY InitInv, NextInv, PTL DEF Spec

-----------------------------------------------------------------------------
(* The panel of upcoming maintenance.  Its invariant is carried by a proof *)
(* of its own: an operation on the view either leaves the panel and the    *)
(* timer that fills it, or fills it from the rows as they are.             *)

\* The panel and the timer that fills it are left alone.
PanelKept(w, v) == w.panel = v.panel /\ (Waits(v, "load") => Waits(w, "load"))

\* The panel is to be filled, or right for the AGVs it was told of.
PanelInv ==
    \/ Waits(view, "load")
    \/ \A a \in onPanel : a \in view.panel <=> a \in Upcoming(due)

\* A timer that is started keeps the others waiting.
LEMMA AppendWaits ==
    ASSUME NEW v \in View, NEW kind \in Kinds, NEW w, w.timers = Append(v.timers, kind)
    PROVE  \A k : Waits(v, k) => Waits(w, k)
<1>1. /\ Len(Append(v.timers, kind)) = Len(v.timers) + 1 /\ Len(v.timers) \in Nat
      /\ \A i \in 1 .. Len(v.timers) : Append(v.timers, kind)[i] = v.timers[i]
  BY ViewFields, AppendTimer
<1> SUFFICES ASSUME NEW k, Waits(v, k) PROVE Waits(w, k)
  OBVIOUS
<1>2. PICK i \in 1 .. Len(v.timers) : v.timers[i] = k
  BY DEF Waits
<1>3. i \in 1 .. Len(Append(v.timers, kind)) /\ Append(v.timers, kind)[i] = k
  BY <1>1, <1>2
<1> QED
  BY <1>3 DEF Waits

\* Announcing the calendar leaves the panel.
LEMMA LaterPanel ==
    ASSUME NEW v \in View
    PROVE  PanelKept(CalendarLater(v), v)
<1>1. CASE v.page = "calendar"
  <2> DEFINE w == [v EXCEPT !.timers = Append(v.timers, "rebuild")]
  <2>1. CalendarLater(v) = w
    BY <1>1 DEF CalendarLater
  <2>2. w.timers = Append(v.timers, "rebuild") /\ w.panel = v.panel
    BY DEF View
  <2> HIDE DEF w
  <2>3. Waits(v, "load") => Waits(w, "load")
    BY <2>2, Basics, AppendWaits
  <2> QED
    BY <2>1, <2>2, <2>3 DEF PanelKept
<1>2. CASE v.page # "calendar"
  BY <1>2 DEF CalendarLater, View, PanelKept, Waits
<1> QED
  BY <1>1, <1>2

\* Building the table drops timers, never the one that fills the panel.
LEMMA BuildPanel ==
    ASSUME NEW v \in View
    PROVE  PanelKept(BuildCalendarTable(v), v)
<1> DEFINE old == [i \in DOMAIN v.timers |-> IF v.timers[i] = "fill" THEN "dropped" ELSE v.timers[i]]
           t == Append(old, "fill")
           w == [v EXCEPT !.grid = [month |-> v.month, events |-> {}], !.lit = v.highlight, !.timers = t]
<1>1. v.timers \in Seq(Kinds) /\ DOMAIN v.timers = 1 .. Len(v.timers) /\ Len(v.timers) \in Nat
  BY ViewFields
<1>2. /\ \A i \in 1 .. Len(v.timers) : old[i] \in Kinds /\ (v.timers[i] = "load" => old[i] = "load")
      /\ DOMAIN old = 1 .. Len(v.timers)
  BY <1>1 DEF Kinds
<1>3. old \in [1 .. Len(v.timers) -> Kinds]
  BY <1>1, <1>2
<1> HIDE DEF old
<1>4. old \in Seq(Kinds) /\ Len(old) = Len(v.timers)
  BY <1>1, <1>2, <1>3, SeqDef, LenProperties
<1>5. Len(t) = Len(old) + 1 /\ \A i \in 1 .. Len(old) : t[i] = old[i]
  BY <1>4, Basics, AppendTimer
<1> HIDE DEF t
<1>6. w.panel = v.panel /\ w.timers = t
  BY DEF View
<1>7. BuildCalendarTable(v) = w
  BY DEF BuildCalendarTable, old, t
<1> HIDE DEF w
<1>8. ASSUME Waits(v, "load") PROVE Waits(w, "load")
  <2>1. PICK i \in 1 .. Len(v.timers) : v.timers[i] = "load"
    BY <1>8 DEF Waits
  <2>2. i \in 1 .. Len(t) /\ t[i] = "load"
    BY <1>1, <1>2, <1>4, <1>5, <2>1
  <2> QED
    BY <1>6, <2>2 DEF Waits
<1> QED
  BY <1>6, <1>7, <1>8 DEF PanelKept

\* The list, its mark, the cache, the month and the highlight do not touch the panel.
LEMMA OthersPanel ==
    ASSUME NEW v \in View
    PROVE  /\ PanelKept(RebuildList(v), v)
           /\ PanelKept([RebuildList(v) EXCEPT !.listDirty = FALSE], v)
           /\ PanelKept([v EXCEPT !.listDirty = TRUE], v)
           /\ \A m : PanelKept([v EXCEPT !.month = m], v)
           /\ PanelKept([v EXCEPT !.highlight = TRUE], v)
           /\ PanelKept([v EXCEPT !.lit = TRUE], v)
<1>1. PanelKept(RebuildList(v), v) /\ PanelKept([RebuildList(v) EXCEPT !.listDirty = FALSE], v)
  BY DEF RebuildList, View, PanelKept, Waits
<1>2. PanelKept([v EXCEPT !.listDirty = TRUE], v)
  BY DEF View, PanelKept, Waits
<1>3. \A m : PanelKept([v EXCEPT !.month = m], v)
  BY DEF View, PanelKept, Waits
<1>4. PanelKept([v EXCEPT !.highlight = TRUE], v)
  BY DEF View, PanelKept, Waits
<1>5. PanelKept([v EXCEPT !.lit = TRUE], v)
  BY DEF View, PanelKept, Waits
<1> QED
  BY <1>1, <1>2, <1>3, <1>4, <1>5

\* The slots that do not fill the panel.
LEMMA SlotsPanel ==
    ASSUME NEW v \in View
    PROVE  PanelKept(AgvListChanged(v), v) /\ PanelKept(TelemetryUpdated(v), v)
<1>1. PanelKept(AgvListChanged(v), v)
  <2> DEFINE u == [v EXCEPT !.cache = Empty, !.listDirty = TRUE]
  <2>1. u \in View /\ PanelKept(u, v)
    BY Basics DEF View, PanelKept, Waits
  <2>2. AgvListChanged(v) = CalendarLater(u)
    BY DEF AgvListChanged
  <2> HIDE DEF u
  <2> QED
    BY <2>1, <2>2, LaterPanel DEF PanelKept
<1>2. PanelKept(TelemetryUpdated(v), v)
  BY OthersPanel DEF TelemetryUpdated
<1> QED
  BY <1>1, <1>2

\* The slots that fill the panel.
LEMMA ToldPanel ==
    ASSUME NEW v \in View, due' \in Dates
    PROVE  CalendarChanged(v).panel = Upcoming(due') /\ TasksChanged(v).panel = Upcoming(due')
<1>1. CalendarChanged(v).panel = Upcoming(due')
  <2> DEFINE u == [v EXCEPT !.cache = Empty]
             x == UpdateUpcomingMaintenance(u)
  <2>1. u \in View
    BY Basics DEF View
  <2>2. CalendarChanged(v) = CalendarLater(x)
    BY DEF CalendarChanged
  <2> HIDE DEF u
  <2>3. x \in View /\ x.panel = Upcoming(due')
    BY <2>1, UpcomingFacts
  <2> HIDE DEF x
  <2> QED
    BY <2>2, <2>3, LaterPanel DEF PanelKept
<1>2. TasksChanged(v).panel = Upcoming(due')
  <2> DEFINE x == UpdateUpcomingMaintenance(v)
             u == TelemetryUpdated(x)
  <2>1. TasksChanged(v) = CalendarLater(u)
    BY UpcomingFacts DEF TasksChanged, TelemetryUpdated, UpdateUpcomingMaintenance, View
  <2>2. x \in View /\ x.panel = Upcoming(due')
    BY UpcomingFacts
  <2> HIDE DEF x
  <2>3. u \in View /\ PanelKept(u, x)
    BY <2>2, TelemetryFacts, SlotsPanel
  <2> HIDE DEF u
  <2> QED
    BY <2>1, <2>2, <2>3, LaterPanel DEF PanelKept
<1> QED
  BY <1>1, <1>2

\* Showing a page leaves the panel.
LEMMA ShowPanel ==
    ASSUME NEW v \in View, NEW p \in Pages
    PROVE  PanelKept(ShowPage(v, p), v) /\ PanelKept(ShowAgvList(v), v)
<1>1. PanelKept(ShowAgvList(v), v)
  BY DEF ShowAgvList, RebuildList, View, PanelKept, Waits
<1>2. CASE p = "calendar" /\ v.pending
  <2> DEFINE t == Append(v.timers, "rebuild")
             w == [v EXCEPT !.page = "calendar", !.pending = FALSE, !.timers = t]
  <2>1. ShowPage(v, p) = w
    BY <1>2 DEF ShowPage, ShowCalendar
  <2>2. w.panel = v.panel /\ w.timers = t
    BY DEF View
  <2> HIDE DEF w
  <2>3. Waits(v, "load") => Waits(w, "load")
    BY <2>2, Basics, AppendWaits
  <2> QED
    BY <1>1, <2>1, <2>2, <2>3 DEF PanelKept
<1>3. CASE ~(p = "calendar" /\ v.pending) /\ p # "list"
  <2>1. ShowPage(v, p) = [v EXCEPT !.page = p]
    BY <1>3 DEF ShowPage, ShowCalendar
  <2>2. PanelKept([v EXCEPT !.page = p], v)
    BY DEF View, PanelKept, Waits
  <2> QED
    BY <1>1, <2>1, <2>2
<1>4. CASE p = "list"
  BY <1>1, <1>4 DEF ShowPage
<1> QED
  BY <1>2, <1>3, <1>4

\* A step that leaves the rows and the panel.
LEMMA StillPanel ==
    ASSUME PanelInv, Still, PanelKept(view', view)
    PROVE  PanelInv'
BY DEF PanelInv, Still, observers, PanelKept, Upcoming

\* A step that writes a row the panel is not told of.
LEMMA MissedPanel ==
    ASSUME HomeInv, PanelInv, NEW a \in Agvs, NEW m \in Months \cup {0},
           due' = [due EXCEPT ![a] = m], PanelMisses(a), PanelKept(view', view)
    PROVE  PanelInv'
<1>1. \A b \in Agvs \ {a} : due'[b] = due[b]
  BY WrittenDates DEF HomeInv
<1>2. \A b \in onPanel \ {a} : b \in Upcoming(due') <=> b \in Upcoming(due)
  BY <1>1, Before DEF Upcoming
<1> QED
  BY <1>2 DEF PanelInv, PanelMisses, PanelKept

\* A step that fills the panel.
LEMMA FilledPanel ==
    ASSUME view'.panel = Upcoming(due')
    PROVE  PanelInv'
BY DEF PanelInv, Upcoming

\* The steps that write a row keep the invariant of the panel.
LEMMA WritePanel ==
    ASSUME HomeInv, PanelInv, NEW a \in Agvs, NEW m \in Months \cup {0},
           \/ m \in Months /\ (AddFromMenu(a, m) \/ AddFromList(a, m))
           \/ DeleteOrRestore(a, m) \/ CompleteTask(a, m) \/ SaveAgv(a, m) \/ SaveTask(a, m)
           \/ BulkComplete(a, m) \/ OpcPoll(a, m) \/ WrittenByOthers(a, m)
    PROVE  PanelInv'
<1> view \in View
  BY Before
<1>1. due' = [due EXCEPT ![a] = m]
  BY DEF AddFromMenu, AddFromList, DeleteOrRestore, CompleteTask, SaveAgv, SaveTask, BulkComplete,
         OpcPoll, WrittenByOthers, Told
<1>2. due' \in Dates
  BY <1>1, WrittenDates DEF HomeInv
<1>3. CASE AddFromMenu(a, m)
  <2> DEFINE v1 == AgvListChanged(view)
             v2 == [v1 EXCEPT !.listDirty = TRUE]
             v3 == IF view.page = "list" THEN [RebuildList(v2) EXCEPT !.listDirty = FALSE] ELSE v2
  <2>1. PanelMisses(a) /\ view' = ShowAgvList(v3)
    BY <1>3 DEF AddFromMenu
  <2>2. v1 \in View /\ PanelKept(v1, view)
    BY AgvListChangedFacts, SlotsPanel
  <2> HIDE DEF v1
  <2>3. v2 \in View /\ PanelKept(v2, v1)
    BY <2>2, MarkFacts, OthersPanel
  <2> HIDE DEF v2
  <2>4. v3 \in View /\ PanelKept(v3, v2)
    BY <1>2, <2>3, RebuildFacts, OthersPanel DEF PanelKept
  <2> HIDE DEF v3
  <2>5. PanelKept(view', v3)
    BY <2>1, <2>4, ShowPanel DEF Pages
  <2> QED
    BY <1>1, <2>1, <2>2, <2>3, <2>4, <2>5, MissedPanel DEF PanelKept
<1>4. CASE AddFromList(a, m)
  <2> DEFINE v1 == AgvListChanged(view)
  <2>1. PanelMisses(a) /\ view' = RebuildList(v1)
    BY <1>4 DEF AddFromList
  <2>2. v1 \in View /\ PanelKept(v1, view)
    BY AgvListChangedFacts, SlotsPanel
  <2> HIDE DEF v1
  <2>3. PanelKept(view', v1)
    BY <2>1, <2>2, OthersPanel
  <2> QED
    BY <1>1, <2>1, <2>2, <2>3, MissedPanel DEF PanelKept
<1>5. CASE OpcPoll(a, m)
  <2> DEFINE v1 == TelemetryUpdated(view)
  <2>1. PanelMisses(a) /\ view' = AgvListChanged(v1)
    BY <1>5 DEF OpcPoll
  <2>2. v1 \in View /\ PanelKept(v1, view)
    BY <1>2, TelemetryFacts, SlotsPanel
  <2> HIDE DEF v1
  <2>3. PanelKept(view', v1)
    BY <2>1, <2>2, SlotsPanel
  <2> QED
    BY <1>1, <2>1, <2>2, <2>3, MissedPanel DEF PanelKept
<1>6. CASE WrittenByOthers(a, m)
  <2>1. PanelMisses(a) /\ PanelKept(view', view)
    BY <1>6 DEF WrittenByOthers, PanelKept
  <2> QED
    BY <1>1, <2>1, MissedPanel
<1>7. CASE DeleteOrRestore(a, m)
  <2> DEFINE v1 == RebuildList(view)
             v2 == AgvListChanged(v1)
  <2>1. view' = CalendarChanged(v2)
    BY <1>7 DEF DeleteOrRestore
  <2>2. v1 \in View
    BY <1>2, RebuildFacts
  <2> HIDE DEF v1
  <2>3. v2 \in View
    BY <2>2, AgvListChangedFacts
  <2> HIDE DEF v2
  <2> QED
    BY <1>2, <2>1, <2>3, ToldPanel, FilledPanel
<1>8. CASE CompleteTask(a, m)
  <2> DEFINE v1 == TasksChanged(view)
  <2>1. view' = CalendarChanged(v1)
    BY <1>8 DEF CompleteTask
  <2>2. v1 \in View
    BY <1>2, TasksChangedFacts
  <2> HIDE DEF v1
  <2> QED
    BY <1>2, <2>1, <2>2, ToldPanel, FilledPanel
<1>9. CASE SaveAgv(a, m)
  <2> DEFINE v1 == AgvListChanged(view)
  <2>1. view' = TasksChanged(v1)
    BY <1>9 DEF SaveAgv
  <2>2. v1 \in View
    BY AgvListChangedFacts
  <2> HIDE DEF v1
  <2> QED
    BY <1>2, <2>1, <2>2, ToldPanel, FilledPanel
<1>10. CASE SaveTask(a, m)
  <2>1. view' = TasksChanged(view)
    BY <1>10 DEF SaveTask
  <2> QED
    BY <1>2, <2>1, ToldPanel, FilledPanel
<1>11. CASE BulkComplete(a, m)
  <2> DEFINE v1 == CalendarChanged(view)
             v2 == TasksChanged(v1)
  <2>1. view' = RebuildList(v1) \/ view' = RebuildList(v2)
    BY <1>11 DEF BulkComplete
  <2>2. v1 \in View /\ v1.panel = Upcoming(due')
    BY <1>2, CalendarChangedFacts, ToldPanel
  <2> HIDE DEF v1
  <2>3. v2 \in View /\ v2.panel = Upcoming(due')
    BY <1>2, <2>2, TasksChangedFacts, ToldPanel
  <2> HIDE DEF v2
  <2>4. view'.panel = Upcoming(due')
    BY <2>1, <2>2, <2>3, OthersPanel DEF PanelKept
  <2> QED
    BY <2>4, FilledPanel
<1> QED
  BY <1>3, <1>4, <1>5, <1>6, <1>7, <1>8, <1>9, <1>10, <1>11

\* The steps that write nothing keep the invariant of the panel, but for resizing and timers.
LEMMA LookPanel ==
    ASSUME HomeInv, PanelInv,
           \/ \E p \in Pages : GoTo(p)
           \/ \E delta \in {-1, 1} : ChangeMonth(delta)
           \/ \E m \in Months : ChoosePeriod(m)
           \/ HighlightTimeout
    PROVE  PanelInv'
<1> view \in View
  BY Before
<1>1. ASSUME NEW p \in Pages, GoTo(p) PROVE PanelInv'
  BY <1>1, ShowPanel, StillPanel DEF GoTo
<1>2. ASSUME NEW m \in Months, NEW v \in View, PanelKept(v, view) PROVE PanelKept(SetSelectedMonthYear(v, m), view)
  <2> DEFINE u == [v EXCEPT !.month = m]
  <2>1. u \in View /\ PanelKept(u, v)
    BY SelectedFacts, OthersPanel
  <2>2. SetSelectedMonthYear(v, m) = BuildCalendarTable(u)
    BY DEF SetSelectedMonthYear
  <2> HIDE DEF u
  <2> QED
    BY <1>2, <2>1, <2>2, BuildPanel DEF PanelKept
<1>3. ASSUME NEW delta \in {-1, 1}, ChangeMonth(delta) PROVE PanelInv'
  <2>1. PanelKept(view, view)
    BY DEF PanelKept
  <2>2. PanelKept(view', view)
    BY <1>2, <1>3, <2>1 DEF ChangeMonth
  <2> QED
    BY <1>3, <2>2, StillPanel DEF ChangeMonth
<1>4. ASSUME NEW m \in Months, ChoosePeriod(m) PROVE PanelInv'
  <2> DEFINE chosen == [view EXCEPT !.highlight = TRUE]
  <2>1. /\ Still
        /\ view' = IF m = view.month THEN [chosen EXCEPT !.lit = TRUE] ELSE SetSelectedMonthYear(chosen, m)
    BY <1>4 DEF ChoosePeriod
  <2>2. chosen \in View /\ PanelKept(chosen, view)
    BY SelectedFacts, OthersPanel
  <2> HIDE DEF chosen
  <2>3. PanelKept(view', view)
    BY <1>2, <2>1, <2>2, OthersPanel DEF PanelKept
  <2> QED
    BY <2>1, <2>3, StillPanel
<1>5. ASSUME HighlightTimeout PROVE PanelInv'
  <2>1. PanelKept(view', view)
    BY <1>5 DEF HighlightTimeout, View, PanelKept, Waits
  <2> QED
    BY <1>5, <2>1, StillPanel DEF HighlightTimeout
<1> QED
  BY <1>1, <1>3, <1>4, <1>5

\* A search keeps the invariant of the panel.
LEMMA SearchPanel ==
    ASSUME HomeInv, PanelInv, NEW found \in BOOLEAN, Search(found)
    PROVE  PanelInv'
<1> DEFINE v1 == RebuildList(view)
<1>1. /\ due' = due /\ onPanel' = onPanel /\ view' = [v1 EXCEPT !.partial = found] /\ due' \in Dates
  BY DEF Search, HomeInv, TypeOK
<1>2. v1 \in View /\ PanelKept(v1, view)
  BY <1>1, Before, RebuildFacts, OthersPanel
<1> HIDE DEF v1
<1>3. PanelKept(view', v1)
  BY <1>1, <1>2 DEF View, PanelKept, Waits
<1> QED
  BY <1>1, <1>2, <1>3 DEF PanelInv, PanelKept, Upcoming

\* Resizing starts the timer that fills the empty panel.
LEMMA ResizePanel ==
    ASSUME HomeInv, Resize
    PROVE  PanelInv'
<1> DEFINE v1 == BuildCalendarTable(view)
           v2 == [v1 EXCEPT !.listDirty = TRUE, !.rendered = FALSE, !.listed = [a \in Agvs |-> 0],
                            !.partial = FALSE, !.panel = {}, !.timers = Append(@, "load")]
<1>1. view' = ShowPage(v2, view.page) /\ view.page \in Pages
  BY Before, ViewFields DEF Resize
<1>2. v1 \in View
  BY Before, BuildFacts
<1> HIDE DEF v1
<1>3. v2 \in View /\ Waits(v2, "load")
  BY <1>2, RebuiltFacts
<1> HIDE DEF v2
<1> QED
  BY <1>1, <1>3, ShowPanel DEF PanelKept, PanelInv

\* A timer that fires keeps the invariant of the panel.
LEMMA TimerPanel ==
    ASSUME HomeInv, PanelInv, RunTimer
    PROVE  PanelInv'
<1> DEFINE rest == [view EXCEPT !.timers = Tail(view.timers)]
           kind == Head(view.timers)
<1>1. /\ Still /\ view.timers # <<>> /\ view \in View
      /\ view' = CASE kind = "rebuild" -> BuildCalendarTable(rest)
                   [] kind = "fill" -> FillCalendarTable(rest)
                   [] kind = "load" -> UpdateUpcomingMaintenance(rest)
                   [] kind = "dropped" -> rest
  BY Before DEF RunTimer
<1>2. view.timers \in Seq(Kinds)
  BY <1>1, ViewFields
<1>3. kind \in Kinds /\ Tail(view.timers) \in Seq(Kinds)
  BY <1>1, <1>2, TailTimer
<1>4. rest \in View /\ rest.panel = view.panel /\ rest.timers = Tail(view.timers)
  BY <1>1, <1>3 DEF View, Kinds
<1> HIDE DEF rest
<1>5. kind # "load" => PanelKept(rest, view)
  <2> SUFFICES ASSUME kind # "load", Waits(view, "load") PROVE Waits(rest, "load")
    BY <1>4 DEF PanelKept
  <2> DEFINE t == view.timers
  <2>1. t \in Seq(Kinds) /\ t # <<>> /\ rest.timers = Tail(t) /\ kind = Head(t)
    BY <1>1, <1>2, <1>4
  <2>2. \E i \in 1 .. Len(t) : t[i] = "load"
    BY DEF Waits
  <2> HIDE DEF t, kind
  <2>3. \A k : k # Head(t) /\ (\E i \in 1 .. Len(t) : t[i] = k)
               => \E i \in 1 .. Len(Tail(t)) : Tail(t)[i] = k
    BY <2>1, TailTimer
  <2>4. \E i \in 1 .. Len(Tail(t)) : Tail(t)[i] = "load"
    BY <2>1, <2>2, <2>3
  <2> QED
    BY <2>1, <2>4 DEF Waits
<1> HIDE DEF kind
<1>6. CASE kind = "rebuild"
  BY <1>1, <1>4, <1>5, <1>6, BuildPanel, StillPanel DEF PanelKept
<1>7. CASE kind = "fill"
  <2>1. PanelKept(FillCalendarTable(rest), rest)
    BY <1>4 DEF FillCalendarTable, View, PanelKept, Waits
  <2> QED
    BY <1>1, <1>5, <1>7, <2>1, StillPanel DEF PanelKept
<1>8. CASE kind = "load"
  <2>1. view'.panel = Upcoming(due')
    BY <1>1, <1>4, <1>8, UpcomingFacts
  <2> QED
    BY <2>1, FilledPanel
<1>9. CASE kind = "dropped"
  BY <1>1, <1>5, <1>9, StillPanel
<1> QED
  BY <1>3, <1>6, <1>7, <1>8, <1>9 DEF Kinds

\* Every step keeps the invariant of the panel.
LEMMA NextPanel == HomeInv /\ PanelInv /\ [Next]_vars => PanelInv'
<1> SUFFICES ASSUME HomeInv, PanelInv, [Next]_vars PROVE PanelInv'
  OBVIOUS
<1>1. CASE \E a \in Agvs, m \in Months : AddFromMenu(a, m) \/ AddFromList(a, m)
  BY <1>1, WritePanel
<1>2. ASSUME NEW a \in Agvs, NEW m \in Months \cup {0},
             \/ DeleteOrRestore(a, m) \/ CompleteTask(a, m) \/ SaveAgv(a, m) \/ SaveTask(a, m)
             \/ BulkComplete(a, m) \/ OpcPoll(a, m) \/ WrittenByOthers(a, m)
      PROVE  PanelInv'
  BY <1>2, WritePanel
<1>3. CASE \/ \E p \in Pages : GoTo(p)
           \/ \E delta \in {-1, 1} : ChangeMonth(delta)
           \/ \E m \in Months : ChoosePeriod(m)
           \/ HighlightTimeout
  BY <1>3, LookPanel
<1>4. CASE \E found \in BOOLEAN : Search(found)
  BY <1>4, SearchPanel
<1>5. CASE Resize \/ RunTimer
  BY <1>5, ResizePanel, TimerPanel
<1>6. CASE UNCHANGED vars
  BY <1>6 DEF vars, observers, PanelInv, Upcoming
<1> QED
  BY <1>1, <1>2, <1>3, <1>4, <1>5, <1>6 DEF Next

\* The panel is right from the start.
LEMMA InitPanel == Init => PanelInv
<1> SUFFICES ASSUME Init PROVE PanelInv
  OBVIOUS
<1>1. view.panel = Upcoming(due)
  BY DEF Init
<1> QED
  BY <1>1 DEF PanelInv

-----------------------------------------------------------------------------
(* What the pages promise.                                                 *)

\* A page without a waiting timer waits for none.
LEMMA RestWaits == TypeOK /\ AtRest => \A kind : ~Waits(view, kind)
<1> SUFFICES ASSUME TypeOK, AtRest, NEW kind PROVE ~Waits(view, kind)
  OBVIOUS
<1>1. view.timers = <<>>
  BY DEF AtRest
<1> QED
  BY <1>1 DEF Waits

\* Types hold in every state.
THEOREM TypeCorrect == Spec => []TypeOK
<1>1. HomeInv => TypeOK
  BY DEF HomeInv
<1> QED
  BY <1>1, AlwaysInv, PTL

\* The calendar on the screen shows what the program has announced, in every order of
\* changes, timers, pages, months and resizing.
THEOREM CalendarShown == Spec => []CalendarInStep
<1>1. HomeInv => CalendarInStep
  <2> SUFFICES ASSUME HomeInv, view.page = "calendar", AtRest
               PROVE  view.grid.month = view.month /\ \A a \in onCalendar : Drawn(a)
    BY DEF CalendarInStep
  <2>1. ~Waits(view, "rebuild") /\ ~Waits(view, "fill")
    BY RestWaits DEF HomeInv
  <2> QED
    BY <2>1 DEF HomeInv, PagesInv, GridInv, LitInv, Drawn
<1> QED
  BY <1>1, AlwaysInv, PTL

\* The list on the screen shows every row as this program left it.
THEOREM ListShown == Spec => []ListInStep
<1>1. HomeInv => ListInStep
  BY DEF HomeInv, PagesInv, ListInv, ListInStep
<1> QED
  BY <1>1, AlwaysInv, PTL

\* No highlight outlives its timer on the screen.
THEOREM HighlightShown == Spec => []HighlightEnds
<1>1. HomeInv => HighlightEnds
  <2> SUFFICES ASSUME HomeInv, view.page = "calendar", AtRest, view.lit PROVE view.highlight
    BY DEF HighlightEnds
  <2>1. ~Waits(view, "rebuild")
    BY RestWaits DEF HomeInv
  <2> QED
    BY <2>1 DEF HomeInv, PagesInv, LitInv
<1> QED
  BY <1>1, AlwaysInv, PTL

\* The panel on the screen shows what is due, of the AGVs it was told of, also after the
\* window was resized.
THEOREM PanelShown == Spec => []PanelInStep
<1>1. HomeInv /\ PanelInv => PanelInStep
  <2> SUFFICES ASSUME HomeInv, PanelInv, view.page = "calendar", AtRest
               PROVE  \A a \in onPanel : a \in view.panel <=> a \in Upcoming(due)
    BY DEF PanelInStep
  <2>1. ~Waits(view, "load")
    BY RestWaits DEF HomeInv
  <2> QED
    BY <2>1 DEF PanelInv
<1>2. Spec => []PanelInv
  BY InitPanel, NextPanel, AlwaysInv, PTL DEF Spec
<1> QED
  BY <1>1, <1>2, AlwaysInv, PTL
=============================================================================
