------------------------ MODULE AgvMaintenance_safety ------------------------
(* The safety properties of AgvMaintenance, proved for any number of        *)
(* clients, users, AGVs and tasks.  Two lemmas say what one step does to a   *)
(* row of agv_tasks and to one client; the theorems follow by induction.     *)
EXTENDS AgvMaintenance_proofs

-----------------------------------------------------------------------------
(* What a step does to one task row.                                       *)

\* The row written by this step is in the history.
Recorded(t) == \E h \in history' : h.task = t /\ h.next = tasks'[t].next

\* A row stays, is written by hand or by a recorded completion, is inserted under
\* the next id, or is removed by the DELETE of a client.
RowStep(t) ==
    \/ tasks'[t] = tasks[t]
    \/ /\ tasks[t] # None /\ tasks'[t] # None
       /\ \/ tasks'[t].src = tasks[t].src /\ tasks'[t].next = tasks[t].next
          \/ tasks'[t].src # "completed"
          \/ Recorded(t)
    \/ t = nextId /\ nextId' = nextId + 1 /\ tasks'[t] # None /\ tasks'[t].src # "completed"
    \/ /\ tasks'[t] = None /\ UNCHANGED undo
       /\ \E c \in Clients : job[c].kind = "delete" /\ job[c].doomed = t

\* The history and the serial only grow.
Grows == history \subseteq history' /\ nextId <= nextId'

\* No row is None, so an update of a row leaves a row.
LEMMA RowIsThere ==
    ASSUME Shape, NEW t \in TaskIds
    PROVE  /\ tasks[t] # None => tasks[t] \in TaskRow
           /\ \A r \in TaskRow : r # None
           /\ history \subseteq history /\ nextId <= nextId
BY NoneIsNothing DEF Shape, TaskTable

\* An update by id, with a row that is not None.
LEMMA UpdateStep ==
    ASSUME Shape, NEW t \in TaskIds, NEW u \in TaskIds, NEW row,
           tasks[u] # None => row \in TaskRow,
           tasks' = Update(tasks, u, row),
           \/ tasks[u] # None => row.src # "completed"
           \/ \E h \in history' : h.task = u /\ h.next = row.next
    PROVE  RowStep(t)
<1>1. CASE t # u \/ tasks[u] = None
  BY <1>1 DEF Update, RowStep, Shape, TaskTable
<1>2. CASE t = u /\ tasks[u] # None
  <2>1. tasks'[t] = row /\ row # None
    BY <1>2, RowIsThere DEF Update, Shape, TaskTable
  <2> QED
    BY <1>2, <2>1 DEF RowStep, Recorded
<1> QED
  BY <1>1, <1>2

\* Table S has the same rows as T, with the same dates.
SameDates(T, S, t) ==
    /\ T[t] = None => S[t] = None
    /\ T[t] # None => S[t] # None /\ S[t].src = T[t].src /\ S[t].next = T[t].next

\* Delegating and renaming keep the date and its origin.
LEMMA AssignmentStep ==
    ASSUME NEW T \in TaskTable, NEW t \in TaskIds, NEW a, NEW new \in AgvIds,
           NEW u \in UserOrNone, NEW b \in UserOrNone
    PROVE  SameDates(T, Delegated(T, a, u, b), t) /\ SameDates(T, Refiled(T, a, new), t)
<1>1. ASSUME NEW r \in TaskRow, NEW d \in UserOrNone
      PROVE  /\ LET q == [r EXCEPT !.to = u, !.by = d] IN q \in TaskRow /\ q.src = r.src /\ q.next = r.next
             /\ LET q == [r EXCEPT !.agv = new] IN q \in TaskRow /\ q.src = r.src /\ q.next = r.next
  BY DEF TaskRow
<1>2. T[t] # None => T[t] \in TaskRow
  BY DEF TaskTable
<1>3. \A r \in TaskRow : r # None
  BY NoneIsNothing
<1>4. None \in UserOrNone
  BY Basics
<1>5. CASE T[t] = None
  BY <1>5 DEF Delegated, Refiled, SameDates
<1>6. CASE T[t] # None
  <2>1. T[t] \in TaskRow
    BY <1>2, <1>6
  <2> DEFINE d == IF u = None THEN None ELSE b
  <2>2. Delegated(T, a, u, b)[t] \in {T[t], [T[t] EXCEPT !.to = u, !.by = d]}
    BY DEF Delegated
  <2>3. Refiled(T, a, new)[t] \in {T[t], [T[t] EXCEPT !.agv = new]}
    BY DEF Refiled
  <2>4. d \in UserOrNone
    BY <1>4
  <2>5. /\ Delegated(T, a, u, b)[t] # None
        /\ Delegated(T, a, u, b)[t].src = T[t].src /\ Delegated(T, a, u, b)[t].next = T[t].next
    <3> DEFINE q == [T[t] EXCEPT !.to = u, !.by = d]
    <3> HIDE DEF d
    <3>1. q \in TaskRow /\ q.src = T[t].src /\ q.next = T[t].next
      BY <1>1, <2>1, <2>4
    <3>2. Delegated(T, a, u, b)[t] \in {T[t], q}
      BY <2>2
    <3> HIDE DEF q
    <3> QED
      BY <1>3, <2>1, <3>1, <3>2
  <2>6. /\ Refiled(T, a, new)[t] # None
        /\ Refiled(T, a, new)[t].src = T[t].src /\ Refiled(T, a, new)[t].next = T[t].next
    BY <1>1, <1>3, <2>1, <2>3, <1>4
  <2> QED
    BY <1>6, <2>5, <2>6 DEF SameDates
<1> QED
  BY <1>5, <1>6

\* The steps of the forms, the buttons of a row and the AGV form.
LEMMA ChangeRow ==
    ASSUME Shape, Bound, NEW c \in Clients, Change(c), NEW t \in TaskIds
    PROVE  RowStep(t) /\ Grows
<1> DEFINE p == page[c]
<1>0. nextId \in Int
  BY DEF Shape
<1>1. ASSUME NEW i \in Intervals, NEW who \in UserOrNone, AddTask(c, i, today, who)
      PROVE  RowStep(t) /\ Grows
  <2> DEFINE to == IF who # None THEN who ELSE p.user
             by == IF who # None THEN Me(c) ELSE IF p.user # None THEN p.by ELSE None
             row == [agv |-> p.agv, interval |-> i, next |-> ComputeNextDate(today, i),
                     to |-> to, by |-> by, src |-> "form"]
  <2>1. row \in TaskRow /\ row.src = "form"
    <3>1. p.agv \in AgvIds
      BY <1>1, Mine DEF AddTask, OnCard
    <3>2. to \in UserOrNone /\ by \in UserOrNone
      BY Mine, Basics
    <3>3. ComputeNextDate(today, i) \in Int
      BY Mine, Basics
    <3> QED
      BY <3>1, <3>2, <3>3 DEF TaskRow
  <2>2. \/ UNCHANGED <<tasks, nextId>>
        \/ tasks' = [tasks EXCEPT ![nextId] = row] /\ nextId' = nextId + 1
    BY <1>1 DEF AddTask
  <2>3. UNCHANGED history
    BY <1>1 DEF AddTask
  <2> HIDE DEF row
  <2> QED
    BY <1>0, <2>1, <2>2, <2>3, RowIsThere DEF RowStep, Grows, Shape, TaskTable
<1>2. ASSUME NEW i \in Intervals, NEW keep \in BOOLEAN, NEW who \in UserOrNone, SaveEdit(c, i, keep, who)
      PROVE  RowStep(t) /\ Grows
  <2>1. Grows
    BY <1>0, <1>2 DEF SaveEdit, Grows
  <2> DEFINE old == p.editRow
             last == IF keep /\ old.interval > 0 THEN old.next - old.interval ELSE today
             by == IF who = None THEN None ELSE IF who # old.to THEN Me(c) ELSE old.by
             row == [tasks[p.editId] EXCEPT !.interval = i, !.to = who, !.by = by,
                              !.next = ComputeNextDate(last, i), !.src = "form"]
  <2>2. tasks' = Update(tasks, p.editId, row) \/ UNCHANGED tasks
    BY <1>2 DEF SaveEdit
  <2>3. p.editId \in TaskIds
    BY <1>2, Mine DEF SaveEdit, Bound, Page
  <2>4. ASSUME tasks[p.editId] # None PROVE row \in TaskRow /\ row.src # "completed"
    <3>1. old \in TaskRow
      BY <1>2, Mine DEF SaveEdit, Bound, Page
    <3>2. by \in UserOrNone
      BY <3>1, Mine, Basics DEF TaskRow
    <3>3. ComputeNextDate(last, i) \in Int
      <4>1. old.next \in Int /\ (\A x \in Intervals : x \in Int) /\ old.interval \in Intervals
        BY <3>1, IntervalsAreDays DEF TaskRow
      <4>2. last \in Int
        <5> HIDE DEF old
        <5> QED
          BY <4>1, Mine
      <4> QED
        BY <4>2, Basics
    <3>4. tasks[p.editId] \in TaskRow
      BY <2>3, <2>4, RowIsThere
    <3> HIDE DEF by, last, p
    <3> QED
      BY <3>2, <3>3, <3>4 DEF TaskRow
  <2> HIDE DEF row, p
  <2> QED
    BY <2>1, <2>2, <2>3, <2>4, UpdateStep DEF RowStep
<1>3. ASSUME NEW u \in TaskIds, CompleteTask(c, u) \/ CompleteWithoutHistory(c, u)
      PROVE  RowStep(t) /\ Grows
  <2> DEFINE next == ComputeNextDate(today, p.rows[u].interval)
             done(how) == Completed(tasks[u], next, Me(c), p.user, p.by, how)
             note == [agv |-> p.agv, task |-> u, next |-> next, by |-> Me(c)]
  <2>1. Grows
    BY <1>0, <1>3 DEF CompleteTask, CompleteWithoutHistory, Grows
  <2>2. next \in Int
    <3>1. p.rows[u] \in TaskRow
      BY <1>3, Mine DEF CompleteTask, CompleteWithoutHistory, MayComplete, Shown, TaskTable
    <3> QED
      BY <3>1, Mine, CompletionTable, Basics DEF TaskRow
  <2>3. ASSUME NEW how \in {"completed", "fallback"}, tasks[u] # None
        PROVE  done(how) \in TaskRow /\ done(how).next = next /\ done(how).src = how
    <3>1. tasks[u] \in TaskRow
      BY <2>3, RowIsThere
    <3> HIDE DEF next
    <3> QED
      BY <2>2, <3>1, Mine DEF Completed, TaskRow
  <2>4. CASE CompleteTask(c, u)
    <3>1. tasks' = Update(tasks, u, done("completed")) /\ note \in history'
      BY <2>4 DEF CompleteTask
    <3>2. note.task = u /\ note.next = next
      OBVIOUS
    <3> HIDE DEF next, done, note
    <3>3. tasks[u] # None => \E h \in history' : h.task = u /\ h.next = done("completed").next
      BY <2>3, <3>1, <3>2
    <3>4. tasks[u] # None => done("completed") \in TaskRow
      BY <2>3
    <3>5. CASE tasks[u] = None
      BY <2>1, <3>1, <3>5 DEF Update, RowStep
    <3>6. CASE tasks[u] # None
      BY <2>1, <3>1, <3>3, <3>4, <3>6, UpdateStep
    <3> QED
      BY <2>1, <3>5, <3>6
  <2>5. CASE CompleteWithoutHistory(c, u)
    <3>1. tasks' = Update(tasks, u, done("fallback"))
      BY <2>5 DEF CompleteWithoutHistory
    <3>2. tasks[u] # None => done("fallback") \in TaskRow /\ done("fallback").src # "completed"
      BY <2>3
    <3> HIDE DEF done
    <3> QED
      BY <2>1, <3>1, <3>2, UpdateStep
  <2> QED
    BY <1>3, <2>4, <2>5
<1>4. ASSUME NEW a \in AgvIds, NEW off \in BOOLEAN, NEW u \in UserOrNone, SaveAgv(c, a, off, u)
      PROVE  RowStep(t) /\ Grows
  <2> DEFINE moved == IF a = p.origId THEN tasks ELSE Refiled(tasks, p.origId, a)
  <2>1. Grows /\ tasks' \in {moved, Delegated(moved, a, u, Me(c))}
    BY <1>0, <1>4 DEF SaveAgv, Grows
  <2>2. moved \in TaskTable
    BY TableTypes DEF Shape
  <2>3. SameDates(tasks, moved, t)
    <3>1. SameDates(tasks, tasks, t)
      BY DEF SameDates
    <3>2. SameDates(tasks, Refiled(tasks, p.origId, a), t)
      BY AssignmentStep, Basics DEF Shape
    <3> QED
      BY <3>1, <3>2
  <2>4. Me(c) \in UserOrNone
    BY Basics
  <2> HIDE DEF moved
  <2>5. SameDates(moved, Delegated(moved, a, u, Me(c)), t)
    BY <2>2, <2>4, AssignmentStep
  <2> QED
    BY <2>1, <2>3, <2>5 DEF RowStep, SameDates
<1>5. ASSUME NEW u, PinAgv(c, u) PROVE RowStep(t) /\ Grows
  BY <1>0, <1>5 DEF PinAgv, RowStep, Grows
<1>6. ASSUME NEW S, StartDelete(c, S) PROVE RowStep(t) /\ Grows
  BY <1>0, <1>6 DEF StartDelete, RowStep, Grows, db
<1>7. ASSUME NEW a, StartRestore(c) \/ StartBulk(c, a) PROVE RowStep(t) /\ Grows
  BY <1>0, <1>7 DEF StartRestore, StartBulk, RowStep, Grows, db
<1> QED
  BY <1>1, <1>2, <1>3, <1>4, <1>5, <1>6, <1>7 DEF Change

\* The statements of the longer handlers.
LEMMA ContinueRow ==
    ASSUME Shape, Bound, NEW c \in Clients, Continue(c), NEW t \in TaskIds
    PROVE  RowStep(t) /\ Grows
<1>0. nextId \in Int
  BY DEF Shape
<1>1. CASE LoadRows(c) \/ FinishDelete(c) \/ FinishRestore(c) \/ FinishBulk(c)
  BY <1>0, <1>1 DEF LoadRows, FinishDelete, FinishRestore, FinishBulk, RowStep, Grows, db
<1>2. CASE PinTasks(c)
  <2> DEFINE S == Delegated(tasks, job[c].agv, job[c].user, Me(c))
  <2>1. tasks' = S \/ UNCHANGED tasks
    BY <1>2 DEF PinTasks
  <2>2. Grows
    BY <1>0, <1>2 DEF PinTasks, Grows
  <2>3. job[c].user \in UserOrNone /\ Me(c) \in UserOrNone
    BY Mine, Basics
  <2>4. tasks \in TaskTable /\ FirstAgv \in AgvIds
    BY FleetConstants DEF Shape
  <2>5. SameDates(tasks, S, t)
    BY <2>3, <2>4, AssignmentStep
  <2> HIDE DEF S
  <2> QED
    BY <2>1, <2>2, <2>5 DEF RowStep, SameDates
<1>3. ASSUME NEW u \in TaskIds, ReadDoomed(c, u) PROVE RowStep(t) /\ Grows
  BY <1>0, <1>3 DEF ReadDoomed, RowStep, Grows, db
<1>4. CASE DeleteDoomed(c)
  BY <1>0, <1>4 DEF DeleteDoomed, RowStep, Grows, Shape, TaskTable
<1>5. ASSUME NEW u \in TaskIds, RestoreOne(c, u) PROVE RowStep(t) /\ Grows
  <2> DEFINE row == [job[c].todo[u] EXCEPT !.to = None, !.by = None, !.src = "restored"]
  <2>1. row \in TaskRow /\ row.src = "restored"
    <3>1. job[c].todo[u] \in TaskRow
      BY <1>5, Mine DEF RestoreOne, IsFirst, TaskTable
    <3> QED
      BY <3>1, Basics DEF TaskRow
  <2>2. \/ UNCHANGED <<tasks, nextId>>
        \/ tasks' = [tasks EXCEPT ![nextId] = row] /\ nextId' = nextId + 1
    BY <1>5 DEF RestoreOne
  <2>3. UNCHANGED history
    BY <1>5 DEF RestoreOne
  <2> HIDE DEF row
  <2> QED
    BY <1>0, <2>1, <2>2, <2>3, RowIsThere DEF RowStep, Grows, Shape, TaskTable
<1>6. ASSUME NEW u \in TaskIds, BulkOne(c, u) PROVE RowStep(t) /\ Grows
  <2> DEFINE j == job[c]
             next == ComputeNextDate(j.day, j.todo[u].interval)
             done == Completed(tasks[u], next, Me(c), j.user, j.by, "completed")
             note == [agv |-> j.agv, task |-> u, next |-> next, by |-> Me(c)]
  <2>1. \/ UNCHANGED <<tasks, history>>
        \/ tasks' = Update(tasks, u, done) /\ history' = history \cup {note}
    BY <1>6 DEF BulkOne
  <2>2. UNCHANGED nextId
    BY <1>6 DEF BulkOne
  <2>3. next \in Int
    <3>1. j.todo[u] \in TaskRow /\ j.day \in Int
      BY <1>6, Mine DEF BulkOne, IsFirst, TaskTable, Job
    <3> QED
      BY <3>1, CompletionTable, Basics DEF TaskRow
  <2>4. note.task = u /\ note.next = next
    OBVIOUS
  <2>5. tasks[u] # None => done \in TaskRow /\ done.next = next
    <3>1. tasks[u] # None => tasks[u] \in TaskRow
      BY RowIsThere
    <3>2. j.user \in UserOrNone /\ j.by \in UserOrNone
      BY Mine
    <3> HIDE DEF next, j
    <3> QED
      BY <2>3, <3>1, <3>2 DEF Completed, TaskRow
  <2> HIDE DEF next, done, note, j
  <2>6. Grows
    BY <1>0, <2>1, <2>2 DEF Grows
  <2>7. CASE UNCHANGED tasks
    BY <2>6, <2>7 DEF RowStep
  <2>8. CASE tasks' = Update(tasks, u, done) /\ history' = history \cup {note}
    <3>1. CASE tasks[u] = None
      BY <2>6, <2>8, <3>1 DEF Update, RowStep
    <3>2. CASE tasks[u] # None
      <4>1. done \in TaskRow /\ \E h \in history' : h.task = u /\ h.next = done.next
        BY <2>4, <2>5, <2>8, <3>2
      <4> QED
        BY <2>6, <2>8, <4>1, UpdateStep
    <3> QED
      BY <3>1, <3>2
  <2> QED
    BY <2>1, <2>7, <2>8
<1> QED
  BY <1>1, <1>2, <1>3, <1>4, <1>5, <1>6 DEF Continue

\* What one step does to a row, whoever takes it.
LEMMA RowSteps ==
    ASSUME Shape, Bound, [Next]_vars, NEW t \in TaskIds
    PROVE  RowStep(t) /\ Grows
<1>0. nextId \in Int
  BY DEF Shape
<1>1. CASE NextDay \/ UNCHANGED vars
  BY <1>0, <1>1 DEF NextDay, vars, db, RowStep, Grows
<1>2. ASSUME NEW c \in Clients, Navigate(c) \/ UndoTimeout(c) PROVE RowStep(t) /\ Grows
  <2>1. UNCHANGED <<tasks, nextId, history>>
    BY <1>2 DEF Navigate, OpenCard, ToggleEditMode, OpenAddTaskForm, CancelForm, OpenEditTaskForm,
                UndoTimeout, db
  <2> QED
    BY <1>0, <2>1 DEF RowStep, Grows
<1> QED
  BY <1>1, <1>2, ChangeRow, ContinueRow DEF Next

-----------------------------------------------------------------------------
(* A completion is recorded.                                               *)

\* Every recorded completion stays recorded: the history only grows, and a row
\* gets a completion's date together with its history row or not at all.
THEOREM CompletionsAreRecorded == Spec => []OnlyFallbackSkipsHistory
<1>1. Init => OnlyFallbackSkipsHistory
  <2>1. ASSUME Init PROVE \A t \in TaskIds : tasks[t] # None => tasks[t].src = "form"
    BY <2>1 DEF Init, NoRows
  <2> QED
    BY <2>1 DEF OnlyFallbackSkipsHistory
<1>2. Inv /\ OnlyFallbackSkipsHistory /\ [Next]_vars => OnlyFallbackSkipsHistory'
  <2> SUFFICES ASSUME Shape, Bound, OnlyFallbackSkipsHistory, [Next]_vars, NEW t \in TaskIds,
                      tasks'[t] # None, tasks'[t].src = "completed"
               PROVE  Recorded(t)
    BY DEF Inv, OnlyFallbackSkipsHistory, Recorded
  <2>1. RowStep(t) /\ history \subseteq history'
    BY RowSteps DEF Grows
  <2> QED
    BY <2>1 DEF RowStep, OnlyFallbackSkipsHistory, Recorded
<1> QED
  BY <1>1, <1>2, Invariance, PTL DEF Spec

-----------------------------------------------------------------------------
(* What a step does to one client.                                         *)

\* The rows on the card are those of before, none, or those of its AGV.
RowsStep(d) == page'[d].rows \in {page[d].rows, NoRows, RowsOf(page[d].agv, tasks)}

\* A client that is deleting has just started, has read the row it deletes next,
\* has executed its DELETE, or has not moved.
DeleteStep(d) ==
    job'[d].kind = "delete" =>
        \/ job'[d] = job[d] /\ undo'[d] = undo[d]
        \/ job'[d].doomed = 0 /\ \A t \in TaskIds : job'[d].todo[t] \in {None, page[d].rows[t]}
        \/ /\ job[d].kind = "delete"
           /\ \E t \in TaskIds :
                 /\ job[d].todo[t] # None
                 /\ undo'[d] = [undo[d] EXCEPT ![t] = tasks[t]]
                 /\ job'[d] = [job[d] EXCEPT !.doomed = t, !.todo[t] = None]
                 /\ UNCHANGED tasks
        \/ job[d].kind = "delete" /\ job'[d].doomed = 0 /\ job'[d].todo = job[d].todo

\* The undo list is emptied, its timer runs, or neither has changed.
UndoStep(d) ==
    job'[d].kind # "delete" =>
        \/ undo'[d] = NoRows
        \/ undoTimer'[d]
        \/ job[d].kind # "delete" /\ undo'[d] = undo[d] /\ undoTimer'[d] = undoTimer[d]

ClientStep(d) == RowsStep(d) /\ DeleteStep(d) /\ UndoStep(d)

\* Nothing that belongs to d changes.
Aside(d) ==
    /\ page'[d] = page[d] /\ job'[d] = job[d]
    /\ undo'[d] = undo[d] /\ undoTimer'[d] = undoTimer[d]

\* A client that takes no part in a step is left in order by it.
LEMMA AsideStep ==
    ASSUME NEW d, Aside(d)
    PROVE  ClientStep(d)
BY DEF Aside, ClientStep, RowsStep, DeleteStep, UndoStep

\* A reload of the card, outside a deletion or at its end.
LEMMA ReloadStep ==
    ASSUME Shape, NEW c \in Clients, NEW p \in Page, p.rows = page[c].rows, NEW a, NEW G,
           page' = [page EXCEPT ![c] = LoadCard(c, p, a, G)],
           job' = [job EXCEPT ![c] = Loading(a, G)],
           \/ undo'[c] = NoRows
           \/ undoTimer'[c]
           \/ job[c].kind # "delete" /\ undo'[c] = undo[c] /\ undoTimer'[c] = undoTimer[c]
    PROVE  ClientStep(c)
<1>1. page'[c] = LoadCard(c, p, a, G) /\ job'[c] = Loading(a, G)
  BY DEF Shape
<1>2. page'[c].rows \in {page[c].rows, NoRows} /\ job'[c].kind \in {"idle", "load"}
  BY <1>1, LoadCardShows
<1> QED
  BY <1>2 DEF ClientStep, RowsStep, DeleteStep, UndoStep

\* Navigation and the day leave the undo list and every deletion alone.
LEMMA NavigateClient ==
    ASSUME Shape, NEW c \in Clients, Navigate(c) \/ UndoTimeout(c)
    PROVE  ClientStep(c)
<1>1. page[c] \in Page
  BY Mine
<1>2. ASSUME NEW a \in AgvIds, OpenCard(c, a) PROVE ClientStep(c)
  BY <1>1, <1>2, ReloadStep DEF OpenCard, IsIdle
<1>3. CASE ToggleEditMode(c) \/ OpenAddTaskForm(c) \/ \E t \in TaskIds : OpenEditTaskForm(c, t)
  <2>1. page'[c].rows = page[c].rows
    <3>1. CASE ToggleEditMode(c)
      BY <1>1, <3>1 DEF ToggleEditMode, Shape, Page
    <3>2. CASE OpenAddTaskForm(c)
      BY <1>1, <3>2 DEF OpenAddTaskForm, Shape, Page
    <3>3. ASSUME NEW t \in TaskIds, OpenEditTaskForm(c, t) PROVE page'[c].rows = page[c].rows
      BY <1>1, <3>3 DEF OpenEditTaskForm, Shape, Page
    <3> QED
      BY <1>3, <3>1, <3>2, <3>3
  <2>2. UNCHANGED <<job, undo, undoTimer>>
    BY <1>3 DEF ToggleEditMode, OpenAddTaskForm, OpenEditTaskForm
  <2> QED
    BY <2>1, <2>2 DEF ClientStep, RowsStep, DeleteStep, UndoStep
<1>4. CASE CancelForm(c)
  <2>1. CASE page[c].form = "edit"
    BY <1>1, <1>4, <2>1, ReloadStep DEF CancelForm, OnCard, IsIdle
  <2>2. CASE page[c].form = "add"
    <3>1. page'[c].rows = page[c].rows
      <4>1. CloseForm(c, page[c]).rows = page[c].rows
        BY <1>1 DEF CloseForm, Page
      <4> QED
        BY <1>4, <2>2, <4>1 DEF CancelForm, Shape
    <3>2. UNCHANGED <<job, undo, undoTimer>>
      BY <1>4, <2>2 DEF CancelForm
    <3> QED
      BY <3>1, <3>2 DEF ClientStep, RowsStep, DeleteStep, UndoStep
  <2> QED
    BY <1>4, <2>1, <2>2 DEF CancelForm
<1>5. CASE UndoTimeout(c)
  BY <1>5 DEF UndoTimeout, IsIdle, ClientStep, RowsStep, DeleteStep, UndoStep, Shape
<1> QED
  BY <1>2, <1>3, <1>4, <1>5 DEF Navigate

\* The handlers that write keep the undo list and the jobs of their own client.
LEMMA ChangeClient ==
    ASSUME Shape, NEW c \in Clients, Change(c)
    PROVE  ClientStep(c)
<1>0. page[c] \in Page
  BY Mine
<1>1. ASSUME NEW i \in Intervals, NEW who \in UserOrNone, AddTask(c, i, today, who) PROVE ClientStep(c)
  BY <1>0, <1>1, ReloadStep DEF AddTask, OnCard, IsIdle
<1>2. ASSUME NEW i, NEW keep, NEW who, SaveEdit(c, i, keep, who) PROVE ClientStep(c)
  BY <1>0, <1>2, ReloadStep DEF SaveEdit, OnCard, IsIdle
<1>3. ASSUME NEW t \in TaskIds, CompleteTask(c, t) PROVE ClientStep(c)
  BY <1>0, <1>3, ReloadStep DEF CompleteTask, MayComplete, OnCard, IsIdle
<1>4. ASSUME NEW t \in TaskIds, CompleteWithoutHistory(c, t) PROVE ClientStep(c)
  BY <1>4, AsideStep DEF CompleteWithoutHistory, Aside
<1>5. ASSUME NEW a \in AgvIds, NEW off \in BOOLEAN, NEW u \in UserOrNone, SaveAgv(c, a, off, u)
      PROVE  ClientStep(c)
  <2> DEFINE saved == [page[c] EXCEPT !.origId = a, !.user = u,
                                      !.by = IF u = None THEN None ELSE Me(c)]
  <2>1. saved \in Page /\ saved.rows = page[c].rows
    BY Mine, Basics DEF Page
  <2>2. \E G : /\ page' = [page EXCEPT ![c] = LoadCard(c, saved, a, G)]
               /\ job' = [job EXCEPT ![c] = Loading(a, G)]
    BY <1>5 DEF SaveAgv
  <2>3. job[c].kind # "delete" /\ UNCHANGED <<undo, undoTimer>>
    BY <1>5 DEF SaveAgv, OnCard, IsIdle
  <2> HIDE DEF saved
  <2> QED
    BY <2>1, <2>2, <2>3, ReloadStep
<1>6. ASSUME NEW u, PinAgv(c, u) PROVE ClientStep(c)
  BY <1>6 DEF PinAgv, OnCard, IsIdle, Idle, Shape, ClientStep, RowsStep, DeleteStep, UndoStep
<1>7. ASSUME NEW S, StartDelete(c, S) PROVE ClientStep(c)
  <2>1. undo'[c] = NoRows /\ UNCHANGED page
    BY <1>7 DEF StartDelete, Shape
  <2>2. job'[c].doomed = 0 /\ \A t \in TaskIds : job'[c].todo[t] \in {None, page[c].rows[t]}
    BY <1>7 DEF StartDelete, Shape, Idle
  <2> QED
    BY <2>1, <2>2 DEF ClientStep, RowsStep, DeleteStep, UndoStep
<1>8. ASSUME NEW a, StartRestore(c) \/ StartBulk(c, a) PROVE ClientStep(c)
  BY <1>8 DEF StartRestore, StartBulk, OnCard, IsIdle, Idle, Shape, ClientStep, RowsStep, DeleteStep, UndoStep
<1> QED
  BY <1>1, <1>2, <1>3, <1>4, <1>5, <1>6, <1>7, <1>8 DEF Change

\* The statements of the longer handlers keep them too.
LEMMA ContinueClient ==
    ASSUME Shape, NEW c \in Clients, Continue(c)
    PROVE  ClientStep(c)
<1>0. page[c] \in Page
  BY Mine
<1>1. CASE LoadRows(c)
  <2>1. page'[c].rows = RowsOf(page[c].agv, tasks)
    BY <1>0, <1>1 DEF LoadRows, Shape, Page
  <2>2. job[c].kind = "load" /\ job'[c].kind = "idle" /\ UNCHANGED <<undo, undoTimer>>
    BY <1>1 DEF LoadRows, Shape, Idle
  <2> QED
    BY <2>1, <2>2 DEF ClientStep, RowsStep, DeleteStep, UndoStep
<1>2. CASE PinTasks(c)
  <2>1. page'[c].rows = page[c].rows
    BY <1>0, <1>2 DEF PinTasks, Shape, Page
  <2>2. job[c].kind = "pin" /\ job'[c].kind = "idle" /\ UNCHANGED <<undo, undoTimer>>
    BY <1>2 DEF PinTasks, Shape, Idle
  <2> QED
    BY <2>1, <2>2 DEF ClientStep, RowsStep, DeleteStep, UndoStep
<1>3. ASSUME NEW t \in TaskIds, ReadDoomed(c, t) PROVE ClientStep(c)
  <2>1. /\ job[c].kind = "delete" /\ job[c].todo[t] # None
        /\ undo'[c] = [undo[c] EXCEPT ![t] = tasks[t]]
        /\ job'[c] = [job[c] EXCEPT !.doomed = t, !.todo[t] = None]
        /\ job'[c].kind = "delete"
        /\ UNCHANGED <<tasks, page>>
    BY <1>3, Mine DEF ReadDoomed, IsFirst, Shape, Job, db
  <2> QED
    BY <2>1 DEF ClientStep, RowsStep, DeleteStep, UndoStep
<1>4. CASE DeleteDoomed(c)
  <2>1. /\ job[c].kind = "delete" /\ job'[c].doomed = 0 /\ job'[c].todo = job[c].todo
        /\ job'[c].kind = "delete" /\ UNCHANGED page
    BY <1>4, Mine DEF DeleteDoomed, Shape, Job
  <2> QED
    BY <2>1 DEF ClientStep, RowsStep, DeleteStep, UndoStep
<1>5. CASE FinishDelete(c)
  <2>1. undo'[c] = NoRows \/ undoTimer'[c]
    BY <1>5 DEF FinishDelete, Shape
  <2> QED
    BY <1>0, <1>5, <2>1, ReloadStep DEF FinishDelete
<1>6. CASE FinishRestore(c)
  <2>1. undo'[c] = NoRows
    BY <1>6 DEF FinishRestore, Shape
  <2> QED
    BY <1>0, <1>6, <2>1, ReloadStep DEF FinishRestore
<1>7. ASSUME NEW t \in TaskIds, RestoreOne(c, t) \/ BulkOne(c, t) PROVE ClientStep(c)
  <2>1. job[c].kind # "delete" /\ job'[c].kind # "delete" /\ UNCHANGED <<page, undo, undoTimer>>
    BY <1>7, Mine DEF RestoreOne, BulkOne, Shape, Job
  <2> QED
    BY <2>1 DEF ClientStep, RowsStep, DeleteStep, UndoStep
<1>8. CASE FinishBulk(c)
  BY <1>8 DEF FinishBulk, Idle, Shape, ClientStep, RowsStep, DeleteStep, UndoStep
<1> QED
  BY <1>1, <1>2, <1>3, <1>4, <1>5, <1>6, <1>7, <1>8 DEF Continue

\* The handlers of one client touch no variable of another.
LEMMA OthersAside ==
    ASSUME Shape, NEW c \in Clients, NEW d \in Clients, c # d,
           Navigate(c) \/ Change(c) \/ Continue(c) \/ UndoTimeout(c)
    PROVE  Aside(d)
<1>1. CASE Navigate(c)
  BY <1>1 DEF Navigate, OpenCard, ToggleEditMode, OpenAddTaskForm, CancelForm, OpenEditTaskForm, Shape, Aside
<1>2. CASE Change(c)
  <2>1. ASSUME NEW i, NEW keep, NEW who, AddTask(c, i, today, who) \/ SaveEdit(c, i, keep, who)
        PROVE  Aside(d)
    BY <2>1 DEF AddTask, SaveEdit, Shape, Aside
  <2>2. ASSUME NEW t, CompleteTask(c, t) \/ CompleteWithoutHistory(c, t) PROVE Aside(d)
    BY <2>2 DEF CompleteTask, CompleteWithoutHistory, Shape, Aside
  <2>3. ASSUME NEW a, NEW off, NEW u, SaveAgv(c, a, off, u) \/ PinAgv(c, u) PROVE Aside(d)
    BY <2>3 DEF SaveAgv, PinAgv, Shape, Aside
  <2>4. ASSUME NEW S, NEW a, StartDelete(c, S) \/ StartRestore(c) \/ StartBulk(c, a) PROVE Aside(d)
    BY <2>4 DEF StartDelete, StartRestore, StartBulk, Shape, Aside
  <2> QED
    BY <1>2, <2>1, <2>2, <2>3, <2>4 DEF Change
<1>3. CASE Continue(c)
  <2>1. CASE LoadRows(c) \/ PinTasks(c)
    BY <2>1 DEF LoadRows, PinTasks, Shape, Aside
  <2>2. ASSUME NEW t, ReadDoomed(c, t) \/ RestoreOne(c, t) \/ BulkOne(c, t) PROVE Aside(d)
    BY <2>2 DEF ReadDoomed, RestoreOne, BulkOne, Shape, Aside
  <2>3. CASE DeleteDoomed(c) \/ FinishDelete(c) \/ FinishRestore(c) \/ FinishBulk(c)
    BY <2>3 DEF DeleteDoomed, FinishDelete, FinishRestore, FinishBulk, Shape, Aside
  <2> QED
    BY <1>3, <2>1, <2>2, <2>3 DEF Continue
<1>4. CASE UndoTimeout(c)
  BY <1>4 DEF UndoTimeout, Shape, Aside
<1> QED
  BY <1>1, <1>2, <1>3, <1>4

\* What one step does to a client, whoever takes it.
LEMMA ClientSteps ==
    ASSUME Shape, [Next]_vars, NEW d \in Clients
    PROVE  ClientStep(d)
<1>1. CASE NextDay \/ UNCHANGED vars
  BY <1>1, AsideStep DEF NextDay, vars, Aside
<1>2. ASSUME NEW c \in Clients, Navigate(c) \/ Change(c) \/ Continue(c) \/ UndoTimeout(c)
      PROVE  ClientStep(d)
  <2>1. CASE c = d
    BY <1>2, <2>1, NavigateClient, ChangeClient, ContinueClient
  <2>2. CASE c # d
    BY <1>2, <2>2, OthersAside, AsideStep
  <2> QED
    BY <2>1, <2>2
<1> QED
  BY <1>1, <1>2 DEF Next

-----------------------------------------------------------------------------
(* Deletion can be undone, and the undo button has its timer.              *)

\* The undo list outlives a deletion only with its timer running, whichever of
\* deletion, timeout, restore and reload comes next.
THEOREM UndoButtonIsTimed == Spec => []UndoArmed
<1>1. Init => UndoArmed
  BY DEF Init, UndoArmed
<1>2. Inv /\ UndoArmed /\ [Next]_vars => UndoArmed'
  BY ClientSteps DEF Inv, UndoArmed, ClientStep, UndoStep
<1> QED
  BY <1>1, <1>2, Invariance, PTL DEF Spec

\* No row, on screen, in the database or on its way to deletion, has an id that
\* the serial has not handed out.
Issued ==
    \A t \in TaskIds : t >= nextId =>
        /\ tasks[t] = None
        /\ \A c \in Clients :
              /\ page[c].rows[t] = None
              /\ job[c].kind = "delete" => job[c].todo[t] = None /\ job[c].doomed # t

\* A row that is about to be deleted has been read.
Retained ==
    \A c \in Clients : \A t \in TaskIds :
        job[c].kind = "delete" /\ job[c].doomed = t /\ tasks[t] # None => undo[c][t] # None

\* No row, snapshot or undo list ever has an id the serial has not handed out.
LEMMA IssuedStep ==
    ASSUME Shape, Bound, Issued, [Next]_vars
    PROVE  Issued'
<1> SUFFICES ASSUME NEW t \in TaskIds, t >= nextId'
             PROVE  /\ tasks'[t] = None
                    /\ \A c \in Clients :
                          /\ page'[c].rows[t] = None
                          /\ job'[c].kind = "delete" => job'[c].todo[t] = None /\ job'[c].doomed # t
  BY DEF Issued
<1>0. nextId \in Int /\ t \in Int /\ t # 0
  BY DEF Shape, TaskIds
<1>1. RowStep(t) /\ nextId <= nextId'
  BY RowSteps DEF Grows
<1>2. t >= nextId /\ nextId' \in Int
  <2>1. Shape'
    BY NextShape
  <2> QED
    BY <1>0, <1>1, <2>1 DEF Shape
<1>3. tasks[t] = None
  BY <1>2 DEF Issued
<1>4. tasks'[t] = None
  BY <1>0, <1>1, <1>2, <1>3 DEF RowStep
<1>5. ASSUME NEW c \in Clients
      PROVE  /\ page'[c].rows[t] = None
             /\ job'[c].kind = "delete" => job'[c].todo[t] = None /\ job'[c].doomed # t
  <2>1. ClientStep(c)
    BY ClientSteps
  <2>2. page[c].rows[t] = None /\ (job[c].kind = "delete" => job[c].todo[t] = None /\ job[c].doomed # t)
    BY <1>2 DEF Issued
  <2>3. page'[c].rows[t] = None
    BY <1>3, <2>1, <2>2 DEF ClientStep, RowsStep, RowsOf, NoRows
  <2>4. ASSUME job'[c].kind = "delete" PROVE job'[c].todo[t] = None /\ job'[c].doomed # t
    <3>1. ASSUME NEW u \in TaskIds, job[c].kind = "delete", job[c].todo[u] # None,
                 job'[c] = [job[c] EXCEPT !.doomed = u, !.todo[u] = None]
          PROVE  job'[c].todo[t] = None /\ job'[c].doomed # t
      <4>1. job[c] \in Job
        BY Mine
      <4>2. job'[c].doomed = u /\ job'[c].todo = [job[c].todo EXCEPT ![u] = None]
        BY <3>1, <4>1 DEF Job
      <4>3. t # u /\ job[c].todo \in TaskTable
        BY <2>2, <3>1, Mine
      <4> QED
        BY <2>2, <3>1, <4>2, <4>3 DEF TaskTable
    <3> QED
      BY <1>0, <2>1, <2>2, <2>4, <3>1 DEF ClientStep, DeleteStep
  <2> QED
    BY <2>3, <2>4
<1> QED
  BY <1>4, <1>5

\* Until its DELETE is executed, the row a deletion has read stays in its undo list.
LEMMA RetainedStep ==
    ASSUME Shape, Bound, Issued, Retained, [Next]_vars
    PROVE  Retained'
<1> SUFFICES ASSUME NEW c \in Clients, NEW t \in TaskIds,
                    job'[c].kind = "delete", job'[c].doomed = t, tasks'[t] # None
             PROVE  undo'[c][t] # None
  BY DEF Retained
<1>0. t # 0 /\ nextId \in Int /\ t \in Int
  BY DEF Shape, TaskIds
<1>1. RowStep(t) /\ DeleteStep(c)
  BY RowSteps, ClientSteps DEF ClientStep
<1>2. CASE job'[c] = job[c] /\ undo'[c] = undo[c]
  <2>1. t < nextId
    BY <1>0, <1>2 DEF Issued
  <2>2. tasks[t] # None
    BY <1>0, <1>1, <2>1 DEF RowStep
  <2> QED
    BY <1>2, <2>2 DEF Retained
<1>3. ASSUME NEW u \in TaskIds, undo'[c] = [undo[c] EXCEPT ![u] = tasks[u]],
             job'[c] = [job[c] EXCEPT !.doomed = u, !.todo[u] = None], UNCHANGED tasks
      PROVE  undo'[c][t] # None
  <2>1. u = t
    BY <1>3, Mine DEF Job
  <2> QED
    BY <1>3, <2>1, Mine DEF TaskTable
<1> QED
  BY <1>0, <1>1, <1>2, <1>3 DEF DeleteStep

\* Whoever edits, moves or deletes the row between the two statements of a
\* deletion, the row that disappears is in the undo list of a client.
THEOREM DeletedRowsAreHeld == Spec => DeletionIsUndoable
<1>1. Init => Issued /\ Retained
  BY FleetConstants DEF Init, Issued, Retained, EmptyPage, Idle, NoRows, TaskIds
<1>2. Inv /\ Issued /\ Retained /\ [Next]_vars => Issued' /\ Retained'
  BY IssuedStep, RetainedStep DEF Inv
<1>3. Inv /\ Issued /\ Retained /\ [Next]_vars =>
        [\A t \in TaskIds : tasks[t] # None /\ tasks'[t] = None
            => \E c \in Clients : undo'[c][t] # None]_vars
  <2> SUFFICES ASSUME Shape, Bound, Retained, [Next]_vars, NEW t \in TaskIds,
                      tasks[t] # None, tasks'[t] = None
               PROVE  \E c \in Clients : undo'[c][t] # None
    BY DEF Inv
  <2>1. RowStep(t)
    BY RowSteps
  <2>2. nextId \in Int /\ UNCHANGED undo /\ \E c \in Clients : job[c].kind = "delete" /\ job[c].doomed = t
    BY <2>1 DEF RowStep, Shape
  <2> QED
    BY <2>2 DEF Retained
<1> QED
  BY <1>1, <1>2, <1>3, Invariance, PTL DEF Spec, DeletionIsUndoable
=============================================================================
