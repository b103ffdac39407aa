------------------------ MODULE AgvMaintenance_proofs ------------------------
(* Proofs about AgvMaintenance for any number of clients, users, AGVs and   *)
(* tasks.                                                                    *)
EXTENDS AgvMaintenance, TLAPS

-----------------------------------------------------------------------------
(* What the helpers return.                                                *)

\* Closing the form of a card leaves a card.
LEMMA CloseFormType ==
    ASSUME NEW c \in Clients, NEW p \in Page
    PROVE  CloseForm(c, p) \in Page
<1>1. IsStaff(c) \in BOOLEAN
  BY DEF IsStaff
<1> QED
  BY <1>1 DEF CloseForm, Page

\* A card that has been pointed at an AGV is a card, and the job is a job.
LEMMA LoadCardType ==
    ASSUME NEW c \in Clients, NEW p \in Page, NEW a \in AgvIds, NEW G \in AgvTable
    PROVE  /\ LoadCard(c, p, a, G) \in Page
           /\ Loading(a, G) \in Job
<1>1. CloseForm(c, p) \in Page
  BY CloseFormType
<1> DEFINE closed == [IF p.form = "none" THEN p ELSE CloseForm(c, p) EXCEPT !.agv = a]
<1>2. closed \in Page
  BY <1>1 DEF Page
<1>3. NoRows \in TaskTable
  BY DEF NoRows, TaskTable
<1>4. G[a] = None \/ G[a] \in AgvRow
  BY DEF AgvTable
<1>5. CASE G[a] = None
  BY <1>2, <1>3, <1>5 DEF LoadCard, Loading, Idle, Job, UserOrNone
<1>6. CASE G[a] # None
  <2>1. G[a] \in AgvRow
    BY <1>4, <1>6
  <2>2. LoadCard(c, p, a, G) = [closed EXCEPT !.origId = a, !.user = G[a].user, !.by = G[a].by,
                            !.offline = G[a].offline, !.rows = NoRows, !.seen = TRUE,
                            !.tools = IsStaff(c) /\ ~G[a].offline]
    BY <1>6 DEF LoadCard
  <2>3. LoadCard(c, p, a, G) \in Page
    <3>1. ASSUME NEW q \in Page, NEW b \in BOOLEAN
          PROVE  [q EXCEPT !.origId = a, !.user = G[a].user, !.by = G[a].by, !.offline = G[a].offline,
                           !.rows = NoRows, !.seen = TRUE, !.tools = b] \in Page
      BY <1>3, <2>1 DEF Page, AgvRow
    <3>2. (IsStaff(c) /\ ~G[a].offline) \in BOOLEAN
      BY DEF IsStaff
    <3> HIDE DEF closed
    <3> QED
      BY <1>2, <2>2, <3>1, <3>2
  <2>4. Loading(a, G) = [Idle EXCEPT !.kind = "load"]
    BY <1>6 DEF Loading
  <2>5. Loading(a, G) \in Job
    BY <2>4, <1>3 DEF Idle, Job, UserOrNone
  <2> QED
    BY <2>3, <2>5
<1> QED
  BY <1>5, <1>6

\* The rows of one AGV, an update by id, a delegation and a renaming of tasks are
\* again tables of tasks.
LEMMA TableTypes ==
    ASSUME NEW T \in TaskTable
    PROVE  /\ \A a : RowsOf(a, T) \in TaskTable
           /\ \A t \in TaskIds : \A row : (T[t] # None => row \in TaskRow) => Update(T, t, row) \in TaskTable
           /\ \A a : \A u, b \in UserOrNone : Delegated(T, a, u, b) \in TaskTable
           /\ \A old : \A new \in AgvIds : Refiled(T, old, new) \in TaskTable
<1>0. /\ \A t \in TaskIds : T[t] # None => T[t] \in TaskRow
      /\ None \in UserOrNone
  BY DEF TaskTable, UserOrNone
<1>1. \A a : RowsOf(a, T) \in TaskTable
  BY DEF RowsOf, TaskTable
<1>2. \A t \in TaskIds : \A row : (T[t] # None => row \in TaskRow) => Update(T, t, row) \in TaskTable
  BY DEF Update, TaskTable
<1>3. ASSUME NEW a, NEW u \in UserOrNone, NEW b \in UserOrNone
      PROVE  Delegated(T, a, u, b) \in TaskTable
  <2>1. ASSUME NEW r \in TaskRow, NEW d \in UserOrNone
        PROVE  [r EXCEPT !.to = u, !.by = d] \in TaskRow
    BY DEF TaskRow
  <2> QED
    BY <1>0, <2>1 DEF Delegated, TaskTable
<1>4. ASSUME NEW old, NEW new \in AgvIds
      PROVE  Refiled(T, old, new) \in TaskTable
  <2>1. ASSUME NEW r \in TaskRow
        PROVE  [r EXCEPT !.agv = new] \in TaskRow
    BY DEF TaskRow
  <2>2. \A t \in TaskIds : (IF T[t] # None /\ T[t].agv = old THEN [T[t] EXCEPT !.agv = new] ELSE T[t])
                            \in TaskRow \cup {None}
    BY <1>0, <2>1
  <2> QED
    BY <2>2 DEF Refiled, TaskTable
<1> QED
  BY <1>1, <1>2, <1>3, <1>4

\* A completed row is a row.
LEMMA CompletedType ==
    ASSUME NEW row \in TaskRow, NEW next \in Int, NEW me, NEW u \in UserOrNone,
           NEW b \in UserOrNone, NEW how \in {"completed", "fallback"}
    PROVE  Completed(row, next, me, u, b, how) \in TaskRow
BY DEF Completed, TaskRow

\* Signed-in users are users; a date plus an interval is a date.
LEMMA Basics ==
    /\ \A c \in Clients : Me(c) \in Users /\ Me(c) \in UserOrNone
    /\ None \in UserOrNone
    /\ \A d \in Int : \A i \in Intervals : ComputeNextDate(d, i) \in Int
    /\ NoRows \in TaskTable
    /\ Idle \in Job
BY ClientsSignedIn, IntervalsAreDays
   DEF Me, UserOrNone, ComputeNextDate, NoRows, TaskTable, Idle, Job

-----------------------------------------------------------------------------
(* Type correctness.                                                       *)

\* TypeOK without the counter of the bound, which no handler touches.
Shape ==
    /\ today \in 0 .. MaxDay
    /\ agvs \in AgvTable
    /\ known \subseteq AgvIds
    /\ tasks \in TaskTable
    /\ nextId \in 1 .. MaxTasks + 1
    /\ history \subseteq HistoryRow
    /\ page \in [Clients -> Page]
    /\ undo \in [Clients -> TaskTable]
    /\ undoTimer \in [Clients -> BOOLEAN]
    /\ job \in [Clients -> Job]
    /\ sent \in Sent

\* A deletion or a restoration runs on a card, a bulk completion on an AGV, and an
\* edit form on a row.
Bound ==
    \A c \in Clients :
        /\ job[c].kind \in {"delete", "restore"} => page[c].agv # None
        /\ job[c].kind = "bulk" => job[c].agv # None
        /\ page[c].form = "edit" => page[c].editId # 0 /\ page[c].editRow # None

\* What a client finds in its own variables.
LEMMA Mine ==
    ASSUME Shape, NEW c \in Clients
    PROVE  /\ page[c] \in Page /\ undo[c] \in TaskTable /\ job[c] \in Job
           /\ page[c].agv # None => page[c].agv \in AgvIds
           /\ page[c].rows \in TaskTable /\ job[c].todo \in TaskTable
           /\ today \in Int /\ {} \in Sent
           /\ page[c].user \in UserOrNone /\ page[c].by \in UserOrNone
           /\ job[c].user \in UserOrNone /\ job[c].by \in UserOrNone
BY DEF Shape, Page, Job, Sent

\* Navigation touches the cards only.
LEMMA NavigateShape ==
    ASSUME Shape, NEW c \in Clients, Navigate(c)
    PROVE  Shape'
<1>1. ASSUME NEW a \in AgvIds, OpenCard(c, a) PROVE Shape'
  BY <1>1, Mine, LoadCardType DEF Shape, OpenCard, fleet, db
<1>2. ASSUME ToggleEditMode(c) PROVE Shape'
  <2>1. [page[c] EXCEPT !.editMode = ~@] \in Page
    BY Mine DEF Page
  <2> QED
    BY <1>2, <2>1, Mine DEF Shape, ToggleEditMode, fleet, db
<1>3. ASSUME OpenAddTaskForm(c) PROVE Shape'
  <2>1. [page[c] EXCEPT !.form = "add"] \in Page
    BY Mine DEF Page
  <2> QED
    BY <1>3, <2>1, Mine DEF Shape, OpenAddTaskForm, fleet, db
<1>4. ASSUME CancelForm(c) PROVE Shape'
  <2>1. CloseForm(c, page[c]) \in Page
    BY Mine, CloseFormType
  <2>2. page[c].agv \in AgvIds
    BY <1>4, Mine DEF CancelForm, OnCard
  <2>3. CASE page[c].form = "add"
    BY <1>4, <2>1, <2>3, Mine DEF Shape, CancelForm, fleet, db
  <2>4. CASE page[c].form = "edit"
    BY <1>4, <2>2, <2>4, Mine, LoadCardType DEF Shape, CancelForm, fleet, db
  <2> QED
    BY <1>4, <2>3, <2>4 DEF CancelForm
<1>5. ASSUME NEW t \in TaskIds, OpenEditTaskForm(c, t) PROVE Shape'
  <2>1. tasks[t] \in TaskRow
    BY <1>5 DEF OpenEditTaskForm, Shape, TaskTable
  <2>2. [page[c] EXCEPT !.form = "edit", !.editId = t, !.editRow = tasks[t]] \in Page
    BY <2>1, Mine DEF Page
  <2> QED
    BY <1>5, <2>2, Mine DEF Shape, OpenEditTaskForm, fleet, db
<1> QED
  BY <1>1, <1>2, <1>3, <1>4, <1>5 DEF Navigate

\* The sets of notifications that the handlers insert.
LEMMA SentTypes ==
    /\ {} \in Sent
    /\ \A k \in {"done", "delegated", "available", "pinned"} :
          /\ ToViewers(k) \in Sent
          /\ \A u \in UserOrNone : ToOne(u, k) \in Sent
          /\ \A u \in Users : {<<u, k>>} \in Sent
BY DEF Sent, ToViewers, ToOne, UserOrNone, Users

\* Saving either form writes at most one row.
LEMMA FormShape ==
    ASSUME Shape, Bound, NEW c \in Clients, NEW i \in Intervals, NEW who \in UserOrNone,
           NEW keep \in BOOLEAN,
           AddTask(c, i, today, who) \/ SaveEdit(c, i, keep, who)
    PROVE  Shape'
<1> DEFINE p == page[c]
<1>1. p.agv \in AgvIds
  BY Mine DEF AddTask, SaveEdit, OnCard
<1>2. LoadCard(c, page[c], p.agv, agvs) \in Page /\ Loading(p.agv, agvs) \in Job
  BY <1>1, Mine, LoadCardType DEF Shape
<1>3. CASE AddTask(c, i, today, who)
  <2> DEFINE to == IF who # None THEN who ELSE p.user
             by == IF who # None THEN Me(c) ELSE IF p.user # None THEN p.by ELSE None
             row == [agv |-> p.agv, interval |-> i, next |-> ComputeNextDate(today, i),
                     to |-> to, by |-> by, src |-> "form"]
  <2>1. to \in UserOrNone /\ by \in UserOrNone /\ (to # None => to \in Users)
    BY Mine, Basics DEF UserOrNone
  <2>2. row \in TaskRow
    BY <1>1, <2>1, Mine, Basics DEF TaskRow
  <2>3. sent' \in Sent
    BY <1>3, <2>1, SentTypes DEF AddTask
  <2>4. tasks' \in TaskTable /\ nextId' \in 1 .. MaxTasks + 1
    <3>1. CASE UNCHANGED <<tasks, nextId>>
      BY <3>1 DEF Shape
    <3>2. CASE nextId <= MaxTasks /\ tasks' = [tasks EXCEPT ![nextId] = row] /\ nextId' = nextId + 1
      <4>1. nextId \in TaskIds /\ nextId + 1 \in 1 .. MaxTasks + 1
        BY <3>2, FleetConstants DEF Shape, TaskIds
      <4> HIDE DEF row
      <4> QED
        BY <2>2, <3>2, <4>1 DEF Shape, TaskTable
    <3> QED
      BY <1>3, <3>1, <3>2 DEF AddTask
  <2>5. /\ page' = [page EXCEPT ![c] = LoadCard(c, @, p.agv, agvs)]
        /\ job' = [job EXCEPT ![c] = Loading(p.agv, agvs)]
        /\ UNCHANGED <<today, fleet, history, undo, undoTimer>>
    BY <1>3 DEF AddTask
  <2> HIDE DEF p
  <2> QED
    BY <1>2, <2>3, <2>4, <2>5 DEF Shape, fleet
<1>4. CASE SaveEdit(c, i, keep, who)
  <2> DEFINE old == p.editRow
             last == IF keep /\ old.interval > 0 THEN old.next - old.interval ELSE today
             by == IF who = None THEN None ELSE IF who # old.to THEN Me(c) ELSE old.by
             row == [tasks[p.editId] EXCEPT !.interval = i, !.to = who, !.by = by,
                              !.next = ComputeNextDate(last, i), !.src = "form"]
  <2>1. p.editId \in TaskIds /\ old \in TaskRow
    BY <1>4, Mine DEF SaveEdit, Bound, Page
  <2>2. by \in UserOrNone
    BY <2>1, Mine, Basics DEF TaskRow
  <2>3. last \in Int
    <3> HIDE DEF old
    <3>1. old.next \in Int /\ old.interval \in Intervals
      BY <2>1 DEF TaskRow
    <3>2. \A x \in Intervals : x \in Int
      BY IntervalsAreDays
    <3>3. today \in Int
      BY Mine
    <3> QED
      BY <3>1, <3>2, <3>3
  <2>4. ComputeNextDate(last, i) \in Int
    BY <2>3, Basics
  <2>5. tasks[p.editId] # None => row \in TaskRow
    <3> HIDE DEF by, last, p
    <3>1. tasks[p.editId] # None => tasks[p.editId] \in TaskRow
      BY <2>1 DEF Shape, TaskTable
    <3> QED
      BY <2>2, <2>4, <3>1 DEF TaskRow
  <2>6. Update(tasks, p.editId, row) \in TaskTable
    <3> HIDE DEF row, p
    <3> QED
      BY <2>1, <2>5, TableTypes DEF Shape
  <2>7. tasks' \in TaskTable
    <3>1. tasks' = Update(tasks, p.editId, row) \/ UNCHANGED tasks
      BY <1>4 DEF SaveEdit
    <3> QED
      BY <2>6, <3>1 DEF Shape
  <2>8. sent' \in Sent
    <3>1. sent' = (IF who = old.to THEN {}
                   ELSE IF who # None THEN {<<who, "delegated">>} ELSE ToViewers("available"))
      BY <1>4 DEF SaveEdit
    <3> QED
      BY <3>1, SentTypes DEF UserOrNone
  <2>9. /\ page' = [page EXCEPT ![c] = LoadCard(c, @, p.agv, agvs)]
        /\ job' = [job EXCEPT ![c] = Loading(p.agv, agvs)]
        /\ UNCHANGED <<today, fleet, nextId, history, undo, undoTimer>>
    BY <1>4 DEF SaveEdit
  <2> HIDE DEF p
  <2> QED
    BY <1>2, <2>7, <2>8, <2>9 DEF Shape, fleet
<1> QED
  BY <1>3, <1>4

\* A completion writes the row it names, if it is still there.
LEMMA CompletionTable ==
    ASSUME Shape, NEW t \in TaskIds, NEW d \in Int, NEW r \in TaskRow, NEW me,
           NEW u \in UserOrNone, NEW b \in UserOrNone, NEW how \in {"completed", "fallback"}
    PROVE  /\ ComputeNextDate(d, r.interval) \in Int
           /\ Update(tasks, t, Completed(tasks[t], ComputeNextDate(d, r.interval), me, u, b, how))
                 \in TaskTable
<1>1. ComputeNextDate(d, r.interval) \in Int
  BY Basics DEF TaskRow
<1>2. tasks[t] # None => tasks[t] \in TaskRow
  BY DEF Shape, TaskTable
<1>3. tasks[t] # None =>
        Completed(tasks[t], ComputeNextDate(d, r.interval), me, u, b, how) \in TaskRow
  BY <1>1, <1>2, CompletedType
<1> QED
  BY <1>1, <1>3, TableTypes DEF Shape

\* Completing a task writes one row, one history row and the performer's card.
LEMMA CompleteShape ==
    ASSUME Shape, NEW c \in Clients, NEW t \in TaskIds,
           CompleteTask(c, t) \/ CompleteWithoutHistory(c, t)
    PROVE  Shape'
<1> DEFINE p == page[c]
           row == p.rows[t]
           next == ComputeNextDate(today, row.interval)
<1>1. row \in TaskRow /\ p.agv \in AgvIds
  <2>1. row # None /\ p.agv # None
    BY DEF CompleteTask, CompleteWithoutHistory, MayComplete, OnCard, Shown
  <2> QED
    BY <2>1, Mine DEF TaskTable
<1>2. next \in Int
  BY <1>1, CompletionTable, Mine, Basics DEF TaskRow
<1>3. LoadCard(c, page[c], p.agv, agvs) \in Page /\ Loading(p.agv, agvs) \in Job
  BY <1>1, Mine, LoadCardType DEF Shape
<1>4. CASE CompleteTask(c, t)
  <2> DEFINE boss == IF row.by \notin {None, Me(c)} THEN row.by
                     ELSE IF p.by # Me(c) THEN p.by ELSE None
  <2>1. boss \in UserOrNone
    BY <1>1, Mine, Basics DEF TaskRow
  <2>2. sent' \in Sent
    <3>1. sent' = ToOne(boss, "done")
      BY <1>4 DEF CompleteTask
    <3> HIDE DEF boss
    <3> QED
      BY <2>1, <3>1, SentTypes
  <2>3. tasks' \in TaskTable
    BY <1>1, <1>4, Mine, CompletionTable DEF CompleteTask
  <2>4. history' \subseteq HistoryRow
    <3>1. [agv |-> p.agv, task |-> t, next |-> next, by |-> Me(c)] \in HistoryRow
      BY <1>1, <1>2, Basics DEF HistoryRow
    <3> QED
      BY <1>4, <3>1 DEF CompleteTask, Shape
  <2>5. /\ page' = [page EXCEPT ![c] = LoadCard(c, @, p.agv, agvs)]
        /\ job' = [job EXCEPT ![c] = Loading(p.agv, agvs)]
        /\ UNCHANGED <<today, fleet, nextId, undo, undoTimer>>
    BY <1>4 DEF CompleteTask
  <2> HIDE DEF p
  <2> QED
    BY <1>3, <2>2, <2>3, <2>4, <2>5 DEF Shape, fleet
<1>5. CASE CompleteWithoutHistory(c, t)
  <2>1. tasks' \in TaskTable
    BY <1>1, <1>5, Mine, CompletionTable DEF CompleteWithoutHistory
  <2> QED
    BY <1>5, <2>1, Mine DEF CompleteWithoutHistory, Shape, fleet
<1> QED
  BY <1>4, <1>5

\* Saving the AGV form and the pin button.
LEMMA AgvShape ==
    ASSUME Shape, NEW c \in Clients, NEW newId \in AgvIds, NEW off \in BOOLEAN,
           NEW u \in UserOrNone, SaveAgv(c, newId, off, u)
    PROVE  Shape'
<1> DEFINE p == page[c]
           newBy == IF u = None THEN None ELSE Me(c)
           new == [offline |-> off, user |-> u, by |-> newBy]
           found == p.origId # None /\ agvs[p.origId] # None
           G == [a \in AgvIds |-> IF found /\ a = newId THEN new
                                  ELSE IF found /\ a = p.origId THEN None ELSE agvs[a]]
           moved == IF newId = p.origId THEN tasks ELSE Refiled(tasks, p.origId, newId)
           saved == [p EXCEPT !.origId = newId, !.user = u, !.by = newBy]
<1>1. newBy \in UserOrNone
  BY Basics
<1>2. new \in AgvRow
  BY <1>1 DEF AgvRow
<1>3. G \in AgvTable
  <2> HIDE DEF new, found
  <2> QED
    BY <1>2 DEF Shape, AgvTable
<1>4. moved \in TaskTable
  BY TableTypes DEF Shape
<1>5. saved \in Page
  <2> HIDE DEF newBy
  <2> QED
    BY <1>1, Mine DEF Page
<1>6. tasks' \in TaskTable
  <2>1. tasks' = IF u = p.user THEN moved ELSE Delegated(moved, newId, u, Me(c))
    BY DEF SaveAgv
  <2> HIDE DEF moved
  <2> QED
    BY <1>4, <2>1, TableTypes, Basics
<1>7. sent' \in Sent
  BY SentTypes DEF SaveAgv
<1>8. LoadCard(c, saved, newId, G) \in Page /\ Loading(newId, G) \in Job
  <2> HIDE DEF saved, G
  <2> QED
    BY <1>3, <1>5, LoadCardType
<1>9. /\ agvs' = G
      /\ known' = known \cup {a \in AgvIds : G[a] # None}
      /\ page' = [page EXCEPT ![c] = LoadCard(c, saved, newId, G)]
      /\ job' = [job EXCEPT ![c] = Loading(newId, G)]
      /\ UNCHANGED <<today, nextId, history, undo, undoTimer>>
  BY DEF SaveAgv
<1> HIDE DEF saved, G, p
<1> QED
  BY <1>3, <1>6, <1>7, <1>8, <1>9 DEF Shape

\* The pin button writes the AGV in one step and its tasks in the next.
LEMMA PinShape ==
    ASSUME Shape, NEW c \in Clients, NEW u \in UserOrNone, PinAgv(c, u) \/ PinTasks(c)
    PROVE  Shape'
<1>1. CASE PinAgv(c, u)
  <2> DEFINE a == page[c].agv
             by == IF u = None THEN None ELSE Me(c)
  <2>1. a \in AgvIds /\ by \in UserOrNone
    BY <1>1, Mine, Basics DEF PinAgv, OnCard
  <2>2. agvs[a] = None \/ agvs[a] \in AgvRow
    BY <2>1 DEF Shape, AgvTable
  <2>3. agvs' = IF agvs[a] = None THEN agvs ELSE [agvs EXCEPT ![a].user = u, ![a].by = by]
    BY <1>1 DEF PinAgv
  <2>4. agvs' \in AgvTable
    <3> HIDE DEF a, by
    <3>1. agvs[a] # None => [agvs[a] EXCEPT !.user = u, !.by = by] \in AgvRow
      BY <2>1, <2>2 DEF AgvRow
    <3> QED
      BY <2>1, <2>3, <3>1 DEF Shape, AgvTable
  <2>5. [Idle EXCEPT !.kind = "pin", !.agv = a, !.user = u] \in Job
    BY <2>1, Basics DEF Idle, Job
  <2>6. /\ job' = [job EXCEPT ![c] = [Idle EXCEPT !.kind = "pin", !.agv = a, !.user = u]]
        /\ sent' = {}
        /\ UNCHANGED <<today, known, tasks, nextId, history, page, undo, undoTimer>>
    BY <1>1 DEF PinAgv
  <2> HIDE DEF a
  <2> QED
    BY <2>4, <2>5, <2>6, SentTypes DEF Shape
<1>2. CASE PinTasks(c)
  <2> DEFINE v == job[c].user
  <2>1. v \in UserOrNone /\ Me(c) \in UserOrNone
    BY Mine, Basics
  <2>2. tasks' \in TaskTable
    <3>1. tasks' = Delegated(tasks, job[c].agv, v, Me(c)) \/ UNCHANGED tasks
      BY <1>2 DEF PinTasks
    <3> QED
      BY <2>1, <3>1, TableTypes DEF Shape
  <2>3. [page[c] EXCEPT !.user = v, !.by = Me(c)] \in Page
    BY <2>1, Mine DEF Page
  <2>4. sent' \in Sent
    BY <1>2, <2>1, SentTypes DEF PinTasks
  <2>5. /\ page' = [page EXCEPT ![c].user = v, ![c].by = Me(c)]
        /\ job' = [job EXCEPT ![c] = Idle]
        /\ UNCHANGED <<today, fleet, nextId, history, undo, undoTimer>>
    BY <1>2 DEF PinTasks
  <2> HIDE DEF v
  <2> QED
    BY <2>2, <2>3, <2>4, <2>5, Basics DEF Shape, fleet
<1> QED
  BY <1>1, <1>2

\* Deleting and restoring move rows between tables of the same type.
LEMMA DeleteShape ==
    ASSUME Shape, Bound, NEW c \in Clients, NEW t \in TaskIds, NEW S,
           \/ StartDelete(c, S)
           \/ ReadDoomed(c, t)
           \/ DeleteDoomed(c)
           \/ FinishDelete(c)
           \/ UndoTimeout(c)
    PROVE  Shape'
<1>1. CASE StartDelete(c, S)
  <2> DEFINE todo == [x \in TaskIds |-> IF x \in S THEN page[c].rows[x] ELSE None]
  <2>1. todo \in TaskTable
    BY Mine DEF TaskTable
  <2>2. [Idle EXCEPT !.kind = "delete", !.todo = todo] \in Job
    <3> HIDE DEF todo
    <3> QED
      BY <2>1, Basics DEF Idle, Job
  <2>3. /\ undo' = [undo EXCEPT ![c] = NoRows]
        /\ job' = [job EXCEPT ![c] = [Idle EXCEPT !.kind = "delete", !.todo = todo]]
        /\ sent' = {}
        /\ UNCHANGED <<today, db, page, undoTimer>>
    BY <1>1 DEF StartDelete
  <2> HIDE DEF todo
  <2> QED
    BY <2>2, <2>3, Basics, SentTypes DEF Shape, fleet, db
<1>2. CASE ReadDoomed(c, t)
  <2>1. [job[c] EXCEPT !.doomed = t, !.todo[t] = None] \in Job
    BY Mine DEF Job, TaskTable
  <2>2. [undo[c] EXCEPT ![t] = tasks[t]] \in TaskTable
    BY Mine DEF Shape, TaskTable
  <2> QED
    BY <1>2, <2>1, <2>2, SentTypes DEF ReadDoomed, Shape, fleet, db
<1>3. CASE DeleteDoomed(c)
  <2>1. [job[c] EXCEPT !.doomed = 0] \in Job
    BY Mine DEF Job
  <2>2. tasks' \in TaskTable
    BY <1>3 DEF DeleteDoomed, Shape, TaskTable
  <2> QED
    BY <1>3, <2>1, <2>2, SentTypes DEF DeleteDoomed, Shape, fleet
<1>4. CASE FinishDelete(c)
  <2>1. page[c].agv \in AgvIds
    BY <1>4, Mine DEF FinishDelete, Bound
  <2>2. LoadCard(c, page[c], page[c].agv, agvs) \in Page /\ Loading(page[c].agv, agvs) \in Job
    BY <2>1, Mine, LoadCardType DEF Shape
  <2>3. undoTimer' \in [Clients -> BOOLEAN]
    BY <1>4 DEF FinishDelete, Shape
  <2> QED
    BY <1>4, <2>2, <2>3, SentTypes DEF FinishDelete, Shape, fleet, db
<1>5. CASE UndoTimeout(c)
  BY <1>5, Basics, SentTypes DEF UndoTimeout, Shape, fleet, db
<1> QED
  BY <1>1, <1>2, <1>3, <1>4, <1>5

\* A restore inserts the rows of the undo list one by one.
LEMMA RestoreShape ==
    ASSUME Shape, Bound, NEW c \in Clients, NEW t \in TaskIds,
           StartRestore(c) \/ RestoreOne(c, t) \/ FinishRestore(c)
    PROVE  Shape'
<1>1. CASE StartRestore(c)
  <2>1. [Idle EXCEPT !.kind = "restore", !.todo = undo[c]] \in Job
    BY Mine, Basics DEF Idle, Job
  <2> QED
    BY <1>1, <2>1, SentTypes DEF StartRestore, Shape, fleet, db
<1>2. CASE RestoreOne(c, t)
  <2> DEFINE row == [job[c].todo[t] EXCEPT !.to = None, !.by = None, !.src = "restored"]
  <2>1. job[c].todo[t] \in TaskRow
    BY <1>2, Mine DEF RestoreOne, IsFirst, TaskTable
  <2>2. row \in TaskRow
    BY <2>1, Basics DEF TaskRow
  <2>3. tasks' \in TaskTable /\ nextId' \in 1 .. MaxTasks + 1
    <3>1. CASE UNCHANGED <<tasks, nextId>>
      BY <3>1 DEF Shape
    <3>2. CASE nextId <= MaxTasks /\ tasks' = [tasks EXCEPT ![nextId] = row] /\ nextId' = nextId + 1
      <4>1. nextId \in TaskIds /\ nextId + 1 \in 1 .. MaxTasks + 1
        BY <3>2, FleetConstants DEF Shape, TaskIds
      <4> HIDE DEF row
      <4> QED
        BY <2>2, <3>2, <4>1 DEF Shape, TaskTable
    <3> QED
      BY <1>2, <3>1, <3>2 DEF RestoreOne
  <2>4. [job[c] EXCEPT !.todo[t] = None] \in Job
    BY Mine DEF Job, TaskTable
  <2> QED
    BY <1>2, <2>3, <2>4, SentTypes DEF RestoreOne, Shape, fleet
<1>3. CASE FinishRestore(c)
  <2>1. page[c].agv \in AgvIds
    BY <1>3, Mine DEF FinishRestore, Bound
  <2>2. LoadCard(c, page[c], page[c].agv, agvs) \in Page /\ Loading(page[c].agv, agvs) \in Job
    BY <2>1, Mine, LoadCardType DEF Shape
  <2> QED
    BY <1>3, <2>2, Basics, SentTypes DEF FinishRestore, Shape, fleet, db
<1> QED
  BY <1>1, <1>2, <1>3

\* The bulk dialog reads the rows of one AGV and completes them one by one.
LEMMA BulkShape ==
    ASSUME Shape, Bound, NEW c \in Clients, NEW a \in AgvIds, NEW t \in TaskIds,
           StartBulk(c, a) \/ BulkOne(c, t) \/ FinishBulk(c)
    PROVE  Shape'
<1>1. CASE StartBulk(c, a)
  <2> DEFINE g == agvs[a]
             mine == [x \in TaskIds |->
                        IF RowsOf(a, tasks)[x] # None
                           /\ EffectiveAssignee(tasks[x], g.user) \in {None, Me(c)}
                        THEN tasks[x] ELSE None]
  <2>1. g \in AgvRow
    BY <1>1 DEF StartBulk, Shape, AgvTable
  <2>2. mine \in TaskTable
    BY DEF Shape, TaskTable
  <2>3. today \in Nat
    BY FleetConstants DEF Shape
  <2>4. [Idle EXCEPT !.kind = "bulk", !.agv = a, !.user = g.user, !.by = g.by,
                     !.day = today, !.todo = mine] \in Job
    <3>1. g.user \in UserOrNone /\ g.by \in UserOrNone
      BY <2>1 DEF AgvRow
    <3> HIDE DEF mine, g
    <3> QED
      BY <2>2, <2>3, <3>1, Basics DEF Idle, Job
  <2>5. /\ job' = [job EXCEPT ![c] = [Idle EXCEPT !.kind = "bulk", !.agv = a, !.user = g.user,
                                         !.by = g.by, !.day = today, !.todo = mine]]
        /\ sent' = {}
        /\ UNCHANGED <<today, db, page, undo, undoTimer>>
    BY <1>1 DEF StartBulk
  <2> HIDE DEF mine, g
  <2> QED
    BY <2>4, <2>5, SentTypes DEF Shape, fleet, db
<1>2. CASE BulkOne(c, t)
  <2> DEFINE j == job[c]
             next == ComputeNextDate(j.day, j.todo[t].interval)
  <2>1. j.todo[t] \in TaskRow
    BY <1>2, Mine DEF BulkOne, IsFirst, TaskTable
  <2>2. j.day \in Int /\ j.user \in UserOrNone /\ j.by \in UserOrNone
    BY Mine DEF Job
  <2>3. j.agv \in AgvIds
    BY <1>2, Mine DEF BulkOne, Bound, Job
  <2>4. /\ next \in Int
        /\ Update(tasks, t, Completed(tasks[t], next, Me(c), j.user, j.by, "completed")) \in TaskTable
    BY <2>1, <2>2, CompletionTable
  <2>5. tasks' \in TaskTable
    BY <1>2, <2>4 DEF BulkOne, Shape
  <2>6. history' \subseteq HistoryRow
    <3>1. [agv |-> j.agv, task |-> t, next |-> next, by |-> Me(c)] \in HistoryRow
      BY <2>3, <2>4, Basics DEF HistoryRow
    <3> QED
      BY <1>2, <3>1 DEF BulkOne, Shape
  <2>7. [job[c] EXCEPT !.todo[t] = None] \in Job
    BY Mine DEF Job, TaskTable
  <2>8. /\ job' = [job EXCEPT ![c].todo[t] = None]
        /\ sent' = {}
        /\ UNCHANGED <<today, fleet, nextId, page, undo, undoTimer>>
    BY <1>2 DEF BulkOne
  <2> QED
    BY <2>5, <2>6, <2>7, <2>8, SentTypes DEF Shape, fleet
<1>3. CASE FinishBulk(c)
  BY <1>3, Basics, SentTypes DEF FinishBulk, Shape, fleet, db
<1> QED
  BY <1>1, <1>2, <1>3

\* The initial fleet: one AGV with one task, and nobody at work.
LEMMA InitShape ==
    ASSUME Init
    PROVE  Shape /\ Bound
<1>1. agvs \in AgvTable
  BY Basics DEF Init, AgvTable, AgvRow, UserOrNone
<1>2. tasks \in TaskTable
  <2>1. PICK i \in Intervals :
          tasks = [NoRows EXCEPT ![1] = [agv |-> FirstAgv, interval |-> i, next |-> i,
                                         to |-> None, by |-> None, src |-> "form"]]
    BY DEF Init
  <2>2. [agv |-> FirstAgv, interval |-> i, next |-> i, to |-> None, by |-> None, src |-> "form"] \in TaskRow
    BY Basics, FleetConstants, IntervalsAreDays DEF TaskRow
  <2> QED
    BY <2>1, <2>2, Basics DEF TaskTable
<1>3. EmptyPage \in Page
  BY Basics DEF EmptyPage, Page
<1>4. nextId \in 1 .. MaxTasks + 1 /\ today \in 0 .. MaxDay /\ known \subseteq AgvIds
  BY FleetConstants DEF Init
<1>5. Shape
  BY <1>1, <1>2, <1>3, <1>4, Basics, SentTypes DEF Init, Shape
<1>6. Bound
  BY DEF Init, Bound, EmptyPage, Idle
<1> QED
  BY <1>5, <1>6

\* Every step of every client keeps the shape of every variable.
LEMMA NextShape ==
    ASSUME Shape, Bound, [Next]_vars
    PROVE  Shape'
<1>1. CASE NextDay
  BY <1>1, FleetConstants, SentTypes DEF NextDay, Shape, fleet, db
<1>2. ASSUME NEW c \in Clients, Navigate(c) PROVE Shape'
  BY <1>2, NavigateShape
<1>3. ASSUME NEW c \in Clients, Change(c) PROVE Shape'
  <2>1. ASSUME NEW i \in Intervals, NEW who \in UserOrNone, AddTask(c, i, today, who) PROVE Shape'
    <3>1. TRUE \in BOOLEAN
      OBVIOUS
    <3> QED
      BY <2>1, <3>1, FormShape
  <2>2. ASSUME NEW i \in Intervals, NEW keep \in BOOLEAN, NEW who \in UserOrNone,
               SaveEdit(c, i, keep, who)
        PROVE  Shape'
    BY <2>2, FormShape
  <2>3. ASSUME NEW t \in TaskIds, CompleteTask(c, t) \/ CompleteWithoutHistory(c, t) PROVE Shape'
    BY <2>3, CompleteShape
  <2>4. ASSUME NEW a \in AgvIds, NEW off \in BOOLEAN, NEW u \in UserOrNone, SaveAgv(c, a, off, u)
        PROVE  Shape'
    BY <2>4, AgvShape
  <2>5. ASSUME NEW u \in Viewers \cup {None}, PinAgv(c, u) PROVE Shape'
    BY <2>5, PinShape DEF UserOrNone, Users
  <2>6. 1 \in TaskIds
    BY FleetConstants DEF TaskIds
  <2>7. ASSUME NEW S, StartDelete(c, S) PROVE Shape'
    BY <2>6, <2>7, DeleteShape
  <2>8. ASSUME StartRestore(c) PROVE Shape'
    BY <2>6, <2>8, RestoreShape
  <2>9. ASSUME NEW a \in AgvIds, StartBulk(c, a) PROVE Shape'
    BY <2>6, <2>9, BulkShape
  <2> QED
    BY <1>3, <2>1, <2>2, <2>3, <2>4, <2>5, <2>7, <2>8, <2>9 DEF Change
<1>4. ASSUME NEW c \in Clients, Continue(c) \/ UndoTimeout(c) PROVE Shape'
  <2>0. 1 \in TaskIds /\ FirstAgv \in AgvIds /\ None \in UserOrNone
    BY FleetConstants, Basics DEF TaskIds
  <2>1. CASE LoadRows(c)
    <3>1. [page[c] EXCEPT !.rows = RowsOf(page[c].agv, tasks)] \in Page
      <4>1. RowsOf(page[c].agv, tasks) \in TaskTable
        BY TableTypes DEF Shape
      <4> QED
        BY <4>1, Mine DEF Page
    <3> QED
      BY <2>1, <3>1, Basics, SentTypes DEF LoadRows, Shape, fleet, db
  <2>2. CASE PinTasks(c)
    BY <2>0, <2>2, PinShape
  <2>3. ASSUME NEW t \in TaskIds, ReadDoomed(c, t) \/ RestoreOne(c, t) \/ BulkOne(c, t) PROVE Shape'
    BY <2>0, <2>3, DeleteShape, RestoreShape, BulkShape
  <2>4. CASE DeleteDoomed(c) \/ FinishDelete(c) \/ UndoTimeout(c)
    BY <2>0, <2>4, DeleteShape
  <2>5. CASE FinishRestore(c)
    BY <2>0, <2>5, RestoreShape
  <2>6. CASE FinishBulk(c)
    BY <2>0, <2>6, BulkShape
  <2> QED
    BY <1>4, <2>1, <2>2, <2>3, <2>4, <2>5, <2>6 DEF Continue
<1>5. CASE UNCHANGED vars
  BY <1>5 DEF vars, Shape
<1> QED
  BY <1>1, <1>2, <1>3, <1>4, <1>5 DEF Next

-----------------------------------------------------------------------------
(* Where a job and a form belong.                                          *)

\* A loaded card shows the AGV it was pointed at, and no form.
LEMMA LoadCardShows ==
    ASSUME NEW c \in Clients, NEW p \in Page, NEW a, NEW G
    PROVE  /\ LoadCard(c, p, a, G).agv = a
           /\ LoadCard(c, p, a, G).form = "none"
           /\ LoadCard(c, p, a, G).rows \in {p.rows, NoRows}
           /\ Loading(a, G).kind \in {"idle", "load"}
<1> DEFINE q == IF p.form = "none" THEN p ELSE CloseForm(c, p)
           closed == [q EXCEPT !.agv = a]
<1>1. q \in Page /\ q.form = "none" /\ q.rows = p.rows
  <2>1. CASE p.form = "none"
    BY <2>1
  <2>2. CASE p.form # "none"
    <3>1. CloseForm(c, p).form = "none" /\ CloseForm(c, p).rows = p.rows
      BY DEF CloseForm, Page
    <3> QED
      BY <2>2, <3>1, CloseFormType
  <2> QED
    BY <2>1, <2>2
<1>2. closed.agv = a /\ closed.form = "none" /\ closed.rows = p.rows
  <2> HIDE DEF q
  <2> QED
    BY <1>1 DEF Page
<1>3. CASE G[a] = None
  <2>1. LoadCard(c, p, a, G) = closed /\ Loading(a, G) = Idle
    BY <1>3 DEF LoadCard, Loading
  <2> HIDE DEF closed
  <2> QED
    BY <1>2, <2>1 DEF Idle
<1>4. CASE G[a] # None
  <2>1. LoadCard(c, p, a, G) = [closed EXCEPT !.origId = a, !.user = G[a].user, !.by = G[a].by,
                            !.offline = G[a].offline, !.rows = NoRows, !.seen = TRUE,
                            !.tools = IsStaff(c) /\ ~G[a].offline]
    BY <1>4 DEF LoadCard
  <2>2. closed \in [agv : {a}, origId : {q.origId}, user : {q.user}, by : {q.by},
                    offline : {q.offline}, rows : {q.rows}, form : {"none"}, editId : {q.editId},
                    editRow : {q.editRow}, editMode : {q.editMode}, tools : {q.tools}, seen : {q.seen}]
    <3> HIDE DEF q
    <3> QED
      BY <1>1 DEF Page
  <2>3. /\ LoadCard(c, p, a, G).agv = a
        /\ LoadCard(c, p, a, G).form = "none"
        /\ LoadCard(c, p, a, G).rows = NoRows
    <3> HIDE DEF closed
    <3> QED
      BY <2>1, <2>2
  <2> QED
    BY <1>4, <2>3 DEF Loading, Idle
<1> QED
  BY <1>3, <1>4

\* A step of one client leaves the cards and the jobs of the others alone, and
\* keeps jobs and forms where they belong.
LEMMA NextBound ==
    ASSUME Shape, Bound, [Next]_vars
    PROVE  Bound'
<1> DEFINE BoundAt(d) == /\ job[d].kind \in {"delete", "restore"} => page[d].agv # None
                         /\ job[d].kind = "bulk" => job[d].agv # None
                         /\ page[d].form = "edit" => page[d].editId # 0 /\ page[d].editRow # None
<1>0. SUFFICES ASSUME NEW d \in Clients PROVE BoundAt(d)'
  BY DEF Bound
<1>1. BoundAt(d)
  BY DEF Bound
<1>2. CASE NextDay \/ UNCHANGED vars
  BY <1>1, <1>2 DEF NextDay, vars
<1>3. ASSUME NEW c \in Clients, NEW p \in Page, NEW a, NEW G,
             page' = [page EXCEPT ![c] = LoadCard(c, p, a, G)], job' = [job EXCEPT ![c] = Loading(a, G)]
      PROVE  BoundAt(d)'
  BY <1>1, <1>3, LoadCardShows DEF Shape
<1>3a. ASSUME NEW c \in Clients, page' = [page EXCEPT ![c] = LoadCard(c, page[c], page[c].agv, agvs)],
             job' = [job EXCEPT ![c] = Loading(page[c].agv, agvs)]
      PROVE  BoundAt(d)'
  <2>1. page[c] \in Page
    BY Mine
  <2> HIDE DEF BoundAt
  <2> QED
    BY <1>3, <1>3a, <2>1
<1>4. ASSUME NEW c \in Clients, Navigate(c) PROVE BoundAt(d)'
  <2>1. ASSUME NEW a \in AgvIds, OpenCard(c, a) PROVE BoundAt(d)'
    BY <1>3, <2>1, Mine DEF OpenCard
  <2>2. CASE ToggleEditMode(c)
    BY <1>1, <2>2, Mine DEF ToggleEditMode, Shape, Page
  <2>3. CASE OpenAddTaskForm(c)
    BY <1>1, <2>3, Mine DEF OpenAddTaskForm, Shape, Page
  <2>4. CASE CancelForm(c)
    <3>1. CASE page[c].form = "edit"
      BY <1>3a, <2>4, <3>1 DEF CancelForm
    <3>2. CASE page[c].form = "add"
      <4>1. CloseForm(c, page[c]).form = "none" /\ CloseForm(c, page[c]).agv = page[c].agv
        BY Mine DEF CloseForm, Page
      <4> QED
        BY <1>1, <2>4, <3>2, <4>1 DEF CancelForm, Shape
    <3> QED
      BY <2>4, <3>1, <3>2 DEF CancelForm
  <2>5. ASSUME NEW t \in TaskIds, OpenEditTaskForm(c, t) PROVE BoundAt(d)'
    <3>1. page'[c].agv = page[c].agv /\ page'[c].editId = t /\ page'[c].editRow = tasks[t]
      BY <2>5, Mine DEF OpenEditTaskForm, Shape, Page
    <3>2. t # 0 /\ tasks[t] # None
      BY <2>5 DEF OpenEditTaskForm, TaskIds
    <3> QED
      BY <1>1, <2>5, <3>1, <3>2 DEF OpenEditTaskForm, Shape
  <2> QED
    BY <1>4, <2>1, <2>2, <2>3, <2>4, <2>5 DEF Navigate
<1>5. ASSUME NEW c \in Clients, Change(c) PROVE BoundAt(d)'
  <2>1. ASSUME NEW i \in Intervals, NEW who \in UserOrNone, AddTask(c, i, today, who) PROVE BoundAt(d)'
    BY <1>3, <2>1, Mine DEF AddTask
  <2>2. ASSUME NEW i \in Intervals, NEW keep \in BOOLEAN, NEW who \in UserOrNone,
               SaveEdit(c, i, keep, who)
        PROVE  BoundAt(d)'
    BY <1>3, <2>2, Mine DEF SaveEdit
  <2>3. ASSUME NEW t \in TaskIds, CompleteTask(c, t) \/ CompleteWithoutHistory(c, t)
        PROVE  BoundAt(d)'
    <3>1. CASE CompleteTask(c, t)
      BY <1>3, <3>1, Mine DEF CompleteTask
    <3>2. CASE CompleteWithoutHistory(c, t)
      BY <1>1, <3>2 DEF CompleteWithoutHistory
    <3> QED
      BY <2>3, <3>1, <3>2
  <2>4. ASSUME NEW a \in AgvIds, NEW off \in BOOLEAN, NEW u \in UserOrNone, SaveAgv(c, a, off, u)
        PROVE  BoundAt(d)'
    <3> DEFINE saved == [page[c] EXCEPT !.origId = a, !.user = u,
                                        !.by = IF u = None THEN None ELSE Me(c)]
    <3>1. saved \in Page
      BY Mine, Basics DEF Page
    <3>2. \E G : /\ page' = [page EXCEPT ![c] = LoadCard(c, saved, a, G)]
                 /\ job' = [job EXCEPT ![c] = Loading(a, G)]
      BY <2>4 DEF SaveAgv
    <3> HIDE DEF saved
    <3> QED
      BY <1>3, <3>1, <3>2
  <2>5. ASSUME NEW u \in Viewers \cup {None}, PinAgv(c, u) PROVE BoundAt(d)'
    BY <1>1, <2>5 DEF PinAgv, Idle, Shape
  <2>6. ASSUME NEW S, StartDelete(c, S) PROVE BoundAt(d)'
    BY <1>1, <2>6 DEF StartDelete, OnCard, Idle, Shape
  <2>7. CASE StartRestore(c)
    BY <1>1, <2>7 DEF StartRestore, OnCard, Idle, Shape
  <2>8. ASSUME NEW a \in AgvIds, StartBulk(c, a) PROVE BoundAt(d)'
    <3>1. job'[d] = job[d] \/ (job'[d].kind = "bulk" /\ job'[d].agv = a)
      BY <2>8 DEF StartBulk, Idle, Shape
    <3> QED
      BY <1>1, <2>8, <3>1, NoneIsNothing DEF StartBulk
  <2> QED
    BY <1>5, <2>1, <2>2, <2>3, <2>4, <2>5, <2>6, <2>7, <2>8 DEF Change
<1>6. ASSUME NEW c \in Clients, Continue(c) \/ UndoTimeout(c) PROVE BoundAt(d)'
  <2>1. CASE LoadRows(c)
    BY <1>1, <2>1, Mine DEF LoadRows, Idle, Shape, Page
  <2>2. CASE PinTasks(c)
    BY <1>1, <2>2, Mine DEF PinTasks, Idle, Shape, Page
  <2>3. ASSUME NEW t \in TaskIds, ReadDoomed(c, t) \/ RestoreOne(c, t) \/ BulkOne(c, t)
        PROVE  BoundAt(d)'
    <3>1. job'[d].kind = job[d].kind /\ job'[d].agv = job[d].agv
      BY <2>3, Mine DEF ReadDoomed, RestoreOne, BulkOne, Shape, Job
    <3>2. UNCHANGED page
      BY <2>3 DEF ReadDoomed, RestoreOne, BulkOne
    <3> QED
      BY <1>1, <3>1, <3>2
  <2>4. CASE DeleteDoomed(c)
    BY <1>1, <2>4, Mine DEF DeleteDoomed, Shape, Job
  <2>5. CASE FinishDelete(c) \/ FinishRestore(c)
    BY <1>3a, <2>5 DEF FinishDelete, FinishRestore
  <2>6. CASE FinishBulk(c)
    BY <1>1, <2>6 DEF FinishBulk, Idle, Shape
  <2>7. CASE UndoTimeout(c)
    BY <1>1, <2>7 DEF UndoTimeout
  <2> QED
    BY <1>6, <2>1, <2>2, <2>3, <2>4, <2>5, <2>6, <2>7 DEF Continue
<1> QED
  BY <1>2, <1>4, <1>5, <1>6 DEF Next

\* The counter of the bound stays within it.
LEMMA NextChanges ==
    ASSUME changes \in 0 .. MaxChanges, [Next]_vars
    PROVE  changes' \in 0 .. MaxChanges
<1>1. changes' \in {changes} \/ (changes < MaxChanges /\ changes' = changes + 1)
  BY DEF Next, vars
<1> QED
  BY <1>1, FleetConstants

\* The inductive strengthening of TypeOK.
Inv == Shape /\ Bound /\ changes \in 0 .. MaxChanges

\* It holds in every state of every behaviour.
LEMMA Invariance == Spec => []Inv
<1>1. Init => Inv
  <2>1. Init => Shape /\ Bound
    BY InitShape
  <2>2. Init => changes \in 0 .. MaxChanges
    BY FleetConstants DEF Init
  <2> QED
    BY <2>1, <2>2 DEF Inv
<1>2. Inv /\ [Next]_vars => Inv'
  BY NextShape, NextBound, NextChanges DEF Inv
<1> QED
  BY <1>1, <1>2, PTL DEF Spec

\* Every variable keeps its declared shape through every interleaving.
THEOREM TypeCorrect == Spec => []TypeOK
<1>1. Inv => TypeOK
  BY DEF Inv, TypeOK, Shape
<1> QED
  BY <1>1, Invariance, PTL
=============================================================================
