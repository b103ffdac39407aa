--------------------------- MODULE AgvMaintenance ---------------------------
(***************************************************************************)
(* Maintenance tasks of the AGV fleet, as several running copies of the    *)
(* program see and change them through one PostgreSQL database.            *)
(*                                                                         *)
(* The database holds agv_list, agv_tasks and agv_task_history.  Each      *)
(* client keeps one AGV card (AgvSettingsPage): the AGV it shows, the      *)
(* values it read when it loaded the card, and a snapshot of every task    *)
(* row, which the buttons of that row capture by value.  A handler runs to *)
(* its end on the client's only thread, but every SQL statement outside a  *)
(* transaction is a step of its own, so the handlers of other clients come *)
(* in between.  A transaction is one step, committed or rolled back: it    *)
(* writes each row once, under that row's lock.                            *)
(*                                                                         *)
(* Kept abstract: names, descriptions, durations, mileage and serial       *)
(* numbers; AGVs are neither created nor deleted here; a read succeeds, a  *)
(* write may be refused.  A handler that reloads the card after a commit   *)
(* takes the first SELECT of the reload together with the commit: opening  *)
(* the card again gives every later reading.                               *)
(***************************************************************************)
EXTENDS Integers, FiniteSets

CONSTANTS
    Clients,        \* running copies of the program
    UserOf,         \* UserOf[c]: the user signed in at client c
    Staff,          \* users with role admin or tech
    Viewers,        \* users with role viewer: only these can be assigned
    AgvIds,         \* values of agv_list.agv_id
    FirstAgv,       \* the AGV the database starts with
    None,           \* the empty string, and the absence of a row
    Intervals,      \* values of agv_tasks.interval_days
    MaxTasks,       \* bound: serial ids agv_tasks may hand out
    MaxDay,         \* bound: last day of the calendar
    MaxChanges      \* bound: handlers that write, over all clients

Users == Staff \cup Viewers
TaskIds == 1..MaxTasks
UserOrNone == Users \cup {None}

\* src is an observer: how next_date was last written.
TaskRow == [agv: AgvIds, interval: Intervals, next: Int, to: UserOrNone, by: UserOrNone,
            src: {"form", "completed", "fallback", "restored"}]
AgvRow == [offline: BOOLEAN, user: UserOrNone, by: UserOrNone]
HistoryRow == [agv: AgvIds, task: TaskIds, next: Int, by: Users]
TaskTable == [TaskIds -> TaskRow \cup {None}]
AgvTable == [AgvIds -> AgvRow \cup {None}]

ASSUME ClientsSignedIn == UserOf \in [Clients -> Users]
ASSUME NoneIsNothing == None \notin Users \cup AgvIds \cup TaskRow \cup AgvRow
ASSUME FleetConstants == FirstAgv \in AgvIds /\ MaxTasks \in Nat \ {0} /\ MaxDay \in Nat /\ MaxChanges \in Nat
ASSUME IntervalsAreDays == Intervals \subseteq Nat /\ Intervals # {}

VARIABLES
    today,          \* QDate::currentDate(), in days
    agvs,           \* agv_list
    known,          \* ids agv_list has held: what a list read earlier can show
    tasks,          \* agv_tasks
    nextId,         \* the serial of agv_tasks
    history,        \* agv_task_history, as a set of rows
    page,           \* page[c]: the AGV card open at client c
    undo,           \* undo[c]: recentlyDeleted, by the id each row had
    undoTimer,      \* undo[c]'s 10-second single-shot timer is running
    job,            \* job[c]: the statements a running handler still has to execute
    sent,           \* notifications inserted by the last step, as <<user, topic>>
    changes         \* handlers that write started so far, for the bound only

fleet == <<agvs, known>>
db == <<fleet, tasks, nextId, history>>
vars == <<today, agvs, known, tasks, nextId, history, page, undo, undoTimer, job, sent, changes>>

\* agv is currentAgvId; origId, user and by are the original* members; rows
\* are the task rows on screen, offline the status they were built under; form,
\* editId and editRow are the open form and the row it was opened on; tools says
\* whether the add and edit-mode buttons are visible; seen, whether any AGV has
\* been loaded yet (only then are the buttons set by role).
Page == [agv: AgvIds \cup {None}, origId: AgvIds \cup {None}, user: UserOrNone, by: UserOrNone,
         offline: BOOLEAN, rows: TaskTable, form: {"none", "add", "edit"},
         editId: TaskIds \cup {0}, editRow: TaskRow \cup {None},
         editMode: BOOLEAN, tools: BOOLEAN, seen: BOOLEAN]
Job == [kind: {"idle", "load", "delete", "restore", "bulk", "pin"}, agv: AgvIds \cup {None},
        user: UserOrNone, by: UserOrNone, day: Nat, todo: TaskTable, doomed: TaskIds \cup {0}]
Sent == SUBSET (Users \X {"done", "delegated", "available", "pinned"})

NoRows == [t \in TaskIds |-> None]
Idle == [kind |-> "idle", agv |-> None, user |-> None, by |-> None, day |-> 0,
         todo |-> NoRows, doomed |-> 0]
EmptyPage == [agv |-> None, origId |-> None, user |-> None, by |-> None, offline |-> FALSE,
              rows |-> NoRows, form |-> "none", editId |-> 0, editRow |-> None,
              editMode |-> FALSE, tools |-> TRUE, seen |-> FALSE]

Init ==
    /\ today = 0
    /\ agvs = [a \in AgvIds |-> IF a = FirstAgv
                                THEN [offline |-> FALSE, user |-> None, by |-> None]
                                ELSE None]
    /\ known = {FirstAgv}
    /\ \E i \in Intervals :
          tasks = [NoRows EXCEPT ![1] = [agv |-> FirstAgv, interval |-> i, next |-> i,
                                         to |-> None, by |-> None, src |-> "form"]]
    /\ nextId = 2
    /\ history = {}
    /\ page = [c \in Clients |-> EmptyPage]
    /\ undo = [c \in Clients |-> NoRows]
    /\ undoTimer = [c \in Clients |-> FALSE]
    /\ job = [c \in Clients |-> Idle]
    /\ sent = {}
    /\ changes = 0

-----------------------------------------------------------------------------
(* What a client can do, and what its statements read and write.           *)

Me(c) == UserOf[c]
IsStaff(c) == Me(c) \in Staff
IsIdle(c) == job[c].kind = "idle"
OnCard(c) == IsIdle(c) /\ page[c].agv # None
Shown(rows) == {t \in TaskIds : rows[t] # None}
\* The row a loop over rows in the order of their ids takes next.
IsFirst(t, rows) == rows[t] # None /\ \A u \in Shown(rows) : t <= u

ComputeNextDate(lastService, interval) == lastService + interval

\* The user a task belongs to: its own assignee, else the assignee of its AGV.
EffectiveAssignee(row, agvUser) == IF row.to # None THEN row.to ELSE agvUser

\* The rows of one AGV that a SELECT ... WHERE agv_id = a returns.
RowsOf(a, T) == [t \in TaskIds |-> IF T[t] # None /\ T[t].agv = a THEN T[t] ELSE None]

\* closeForm: back to the table; the buttons return by role alone.
CloseForm(c, p) ==
    [p EXCEPT !.form = "none", !.editId = 0, !.editRow = None, !.tools = IsStaff(c)]

\* loadAgv up to its first SELECT: an AGV that is gone changes only currentAgvId
\* and leaves the originals, the buttons and the rows of the AGV shown before.
LoadCard(c, p, a, G) ==
    LET closed == [IF p.form = "none" THEN p ELSE CloseForm(c, p) EXCEPT !.agv = a]
    IN  IF G[a] = None
        THEN closed
        ELSE [closed EXCEPT !.origId = a, !.user = G[a].user, !.by = G[a].by,
                            !.offline = G[a].offline, !.rows = NoRows, !.seen = TRUE,
                            !.tools = IsStaff(c) /\ ~G[a].offline]

\* The SELECT of the rows is still to come, unless the AGV was gone.
Loading(a, G) == IF G[a] = None THEN Idle ELSE [Idle EXCEPT !.kind = "load"]

\* An UPDATE by id: nothing happens to a row that is no longer there.
Update(T, t, row) == IF T[t] = None THEN T ELSE [T EXCEPT ![t] = row]

\* What a completion writes into the task row: the new date, and, when
\* the performer is not the AGV's assignee, the AGV's assignment as read earlier.
Completed(row, next, me, agvUser, agvBy, how) ==
    IF me = agvUser
    THEN [row EXCEPT !.next = next, !.src = how]
    ELSE [row EXCEPT !.next = next, !.to = agvUser, !.by = agvBy, !.src = how]

\* Mutant: the two values of the UPDATE bound in the wrong order.
Delegated_Swapped(T, a, u, b) ==
    [t \in TaskIds |-> IF T[t] # None /\ T[t].agv = a
                       THEN [T[t] EXCEPT !.to = a, !.by = u] ELSE T[t]]

\* Every task of AGV a handed to user u by user b (or to nobody).
Delegated(T, a, u, b) ==
    [t \in TaskIds |->
        IF T[t] # None /\ T[t].agv = a
        THEN [T[t] EXCEPT !.to = u, !.by = IF u = None THEN None ELSE b]
        ELSE T[t]]

Refiled(T, old, new) ==
    [t \in TaskIds |->
        IF T[t] # None /\ T[t].agv = old THEN [T[t] EXCEPT !.agv = new] ELSE T[t]]

ToViewers(topic) == {<<v, topic>> : v \in Viewers}
ToOne(u, topic) == IF u = None THEN {} ELSE {<<u, topic>>}

-----------------------------------------------------------------------------
(* Opening a card, and the forms.                                          *)

NextDay ==
    /\ today < MaxDay
    /\ today' = today + 1
    /\ sent' = {}
    /\ UNCHANGED <<db, page, undo, undoTimer, job>>

\* showAgvDetailInfo: the list the user clicked on may be older than agv_list.
OpenCard(c, a) ==
    /\ IsIdle(c) /\ a \in known
    /\ page' = [page EXCEPT ![c] = LoadCard(c, page[c], a, agvs)]
    /\ job' = [job EXCEPT ![c] = Loading(a, agvs)]
    /\ sent' = {}
    /\ UNCHANGED <<today, db, undo, undoTimer>>

\* loadAgv, second SELECT: the rows of currentAgvId as they are by now.
LoadRows(c) ==
    /\ job[c].kind = "load"
    /\ page' = [page EXCEPT ![c].rows = RowsOf(page[c].agv, tasks)]
    /\ job' = [job EXCEPT ![c] = Idle]
    /\ sent' = {}
    /\ UNCHANGED <<today, db, undo, undoTimer>>

ToggleEditMode(c) ==
    /\ OnCard(c) /\ page[c].form = "none"
    /\ page[c].tools
    /\ page' = [page EXCEPT ![c].editMode = ~@]
    /\ sent' = {}
    /\ UNCHANGED <<today, db, undo, undoTimer, job>>

OpenAddTaskForm(c) ==
    /\ OnCard(c) /\ page[c].form = "none"
    /\ page[c].tools
    /\ page' = [page EXCEPT ![c].form = "add"]
    /\ sent' = {}
    /\ UNCHANGED <<today, db, undo, undoTimer, job>>

\* A click on a row: the form is filled from the database, not from the row.
OpenEditTaskForm(c, t) ==
    /\ OnCard(c) /\ page[c].form = "none" /\ ~page[c].editMode
    /\ IsStaff(c)
    /\ t \in Shown(page[c].rows)
    /\ tasks[t] # None
    /\ page' = [page EXCEPT ![c].form = "edit", ![c].editId = t, ![c].editRow = tasks[t]]
    /\ sent' = {}
    /\ UNCHANGED <<today, db, undo, undoTimer, job>>

\* Cancel of the add form only closes it; cancel of the edit form reloads.
CancelForm(c) ==
    /\ OnCard(c)
    /\ \/ /\ page[c].form = "add"
          /\ page' = [page EXCEPT ![c] = CloseForm(c, @)]
          /\ UNCHANGED job
       \/ /\ page[c].form = "edit"
          /\ page' = [page EXCEPT ![c] = LoadCard(c, @, page[c].agv, agvs)]
          /\ job' = [job EXCEPT ![c] = Loading(page[c].agv, agvs)]
    /\ sent' = {}
    /\ UNCHANGED <<today, db, undo, undoTimer>>

-----------------------------------------------------------------------------
(* What the handlers write.                                                *)

\* Save of the add form; the notification does not depend on the INSERT.
AddTask(c, interval, last, who) ==
    LET p == page[c]
        to == IF who # None THEN who ELSE p.user
        by == IF who # None THEN Me(c) ELSE IF p.user # None THEN p.by ELSE None
        row == [agv |-> p.agv, interval |-> interval, next |-> ComputeNextDate(last, interval),
                to |-> to, by |-> by, src |-> "form"]
    IN  /\ OnCard(c) /\ p.form = "add"
        /\ who \in (IF IsStaff(c) THEN Viewers ELSE {}) \cup {None}
        /\ \/ /\ nextId <= MaxTasks
              /\ tasks' = [tasks EXCEPT ![nextId] = row]
              /\ nextId' = nextId + 1
           \/ UNCHANGED <<tasks, nextId>>            \* INSERT refused
        /\ sent' = IF to # None THEN {<<to, "delegated">>} ELSE ToViewers("available")
        /\ page' = [page EXCEPT ![c] = LoadCard(c, @, p.agv, agvs)]
        /\ job' = [job EXCEPT ![c] = Loading(p.agv, agvs)]
        /\ UNCHANGED <<today, fleet, history, undo, undoTimer>>

\* Save of the edit form: every field is written back, whatever happened to the
\* row since the form was opened; delegation is judged against that old row.
SaveEdit(c, interval, keepDate, who) ==
    LET p == page[c]
        old == p.editRow
        last == IF keepDate /\ old.interval > 0 THEN old.next - old.interval ELSE today
        by == IF who = None THEN None ELSE IF who # old.to THEN Me(c) ELSE old.by
        T == tasks[p.editId]
    IN  /\ OnCard(c) /\ p.form = "edit"
        /\ who \in Viewers \cup {None}
        /\ \/ tasks' = Update(tasks, p.editId,
                               [T EXCEPT !.interval = interval, !.to = who, !.by = by,
                                         !.next = ComputeNextDate(last, interval), !.src = "form"])
           \/ UNCHANGED tasks                        \* UPDATE refused
        /\ sent' = IF who = old.to THEN {}
                    ELSE IF who # None THEN {<<who, "delegated">>} ELSE ToViewers("available")
        /\ page' = [page EXCEPT ![c] = LoadCard(c, @, p.agv, agvs)]
        /\ job' = [job EXCEPT ![c] = Loading(p.agv, agvs)]
        /\ UNCHANGED <<today, fleet, nextId, history, undo, undoTimer>>

\* What a click on "Провести" is allowed on: the button was built from the
\* snapshot of the row, the check in the handler uses the same snapshot.
MayComplete(c, t) ==
    LET p == page[c]
        assignee == EffectiveAssignee(p.rows[t], p.user)
    IN  /\ OnCard(c) /\ p.form = "none"
        /\ t \in Shown(p.rows)
        /\ ~p.offline
        /\ assignee \in {None, Me(c)}

\* completeTaskNow, committed: the date and its history row together, then the
\* notification to whoever delegated the task; a rollback changes nothing.
CompleteTask(c, t) ==
    LET p == page[c]
        row == p.rows[t]
        next == ComputeNextDate(today, row.interval)
        boss == IF row.by \notin {None, Me(c)} THEN row.by
                ELSE IF p.by # Me(c) THEN p.by ELSE None
    IN  /\ MayComplete(c, t)
        /\ tasks' = Update(tasks, t, Completed(tasks[t], next, Me(c), p.user, p.by, "completed"))
        /\ history' = history \cup {[agv |-> p.agv, task |-> t, next |-> next, by |-> Me(c)]}
        /\ sent' = ToOne(boss, "done")
        /\ page' = [page EXCEPT ![c] = LoadCard(c, @, p.agv, agvs)]
        /\ job' = [job EXCEPT ![c] = Loading(p.agv, agvs)]
        /\ UNCHANGED <<today, fleet, nextId, undo, undoTimer>>

\* BEGIN was refused and the handler went on without a transaction; then the
\* INSERT into the history was refused, and there is nothing to roll back.
CompleteWithoutHistory(c, t) ==
    LET p == page[c]
        next == ComputeNextDate(today, p.rows[t].interval)
    IN  /\ MayComplete(c, t)
        /\ tasks' = Update(tasks, t, Completed(tasks[t], next, Me(c), p.user, p.by, "fallback"))
        /\ sent' = {}
        /\ UNCHANGED <<today, fleet, nextId, history, page, undo, undoTimer, job>>

\* saveAgvInfo: one transaction on agv_list and agv_tasks.  The WHERE clause
\* finds nothing when the AGV was renamed meanwhile, and that is not checked.
\* Tasks are delegated only if the assignee differs from the one on the card.
SaveAgv(c, newId, newOffline, newUser) ==
    LET p == page[c]
        newBy == IF newUser = None THEN None ELSE Me(c)
        new == [offline |-> newOffline, user |-> newUser, by |-> newBy]
        found == p.origId # None /\ agvs[p.origId] # None
        G == [a \in AgvIds |-> IF found /\ a = newId THEN new
                               ELSE IF found /\ a = p.origId THEN None ELSE agvs[a]]
        moved == IF newId = p.origId THEN tasks ELSE Refiled(tasks, p.origId, newId)
        saved == [p EXCEPT !.origId = newId, !.user = newUser, !.by = newBy]
    IN  /\ OnCard(c)
        /\ IsStaff(c) \/ ~p.seen
        /\ newId # p.origId => agvs[newId] = None
        /\ newUser \in (IF p.seen THEN Viewers ELSE {}) \cup {None}
        /\ agvs' = G
        /\ known' = known \cup {a \in AgvIds : G[a] # None}
        /\ tasks' = IF newUser = p.user THEN moved ELSE Delegated(moved, newId, newUser, Me(c))
        /\ sent' = IF newUser = p.user THEN {} ELSE ToOne(newUser, "pinned")
        /\ page' = [page EXCEPT ![c] = LoadCard(c, saved, newId, G)]
        /\ job' = [job EXCEPT ![c] = Loading(newId, G)]
        /\ UNCHANGED <<today, nextId, history, undo, undoTimer>>

\* The pin button: agv_list in one statement ...
PinAgv(c, u) ==
    LET a == page[c].agv
    IN  /\ OnCard(c)
        /\ IsStaff(c) /\ ~page[c].offline
        /\ agvs' = IF agvs[a] = None THEN agvs
                   ELSE [agvs EXCEPT ![a].user = u, ![a].by = IF u = None THEN None ELSE Me(c)]
        /\ job' = [job EXCEPT ![c] = [Idle EXCEPT !.kind = "pin", !.agv = a, !.user = u]]
        /\ sent' = {}
        /\ UNCHANGED <<today, known, tasks, nextId, history, page, undo, undoTimer>>

\* ... and its tasks in another; the rows on screen are not reloaded.
PinTasks(c) ==
    LET u == job[c].user
    IN  /\ job[c].kind = "pin"
        /\ \/ tasks' = Delegated(tasks, job[c].agv, u, Me(c))
           \/ UNCHANGED tasks                        \* UPDATE refused
        /\ sent' = ToOne(u, "pinned")
        /\ page' = [page EXCEPT ![c].user = u, ![c].by = Me(c)]
        /\ job' = [job EXCEPT ![c] = Idle]
        /\ UNCHANGED <<today, fleet, nextId, history, undo, undoTimer>>

-----------------------------------------------------------------------------
(* Deleting the checked rows, and taking it back within ten seconds.       *)

\* deleteSelectedTasks forgets the previous deletion before it starts.  With
\* nothing checked, the button is on screen after a form has been cancelled.
StartDelete(c, checked) ==
    /\ OnCard(c) /\ page[c].form = "none"
    /\ IF checked = {} THEN IsStaff(c) /\ page[c].tools ELSE page[c].editMode
    /\ undo' = [undo EXCEPT ![c] = NoRows]
    /\ job' = [job EXCEPT ![c] = [Idle EXCEPT !.kind = "delete",
                  !.todo = [t \in TaskIds |-> IF t \in checked THEN page[c].rows[t] ELSE None]]]
    /\ sent' = {}
    /\ UNCHANGED <<today, db, page, undoTimer>>

\* Mutant: the row is looked up among those of the AGV on the card.
ReadDoomed_OfThisAgv(c, t) ==
    /\ job[c].kind = "delete" /\ job[c].doomed = 0
    /\ IsFirst(t, job[c].todo)
    /\ undo' = [undo EXCEPT ![c][t] = RowsOf(page[c].agv, tasks)[t]]
    /\ job' = [job EXCEPT ![c].doomed = t, ![c].todo[t] = None]
    /\ sent' = {}
    /\ UNCHANGED <<today, db, page, undoTimer>>

ReadDoomed(c, t) ==
    /\ job[c].kind = "delete" /\ job[c].doomed = 0
    /\ IsFirst(t, job[c].todo)
    /\ undo' = [undo EXCEPT ![c][t] = tasks[t]]
    /\ job' = [job EXCEPT ![c].doomed = t, ![c].todo[t] = None]
    /\ sent' = {}
    /\ UNCHANGED <<today, db, page, undoTimer>>

DeleteDoomed(c) ==
    /\ job[c].kind = "delete" /\ job[c].doomed # 0
    /\ \/ tasks' = [tasks EXCEPT ![job[c].doomed] = None]
       \/ UNCHANGED tasks                            \* DELETE refused
    /\ job' = [job EXCEPT ![c].doomed = 0]
    /\ sent' = {}
    /\ UNCHANGED <<today, fleet, nextId, history, page, undo, undoTimer>>

\* Mutant: the timer is started only if the AGV of the card is still there.
FinishDelete_TimerAfterReload(c) ==
    /\ job[c].kind = "delete" /\ job[c].doomed = 0 /\ job[c].todo = NoRows
    /\ undoTimer' = [undoTimer EXCEPT ![c] = @ \/ (undo[c] # NoRows /\ agvs[page[c].agv] # None)]
    /\ page' = [page EXCEPT ![c] = LoadCard(c, @, page[c].agv, agvs)]
    /\ job' = [job EXCEPT ![c] = Loading(page[c].agv, agvs)]
    /\ sent' = {}
    /\ UNCHANGED <<today, db, undo>>

FinishDelete(c) ==
    /\ job[c].kind = "delete" /\ job[c].doomed = 0 /\ job[c].todo = NoRows
    /\ undoTimer' = [undoTimer EXCEPT ![c] = @ \/ undo[c] # NoRows]
    /\ page' = [page EXCEPT ![c] = LoadCard(c, @, page[c].agv, agvs)]
    /\ job' = [job EXCEPT ![c] = Loading(page[c].agv, agvs)]
    /\ sent' = {}
    /\ UNCHANGED <<today, db, undo>>

\* Mutant: the timeout hides the button and keeps the list.
UndoTimeout_KeepsList(c) ==
    /\ IsIdle(c) /\ undoTimer[c]
    /\ undoTimer' = [undoTimer EXCEPT ![c] = FALSE]
    /\ sent' = {}
    /\ UNCHANGED <<today, db, page, undo, job>>

\* cancelUndo, when the timer fires between two handlers.
UndoTimeout(c) ==
    /\ IsIdle(c) /\ undoTimer[c]
    /\ undo' = [undo EXCEPT ![c] = NoRows]
    /\ undoTimer' = [undoTimer EXCEPT ![c] = FALSE]
    /\ sent' = {}
    /\ UNCHANGED <<today, db, page, job>>

StartRestore(c) ==
    /\ OnCard(c) /\ page[c].form = "none"
    /\ undo[c] # NoRows
    /\ job' = [job EXCEPT ![c] = [Idle EXCEPT !.kind = "restore", !.todo = undo[c]]]
    /\ sent' = {}
    /\ UNCHANGED <<today, db, page, undo, undoTimer>>

\* One INSERT of restoreDeletedTasks: a new id, and nobody assigned.
RestoreOne(c, t) ==
    /\ job[c].kind = "restore"
    /\ IsFirst(t, job[c].todo)
    /\ \/ /\ nextId <= MaxTasks
          /\ tasks' = [tasks EXCEPT ![nextId] = [job[c].todo[t] EXCEPT
                            !.to = None, !.by = None, !.src = "restored"]]
          /\ nextId' = nextId + 1
       \/ UNCHANGED <<tasks, nextId>>            \* INSERT refused
    /\ job' = [job EXCEPT ![c].todo[t] = None]
    /\ sent' = {}
    /\ UNCHANGED <<today, fleet, history, page, undo, undoTimer>>

FinishRestore(c) ==
    /\ job[c].kind = "restore" /\ job[c].todo = NoRows
    /\ undo' = [undo EXCEPT ![c] = NoRows]
    /\ page' = [page EXCEPT ![c] = LoadCard(c, @, page[c].agv, agvs)]
    /\ job' = [job EXCEPT ![c] = Loading(page[c].agv, agvs)]
    /\ sent' = {}
    /\ UNCHANGED <<today, db, undoTimer>>

-----------------------------------------------------------------------------
(* Completing every task of an AGV from the bulk dialog.                   *)

\* The AGV, its assignment and its rows are read once (its two SELECTs together);
\* the rows that are somebody else's are skipped.  The card is not touched.
StartBulk(c, a) ==
    LET g == agvs[a]
        mine == [t \in TaskIds |->
                    IF RowsOf(a, tasks)[t] # None
                       /\ EffectiveAssignee(tasks[t], g.user) \in {None, Me(c)}
                    THEN tasks[t] ELSE None]
    IN  /\ IsIdle(c) /\ IsStaff(c)
        /\ g # None
        /\ ~g.offline
        /\ job' = [job EXCEPT ![c] = [Idle EXCEPT !.kind = "bulk", !.agv = a, !.user = g.user,
                                                  !.by = g.by, !.day = today, !.todo = mine]]
        /\ sent' = {}
        /\ UNCHANGED <<today, db, page, undo, undoTimer>>

\* Mutant: a refused history INSERT is skipped without rolling the UPDATE back.
BulkOne_NoRollback(c, t) ==
    LET j == job[c]
        next == ComputeNextDate(j.day, j.todo[t].interval)
    IN  /\ j.kind = "bulk" /\ IsFirst(t, j.todo)
        /\ tasks' = Update(tasks, t, Completed(tasks[t], next, Me(c), j.user, j.by, "completed"))
        /\ \/ history' = history \cup {[agv |-> j.agv, task |-> t, next |-> next, by |-> Me(c)]}
           \/ UNCHANGED history
        /\ job' = [job EXCEPT ![c].todo[t] = None]
        /\ sent' = {}
        /\ UNCHANGED <<today, fleet, nextId, page, undo, undoTimer>>

\* One task, one transaction; a refused transaction is skipped.
BulkOne(c, t) ==
    LET j == job[c]
        next == ComputeNextDate(j.day, j.todo[t].interval)
    IN  /\ j.kind = "bulk" /\ IsFirst(t, j.todo)
        /\ \/ /\ tasks' = Update(tasks, t, Completed(tasks[t], next, Me(c), j.user, j.by, "completed"))
              /\ history' = history \cup {[agv |-> j.agv, task |-> t, next |-> next, by |-> Me(c)]}
           \/ UNCHANGED <<tasks, history>>
        /\ job' = [job EXCEPT ![c].todo[t] = None]
        /\ sent' = {}
        /\ UNCHANGED <<today, fleet, nextId, page, undo, undoTimer>>

FinishBulk(c) ==
    /\ job[c].kind = "bulk" /\ job[c].todo = NoRows
    /\ job' = [job EXCEPT ![c] = Idle]
    /\ sent' = {}
    /\ UNCHANGED <<today, db, page, undo, undoTimer>>

-----------------------------------------------------------------------------
Navigate(c) ==
    \/ \E a \in AgvIds : OpenCard(c, a)
    \/ ToggleEditMode(c) \/ OpenAddTaskForm(c) \/ CancelForm(c)
    \/ \E t \in TaskIds : OpenEditTaskForm(c, t)

Change(c) ==
    \/ \E i \in Intervals, who \in UserOrNone : AddTask(c, i, today, who)
    \/ \E i \in Intervals, keep \in BOOLEAN, who \in UserOrNone : SaveEdit(c, i, keep, who)
    \/ \E t \in TaskIds : CompleteTask(c, t) \/ CompleteWithoutHistory(c, t)
    \/ \E a \in AgvIds, off \in BOOLEAN, u \in UserOrNone : SaveAgv(c, a, off, u)
    \/ \E u \in Viewers \cup {None} : PinAgv(c, u)
    \/ \E S \in SUBSET Shown(page[c].rows) : StartDelete(c, S)
    \/ StartRestore(c)
    \/ \E a \in AgvIds : StartBulk(c, a)

\* The statements a handler that has started still executes.
Continue(c) ==
    \/ LoadRows(c) \/ PinTasks(c)
    \/ \E t \in TaskIds : ReadDoomed(c, t) \/ RestoreOne(c, t) \/ BulkOne(c, t)
    \/ DeleteDoomed(c) \/ FinishDelete(c) \/ FinishRestore(c) \/ FinishBulk(c)

Next ==
    \/ NextDay /\ UNCHANGED changes
    \/ \E c \in Clients :
          \/ Navigate(c) /\ UNCHANGED changes
          \/ changes < MaxChanges /\ Change(c) /\ changes' = changes + 1
          \/ Continue(c) /\ UNCHANGED changes
          \/ UndoTimeout(c) /\ UNCHANGED changes

Spec == Init /\ [][Next]_vars

\* A handler runs to its end, and the event loop delivers an expired timer between
\* two handlers however many clicks there are; nobody has to click.
Fairness ==
    \A c \in Clients : /\ WF_vars(Continue(c) /\ UNCHANGED changes)
                       /\ SF_vars(UndoTimeout(c) /\ UNCHANGED changes)
FairSpec == Spec /\ Fairness

-----------------------------------------------------------------------------
(* Properties.                                                             *)

\* Every variable keeps the shape declared above.
TypeOK ==
    /\ today \in 0 .. MaxDay
    /\ agvs \in AgvTable
    /\ known \subseteq AgvIds
    /\ tasks \in TaskTable
    /\ nextId \in 1 .. MaxTasks + 1
    /\ history \subseteq HistoryRow
    /\ page \in [Clients -> Page]
    /\ undo \in [Clients -> TaskTable]
    /\ undoTimer \in [Clients -> BOOLEAN]
    /\ job \in [Clients -> Job]
    /\ sent \in Sent
    /\ changes \in 0 .. MaxChanges

\* A date that a completion wrote into a task is in the history of that task, even
\* when the task was renamed, delegated or completed by others since: only the
\* handler that went on without a transaction leaves a completion unrecorded.
OnlyFallbackSkipsHistory ==
    \A t \in TaskIds :
        tasks[t] # None /\ tasks[t].src = "completed"
            => \E h \in history : h.task = t /\ h.next = tasks[t].next

\* A task row that disappears is at that moment held by a client that can put it
\* back: deleteSelectedTasks reads and deletes in two statements, and between
\* them others may edit, move or delete the same row.
DeletionIsUndoable ==
    [][\A t \in TaskIds : tasks[t] # None /\ tasks'[t] = None
            => \E c \in Clients : undo'[c][t] # None]_vars

\* Whenever the undo button has something to restore, and its rows are not still
\* being collected, the ten-second timer that will withdraw it is running.
UndoArmed ==
    \A c \in Clients : undo[c] # NoRows /\ job[c].kind # "delete" => undoTimer[c]

\* What was deleted does not stay restorable for ever: the list is emptied by the
\* timer, by the next deletion or by the restore itself.
UndoExpires == \A c \in Clients : undo[c] # NoRows ~> undo[c] = NoRows

\* The assignee of the AGV a row belongs to, in the database.
AgvUser(row) == IF agvs[row.agv] = None THEN None ELSE agvs[row.agv].user

\* completeTaskNow says that only the user a task is assigned to can complete it:
\* at the moment a completion is recorded, the task is the performer's or nobody's.
AssigneeCompletes ==
    [][\A t \in TaskIds : \A h \in history' \ history :
            h.task = t /\ tasks[t] # None
                => EffectiveAssignee(tasks[t], AgvUser(tasks[t])) \in {None, h.by}]_vars

\* A viewer looks on without administrative actions: a step of a viewer's client
\* adds no task and removes none.
ViewersNeitherAddNorDelete ==
    [][\A c \in Clients : page'[c] # page[c] \/ job'[c] # job[c]
            => IsStaff(c) \/ Shown(tasks') = Shown(tasks)]_vars

\* A saved form that hands an existing task to a user notifies that user.
DelegationIsAnnounced ==
    [][\A t \in TaskIds :
            /\ tasks[t] # None /\ tasks'[t] # None
            /\ tasks'[t].src = "form" /\ tasks'[t].to \notin {None, tasks[t].to}
            => \E s \in sent' : s[1] = tasks'[t].to]_vars
=============================================================================
