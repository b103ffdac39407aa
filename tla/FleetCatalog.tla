---------------------------- MODULE FleetCatalog ----------------------------
(***************************************************************************)
(* The fleet and the catalogue of models, shared by the programs: rows of  *)
(* agv_list with their agv_tasks, models with their maintenance templates, *)
(* and the operations that insert, copy, delete, restore and rename them.  *)
(* No foreign key ties tasks to AGVs or a template to its model; only      *)
(* agv_id and the name of a model are unique.  An operation is a sequence  *)
(* of statements; some run in one transaction, at READ COMMITTED.          *)
(*                                                                         *)
(* The tasks that one copy of a template gives an AGV are one row, because *)
(* they are inserted, deleted and restored together, and a template is one *)
(* row for each time it was written.  History, dates and the fields of an  *)
(* AGV or a model are left out.  A statement that meets rows another       *)
(* transaction has deleted or changed waits until that one ends.           *)
(***************************************************************************)
EXTENDS Integers, FiniteSets

CONSTANTS
    Clients,
    Agvs,           \* values of agv_id
    Models,         \* names of models
    NoModel,
    MaxRows,        \* bound: rows ever inserted into agv_tasks and the template
    MaxClicks       \* bound: operations begun

ASSUME NoModelIsNone == NoModel \notin Models
ASSUME FiniteFleet == IsFiniteSet(Agvs)
ASSUME FleetBounds == MaxRows \in Nat \ {0} /\ MaxClicks \in Nat

Serials == 1 .. MaxRows
Row == [id: Serials, agv: Agvs]
Template == [id: Serials, model: Models]

VARIABLES
    agvs,           \* rows of agv_list
    tasks,          \* rows of agv_tasks
    models,         \* rows of agv_models
    template,       \* rows of model_maintenance_template
    serial,         \* next id of either
    op,             \* op[c]: the operation of c, and what it holds
    snapshot,       \* snapshot[c]: lastDeletedAgvs_ and lastDeletedTasks_
    toast,          \* toast[c]: the undo toast is shown
    removed,        \* removed[c]: what c's last deletion removed (observer)
    spoiled,        \* spoiled[c]: a later deletion of c has failed (observer)
    crossed,        \* AGVs that two operations handled at the same time (observer)
    loose,          \* models whose template two operations wrote at the same time, or one
                    \* wrote without the model (observer)
    clicks          \* operations begun (bound)

fleet == <<agvs, tasks>>
catalogue == <<models, template, loose>>
offer == <<snapshot, toast, removed, spoiled>>
vars == <<fleet, catalogue, offer, serial, op, crossed, clicks>>

\* agvs and tasks: what the dialog offers or the user selected, and the tasks whose
\* deletion has not been committed; old: the template rows deleted or renamed likewise;
\* waits: transactions whose rows this one met; model and name: the model of a page,
\* or one being deleted, and its new name; hit: the row of agv_models its UPDATE or
\* DELETE found.
Op == [at: {"idle", "copy", "choose", "tasks", "wipe", "drop", "commit",
            "page", "insert", "rows", "models", "scrap", "rename", "renamed"},
       agvs: SUBSET Agvs, tasks: SUBSET Row, old: SUBSET Template, waits: SUBSET Clients,
       model: Models \cup {NoModel}, name: Models \cup {NoModel}, hit: SUBSET Models]

Idle == [at |-> "idle", agvs |-> {}, tasks |-> {}, old |-> {}, waits |-> {},
         model |-> NoModel, name |-> NoModel, hit |-> {}]
Nothing == [agvs |-> {}, tasks |-> {}]

\* Some AGVs with the tasks of their model, and one model.
Init ==
    /\ agvs \in SUBSET Agvs /\ tasks = {[id |-> 1, agv |-> a] : a \in agvs}
    /\ \E m \in Models : models = {m} /\ template = {[id |-> 1, model |-> m]}
    /\ serial = 2 /\ loose = {}
    /\ op = [c \in Clients |-> Idle]
    /\ snapshot = [c \in Clients |-> Nothing]
    /\ removed = [c \in Clients |-> Nothing]
    /\ toast = [c \in Clients |-> FALSE]
    /\ spoiled = [c \in Clients |-> FALSE]
    /\ crossed = {}
    /\ clicks = 0

-----------------------------------------------------------------------------
\* Something is begun; by Begin(c), in a program that is doing nothing.
Again == clicks < MaxClicks /\ clicks' = clicks + 1
Begin(c) == op[c].at = "idle" /\ Again

\* The operation of c ends; a transaction that waited for it goes on.
Ended(c) == [d \in Clients |-> IF d = c THEN Idle ELSE [op[d] EXCEPT !.waits = @ \ {c}]]

\* It ends on the page of model m, where the user may go on.
BackOnPage(c, m) == [Ended(c) EXCEPT ![c].at = "page", ![c].model = m]

\* The transaction of c goes on to its next statement.
At(c, s) == op[c].at = s /\ op[c].waits = {}

\* The AGVs an operation of c is working on.
Busy(c) == IF op[c].at \in {"copy", "tasks", "wipe", "drop", "commit"} THEN op[c].agvs ELSE {}

\* c handles the AGVs of S now.
Handles(c, S) ==
    crossed' = crossed \cup {a \in S : \E d \in Clients \ {c} : a \in Busy(d)}

\* An INSERT of a into agv_list meets no row, deleted or not.
Vacant(a) == a \notin agvs /\ \A d \in Clients : ~(op[d].at = "commit" /\ a \in op[d].agvs)

-----------------------------------------------------------------------------
\* Adding an AGV: insertAgvToDb.
InsertAgv(c, a) ==
    /\ Begin(c) /\ Vacant(a)
    /\ agvs' = agvs \cup {a}
    /\ op' = [op EXCEPT ![c] = [Idle EXCEPT !.at = "copy", !.agvs = {a}]]
    /\ Handles(c, {a})
    /\ UNCHANGED <<tasks, catalogue, offer, serial>>

\* Mutant: the arguments are swapped, and the tasks go to the model's name.
CopyModelTasksToAgv_Swapped(c) ==
    /\ op[c].at = "copy"
    /\ \/ /\ template # {} /\ serial \in Serials
          /\ tasks' = tasks \cup {[id |-> serial, agv |-> "model"]}
          /\ serial' = serial + 1
       \/ UNCHANGED <<tasks, serial>>
    /\ op' = Ended(c)
    /\ Handles(c, op[c].agvs)
    /\ UNCHANGED <<agvs, catalogue, offer, clicks>>

\* copyModelTasksToAgv: one INSERT ... SELECT.  It copies nothing when it fails,
\* or when the rows of the template name the model in small letters.
CopyModelTasksToAgv(c) ==
    /\ op[c].at = "copy"
    /\ \/ /\ template # {} /\ serial \in Serials
          /\ tasks' = tasks \cup {[id |-> serial, agv |-> a] : a \in op[c].agvs}
          /\ serial' = serial + 1
       \/ UNCHANGED <<tasks, serial>>
    /\ op' = Ended(c)
    /\ Handles(c, op[c].agvs)
    /\ UNCHANGED <<agvs, catalogue, offer, clicks>>

\* The dialog that deletes AGVs reads the list.
OpenDeleteDialog(c) ==
    /\ Begin(c) /\ agvs # {}
    /\ op' = [op EXCEPT ![c] = [Idle EXCEPT !.at = "choose", !.agvs = agvs]]
    /\ UNCHANGED <<fleet, catalogue, offer, serial, crossed>>

Cancel(c) ==
    /\ op[c].at = "choose"
    /\ op' = Ended(c)
    /\ UNCHANGED <<fleet, catalogue, offer, serial, crossed, clicks>>

\* Mutant: the snapshot of an earlier deletion is kept.
LoadAgvSnapshot_Adds(c, S) ==
    /\ op[c].at = "choose" /\ S # {} /\ S \subseteq op[c].agvs
    /\ snapshot' = [snapshot EXCEPT ![c] = [agvs |-> @.agvs \cup (S \cap agvs), tasks |-> @.tasks]]
    /\ op' = [op EXCEPT ![c].at = "tasks", ![c].agvs = S]
    /\ Handles(c, S)
    /\ UNCHANGED <<fleet, catalogue, toast, removed, spoiled, serial, clicks>>

\* S is accepted: the snapshot is cleared and reads the AGVs.
LoadAgvSnapshot(c, S) ==
    /\ op[c].at = "choose" /\ S # {} /\ S \subseteq op[c].agvs
    /\ snapshot' = [snapshot EXCEPT ![c] = [agvs |-> S \cap agvs, tasks |-> {}]]
    /\ op' = [op EXCEPT ![c].at = "tasks", ![c].agvs = S]
    /\ Handles(c, S)
    /\ UNCHANGED <<fleet, catalogue, toast, removed, spoiled, serial, clicks>>

LoadTaskSnapshot(c) ==
    /\ op[c].at = "tasks"
    /\ snapshot' = [snapshot EXCEPT ![c].tasks = {r \in tasks : r.agv \in op[c].agvs}]
    /\ op' = [op EXCEPT ![c].at = "wipe"]
    /\ UNCHANGED <<fleet, catalogue, toast, removed, spoiled, serial, crossed, clicks>>

\* The transaction's DELETE of the tasks; it sees the rows there are now.
DeleteTasks(c) ==
    /\ op[c].at = "wipe"
    /\ LET found == {r \in tasks : r.agv \in op[c].agvs}
       IN  op' = [op EXCEPT ![c].at = "drop", ![c].tasks = found,
                            ![c].waits = {d \in Clients \ {c} : op[d].tasks \cap found # {}}]
    /\ Handles(c, op[c].agvs)
    /\ UNCHANGED <<fleet, catalogue, offer, serial, clicks>>

\* Its DELETE of the AGVs.
DeleteAgvs(c) ==
    /\ At(c, "drop")
    /\ op' = [op EXCEPT ![c].at = "commit", ![c].agvs = @ \cap agvs,
                        ![c].waits = {d \in Clients \ {c} : op[d].at = "commit"
                                                         /\ op[d].agvs \cap op[c].agvs \cap agvs # {}}]
    /\ Handles(c, op[c].agvs)
    /\ UNCHANGED <<fleet, catalogue, offer, serial, clicks>>

CommitDelete(c) ==
    /\ At(c, "commit")
    /\ removed' = [removed EXCEPT ![c] = [agvs |-> op[c].agvs \cap agvs,
                                          tasks |-> op[c].tasks \cap tasks]]
    /\ spoiled' = [spoiled EXCEPT ![c] = FALSE]
    /\ agvs' = agvs \ op[c].agvs
    /\ tasks' = tasks \ op[c].tasks
    /\ toast' = [toast EXCEPT ![c] = TRUE]
    /\ op' = Ended(c)
    /\ Handles(c, op[c].agvs)
    /\ UNCHANGED <<catalogue, snapshot, serial, clicks>>

\* A statement or the commit fails: a rollback, and a message.
DeleteFails(c) ==
    /\ op[c].at \in {"wipe", "drop", "commit"}
    /\ op' = Ended(c)
    /\ spoiled' = [spoiled EXCEPT ![c] = TRUE]
    /\ UNCHANGED <<fleet, catalogue, snapshot, toast, removed, serial, crossed, clicks>>

\* Mutant: the AGVs that exist are skipped and their tasks inserted again.
RestoreDeletedAgvs_Skips(c) ==
    /\ Begin(c) /\ toast[c] /\ snapshot[c].agvs # {}
    /\ serial + Cardinality(snapshot[c].tasks) <= MaxRows + 1
    /\ agvs' = agvs \cup snapshot[c].agvs
    /\ tasks' = tasks \cup {[r EXCEPT !.id = serial + Cardinality({q \in snapshot[c].tasks : q.id < r.id})]
                               : r \in snapshot[c].tasks}
    /\ serial' = serial + Cardinality(snapshot[c].tasks)
    /\ snapshot' = [snapshot EXCEPT ![c] = Nothing]
    /\ toast' = [toast EXCEPT ![c] = FALSE]
    /\ Handles(c, snapshot[c].agvs)
    /\ UNCHANGED <<catalogue, removed, spoiled, op>>

\* restoreDeletedAgvs commits: every AGV of the snapshot was vacant.  Otherwise, or
\* without a snapshot, nothing changes but the message.
RestoreDeletedAgvs(c) ==
    /\ Begin(c) /\ toast[c] /\ snapshot[c].agvs # {}
    /\ \A a \in snapshot[c].agvs : Vacant(a)
    /\ serial + Cardinality(snapshot[c].tasks) <= MaxRows + 1
    /\ agvs' = agvs \cup snapshot[c].agvs
    /\ tasks' = tasks \cup {[r EXCEPT !.id = serial + Cardinality({q \in snapshot[c].tasks : q.id < r.id})]
                               : r \in snapshot[c].tasks}
    /\ serial' = serial + Cardinality(snapshot[c].tasks)
    /\ snapshot' = [snapshot EXCEPT ![c] = Nothing]
    /\ toast' = [toast EXCEPT ![c] = FALSE]
    /\ Handles(c, snapshot[c].agvs)
    /\ UNCHANGED <<catalogue, removed, spoiled, op>>

\* The toast's timer, also while the dialog is open; or the window is resized, and
\* the list page is built anew.
ToastGone(c) ==
    /\ toast[c] /\ op[c].at \in {"idle", "choose", "page"}
    /\ toast' = [toast EXCEPT ![c] = FALSE]
    /\ snapshot' = [snapshot EXCEPT ![c] = Nothing]
    /\ UNCHANGED <<fleet, catalogue, removed, spoiled, serial, op, crossed, clicks>>

\* Saving the card of a under another id, in one transaction.  The AGV may be gone
\* since the card was opened: then its tasks, if there are any, are renamed alone.
RenameAgv(c, a, b) ==
    /\ Begin(c) /\ Vacant(b)
    /\ a \in agvs \/ \E r \in tasks : r.agv = a
    /\ \A d \in Clients : ~(op[d].at \in {"drop", "commit"} /\ a \in op[d].agvs)
    /\ agvs' = IF a \in agvs THEN (agvs \ {a}) \cup {b} ELSE agvs
    /\ tasks' = {IF r.agv = a THEN [r EXCEPT !.agv = b] ELSE r : r \in tasks}
    /\ crossed' = crossed \cup {x \in {a, b} : \E d \in Clients \ {c} : {a, b} \cap Busy(d) # {}}
                          \cup (IF {a, b} \cap crossed # {} THEN {a, b} ELSE {})
    /\ UNCHANGED <<catalogue, offer, serial, op>>

-----------------------------------------------------------------------------
\* The models a transaction of c, or an INSERT to come, is about.
Catalogues(c) ==
    IF op[c].at \in {"insert", "rows", "models", "scrap", "rename", "renamed"}
    THEN {op[c].model, op[c].name} \ {NoModel} ELSE {}

\* c writes the templates of the models M.
Writes(c, M) ==
    loose' = loose \cup {m \in M : m \notin models'}
                   \cup {m \in M : \E d \in Clients \ {c} : M \cap Catalogues(d) # {}}
                   \cup {m \in M : M \cap loose # {}}

Rows(m) == {r \in template : r.model = m}

\* The programs other than c whose transaction has deleted or renamed one of these rows.
Holding(c, R) == {d \in Clients \ {c} : op[d].old \cap R # {}}

\* An INSERT of m into agv_models, or an UPDATE to m, meets no row, deleted or not.
Unnamed(m) ==
    m \notin models /\ \A d \in Clients : op[d].hit = {} \/ m \notin Catalogues(d)

\* An UPDATE or DELETE of model m need not wait.
Unlocked(m) == \A d \in Clients : m \notin op[d].hit

\* showModelDetailsMode: a page of a model that the list showed.
OpenModel(c, m) ==
    /\ Begin(c) /\ m \in models
    /\ op' = [op EXCEPT ![c] = [Idle EXCEPT !.at = "page", !.model = m]]
    /\ UNCHANGED <<fleet, catalogue, offer, serial, crossed>>

\* Saving the template on that page: BEGIN, and the DELETE.
DeleteTemplate(c) ==
    LET found == Rows(op[c].model)
    IN  /\ op[c].at = "page" /\ Again
        /\ op' = [op EXCEPT ![c].at = "insert", ![c].old = found, ![c].waits = Holding(c, found)]
        /\ UNCHANGED <<fleet, catalogue, offer, serial, crossed>>

\* Mutant: the old rows stay.
InsertTemplate_Adds(c) ==
    /\ At(c, "insert") /\ serial \in Serials
    /\ template' = template \cup {[id |-> serial, model |-> op[c].model]}
    /\ serial' = serial + 1
    /\ UNCHANGED <<fleet, models, offer, crossed, clicks>>
    /\ Writes(c, {op[c].model})
    /\ op' = BackOnPage(c, op[c].model)

\* Its INSERTs and the commit; no row refers to agv_models.
InsertTemplate(c) ==
    /\ At(c, "insert") /\ serial \in Serials
    /\ template' = (template \ op[c].old) \cup {[id |-> serial, model |-> op[c].model]}
    /\ serial' = serial + 1
    /\ UNCHANGED <<fleet, models, offer, crossed, clicks>>
    /\ Writes(c, {op[c].model})
    /\ op' = BackOnPage(c, op[c].model)

\* Saving the model's fields under the name n: BEGIN, and the UPDATE of agv_models; it
\* is no error when the model is not there any more.
RenameModel(c, n) ==
    /\ op[c].at = "page" /\ Again /\ n # op[c].model
    /\ op[c].model \in models => Unnamed(n)
    /\ Unlocked(op[c].model)
    /\ op' = [op EXCEPT ![c].at = "rename", ![c].name = n, ![c].hit = {op[c].model} \cap models]
    /\ UNCHANGED <<fleet, catalogue, offer, serial, crossed>>

\* The UPDATE of the template.
RenameTemplate(c) ==
    LET found == Rows(op[c].model)
    IN  /\ op[c].at = "rename"
        /\ op' = [op EXCEPT ![c].at = "renamed", ![c].old = found, ![c].waits = Holding(c, found)]
        /\ UNCHANGED <<fleet, catalogue, offer, serial, crossed, clicks>>

\* Mutant: the template keeps the old name.
CommitRename_ModelOnly(c) ==
    LET m == op[c].model  n == op[c].name
    IN  /\ At(c, "renamed")
        /\ models' = {IF k \in op[c].hit THEN n ELSE k : k \in models}
        /\ UNCHANGED <<template, fleet, offer, serial, crossed, clicks>>
        /\ Writes(c, IF op[c].hit # {} THEN {n} ELSE {m, n})
        /\ op' = BackOnPage(c, n)

\* The commit; the page goes on under the new name, whether there was a model or not.
CommitRename(c) ==
    LET m == op[c].model  n == op[c].name
    IN  /\ At(c, "renamed")
        /\ models' = {IF k \in op[c].hit THEN n ELSE k : k \in models}
        /\ template' = {IF r \in op[c].old THEN [r EXCEPT !.model = n] ELSE r : r \in template}
        /\ UNCHANGED <<fleet, offer, serial, crossed, clicks>>
        /\ Writes(c, IF op[c].hit # {} /\ m \notin loose THEN {n} ELSE {m, n})
        /\ op' = BackOnPage(c, n)

\* A save fails and is rolled back.
SaveFails(c) ==
    /\ op[c].at \in {"insert", "rename", "renamed"}
    /\ op' = BackOnPage(c, op[c].model)
    /\ UNCHANGED <<fleet, catalogue, offer, serial, crossed, clicks>>

\* The back button.
LeaveModel(c) ==
    /\ op[c].at = "page"
    /\ op' = Ended(c)
    /\ UNCHANGED <<fleet, catalogue, offer, serial, crossed, clicks>>

\* showTemplateMode: insertModelToDb commits, the rows of the template follow.
InsertModel(c, m) ==
    /\ Begin(c) /\ Unnamed(m)
    /\ models' = models \cup {m}
    /\ op' = [op EXCEPT ![c] = [Idle EXCEPT !.at = "rows", !.model = m]]
    /\ UNCHANGED <<fleet, template, loose, offer, serial, crossed>>

\* A row that fails is only logged.
InsertModelRows(c) ==
    /\ op[c].at = "rows"
    /\ \/ /\ serial \in Serials
          /\ template' = template \cup {[id |-> serial, model |-> op[c].model]}
          /\ serial' = serial + 1
       \/ UNCHANGED <<template, serial>>
    /\ UNCHANGED <<fleet, models, offer, crossed, clicks>>
    /\ Writes(c, {op[c].model})
    /\ op' = Ended(c)

\* The dialog that deletes models: BEGIN, and the DELETE of the template.  The model may
\* be gone since the dialog read the list.
DeleteModelTemplate(c, m) ==
    /\ Begin(c) /\ (m \in models \/ Rows(m) # {})
    /\ op' = [op EXCEPT ![c] = [Idle EXCEPT !.at = "models", !.model = m, !.old = Rows(m),
                                   !.waits = Holding(c, Rows(m))]]
    /\ UNCHANGED <<fleet, catalogue, offer, serial, crossed>>

DeleteModel(c) ==
    /\ At(c, "models") /\ Unlocked(op[c].model)
    /\ op' = [op EXCEPT ![c].at = "scrap", ![c].hit = {op[c].model} \cap models]
    /\ UNCHANGED <<fleet, catalogue, offer, serial, crossed, clicks>>

CommitModel(c) ==
    LET m == op[c].model
    IN  /\ op[c].at = "scrap"
        /\ models' = models \ op[c].hit
        /\ template' = template \ op[c].old
        /\ loose' = IF Rows(m) \subseteq op[c].old THEN loose ELSE loose \cup {m}
        /\ op' = Ended(c)
        /\ UNCHANGED <<fleet, offer, serial, crossed, clicks>>

ModelFails(c) ==
    /\ op[c].at \in {"models", "scrap"}
    /\ op' = Ended(c)
    /\ UNCHANGED <<fleet, catalogue, offer, serial, crossed, clicks>>

Next == \E c \in Clients :
    \/ \E a \in Agvs : InsertAgv(c, a)
    \/ CopyModelTasksToAgv(c)
    \/ OpenDeleteDialog(c) \/ Cancel(c)
    \/ \E S \in SUBSET Agvs : LoadAgvSnapshot(c, S)
    \/ LoadTaskSnapshot(c) \/ DeleteTasks(c) \/ DeleteAgvs(c) \/ CommitDelete(c) \/ DeleteFails(c)
    \/ RestoreDeletedAgvs(c) \/ ToastGone(c)
    \/ \E a, b \in Agvs : RenameAgv(c, a, b)
    \/ \E m \in Models : OpenModel(c, m) \/ RenameModel(c, m) \/ InsertModel(c, m) \/ DeleteModelTemplate(c, m)
    \/ DeleteTemplate(c) \/ InsertTemplate(c) \/ RenameTemplate(c) \/ CommitRename(c)
    \/ SaveFails(c) \/ LeaveModel(c) \/ InsertModelRows(c)
    \/ DeleteModel(c) \/ CommitModel(c) \/ ModelFails(c)

Spec == Init /\ [][Next]_vars

-----------------------------------------------------------------------------
TypeOK ==
    /\ agvs \subseteq Agvs /\ tasks \subseteq Row
    /\ models \subseteq Models /\ template \subseteq Template
    /\ serial \in 1 .. MaxRows + 1
    /\ op \in [Clients -> Op]
    /\ snapshot \in [Clients -> [agvs: SUBSET Agvs, tasks: SUBSET Row]]
    /\ removed \in [Clients -> [agvs: SUBSET Agvs, tasks: SUBSET Row]]
    /\ toast \in [Clients -> BOOLEAN] /\ spoiled \in [Clients -> BOOLEAN]
    /\ crossed \subseteq Agvs /\ loose \subseteq Models
    /\ clicks \in 0 .. MaxClicks

\* Additions, batch deletions, undos and renamings by several programs leave every
\* AGV with at most one copy of its tasks, and no tasks without their AGV, as long
\* as no two of them handle that AGV at the same time: two undos of one AGV never
\* both put its tasks back.
OneCopyEach ==
    \A r \in tasks :
        r.agv \in crossed \/ (r.agv \in agvs /\ \A q \in tasks : q.agv = r.agv => q = r)

\* The undo on the screen brings back what the last deletion removed, the AGVs and
\* their tasks, unless another program handled such an AGV at the same time, or a
\* later deletion of this program failed.
UndoIsWhole ==
    \A c \in Clients :
        toast[c] /\ op[c].at = "idle" /\ ~spoiled[c] =>
            /\ snapshot[c].agvs \ crossed = removed[c].agvs \ crossed
            /\ \A r \in snapshot[c].tasks \cup removed[c].tasks :
                   r.agv \in crossed \/ r \in snapshot[c].tasks \cap removed[c].tasks

\* The template of a model is what one save wrote, under the name the model has now, and
\* it goes with its model, unless two programs wrote it or renamed the model at the same
\* time, or a page wrote it after the model had gone or had another name.
OneTemplate ==
    \A m \in Models \ loose : \A r \in Rows(m) : m \in models /\ \A q \in Rows(m) : q = r
=============================================================================
