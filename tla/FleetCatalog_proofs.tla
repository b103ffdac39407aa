------------------------ MODULE FleetCatalog_proofs ------------------------
(***************************************************************************)
(* Proofs about FleetCatalog for any number of programs, AGVs, models and  *)
(* rows: its types, and that the additions, deletions, undos and renamings *)
(* leave every AGV one copy of its tasks, and an undo that is whole.       *)
(***************************************************************************)
EXTENDS FleetCatalog, FunctionTheorems, FiniteSetTheorems, TLAPS

-----------------------------------------------------------------------------
(* Types.                                                                  *)

\* A program that is on the page of a model, or writes one, has the model's name, and a
\* renaming the new one.
Named(c) ==
    /\ op[c].at \in {"page", "insert", "rows", "models", "scrap", "rename", "renamed"}
          => op[c].model \in Models
    /\ op[c].at \in {"rename", "renamed"} => op[c].name \in Models

TypeInv == TypeOK /\ \A c \in Clients : Named(c)

\* An operation is the same but for the transactions it waits for.
SameOp(p, o) ==
    /\ p.at = o.at /\ p.agvs = o.agvs /\ p.tasks = o.tasks /\ p.old = o.old
    /\ p.model = o.model /\ p.name = o.name /\ p.hit = o.hit

\* A step of c leaves the operations of the others alone.
OthersKept(c) == \A d \in Clients \ {c} : SameOp(op'[d], op[d])

\* Afterwards the operation of c is at this step and holds these; nobody else's has changed.
Becomes(c, at, S, R, old, m, n, hit) ==
    /\ op' \in [Clients -> Op] /\ OthersKept(c)
    /\ op'[c].at = at /\ op'[c].agvs = S /\ op'[c].tasks = R /\ op'[c].old = old
    /\ op'[c].model = m /\ op'[c].name = n /\ op'[c].hit = hit

BecomesIdle(c) == Becomes(c, "idle", {}, {}, {}, NoModel, NoModel, {})
BackOn(c, m) == Becomes(c, "page", {}, {}, {}, m, NoModel, {})

\* An operation goes on as o.
LEMMA GoesOn ==
    ASSUME op \in [Clients -> Op], NEW c \in Clients, NEW o \in Op, op' = [op EXCEPT ![c] = o]
    PROVE  Becomes(c, o.at, o.agvs, o.tasks, o.old, o.model, o.name, o.hit)
BY DEF Becomes, OthersKept, SameOp

\* Ended ends the operation of c and no other.
LEMMA EndedFacts ==
    ASSUME op \in [Clients -> Op], NEW c \in Clients
    PROVE  /\ Ended(c) \in [Clients -> Op] /\ Ended(c)[c] = Idle /\ Idle \in Op
           /\ \A d \in Clients \ {c} : SameOp(Ended(c)[d], op[d])
<1>1. ASSUME NEW d \in Clients \ {c}
      PROVE  Ended(c)[d] \in Op /\ SameOp(Ended(c)[d], op[d])
  <2>1. Ended(c)[d] = [op[d] EXCEPT !.waits = @ \ {c}] /\ op[d] \in Op
    BY DEF Ended
  <2> QED
    BY <2>1 DEF Op, SameOp
<1>2. Ended(c)[c] = Idle
  BY DEF Ended
<1>3. Idle \in Op
  BY DEF Idle, Op
<1> QED
  BY <1>1, <1>2, <1>3 DEF Ended

\* So c is idle.
LEMMA Ends ==
    ASSUME op \in [Clients -> Op], NEW c \in Clients, op' = Ended(c)
    PROVE  BecomesIdle(c)
<1>1. /\ op' \in [Clients -> Op] /\ op'[c] = Idle
      /\ \A d \in Clients \ {c} : SameOp(op'[d], op[d])
  BY EndedFacts
<1> QED
  BY <1>1 DEF BecomesIdle, Becomes, OthersKept, Idle

\* BackOnPage likewise, but c is on the page of m again.
LEMMA GoesBack ==
    ASSUME op \in [Clients -> Op], NEW c \in Clients, NEW m \in Models, op' = BackOnPage(c, m)
    PROVE  BackOn(c, m)
<1> DEFINE o == [Idle EXCEPT !.at = "page", !.model = m]
<1>1. /\ Ended(c) \in [Clients -> Op] /\ Ended(c)[c] = Idle
      /\ \A d \in Clients \ {c} : SameOp(Ended(c)[d], op[d])
  BY EndedFacts
<1>2. o \in Op /\ o.at = "page" /\ o.agvs = {} /\ o.tasks = {} /\ o.old = {} /\ o.model = m
      /\ o.name = NoModel /\ o.hit = {}
  BY DEF Idle, Op
<1>3. op' = [Ended(c) EXCEPT ![c] = o]
  BY <1>1 DEF BackOnPage
<1> HIDE DEF o
<1>4. op' \in [Clients -> Op] /\ op'[c] = o /\ \A d \in Clients \ {c} : op'[d] = Ended(c)[d]
  BY <1>1, <1>2, <1>3
<1> QED
  BY <1>1, <1>2, <1>4 DEF BackOn, Becomes, OthersKept

\* The rows a program may hold are finitely many.
LEMMA RowsAreFinite == IsFiniteSet(Row)
<1> DEFINE f == [p \in Serials \X Agvs |-> [id |-> p[1], agv |-> p[2]]]
<1>1. IsFiniteSet(Serials)
  BY FS_Interval, FleetBounds DEF Serials
<1>2. IsFiniteSet(Serials \X Agvs)
  BY <1>1, FS_Product, FiniteFleet
<1>3. f \in Surjection(Serials \X Agvs, Row)
  <2>1. f \in [Serials \X Agvs -> Row]
    BY DEF Row
  <2>2. ASSUME NEW r \in Row PROVE \E p \in Serials \X Agvs : f[p] = r
    <3>1. <<r.id, r.agv>> \in Serials \X Agvs /\ r = [id |-> r.id, agv |-> r.agv]
      BY DEF Row
    <3>2. f[<<r.id, r.agv>>] = r
      BY <3>1
    <3> QED
      BY <3>1, <3>2
  <2> HIDE DEF f
  <2> QED
    BY <2>1, <2>2 DEF Surjection
<1> HIDE DEF f
<1> QED
  BY <1>2, <1>3, FS_Surjection

\* The new ids of the restored rows follow one another from the serial.
LEMMA RestoredIds ==
    ASSUME NEW S \in SUBSET Row, NEW r \in S
    PROVE  /\ Cardinality(S) \in Nat
           /\ Cardinality({q \in S : q.id < r.id}) \in 0 .. Cardinality(S) - 1
<1> DEFINE T == {q \in S : q.id < r.id}
<1>1. IsFiniteSet(S)
  BY RowsAreFinite, FS_Subset
<1>2. r.id \in Int /\ r \notin T /\ T \in SUBSET S
  BY FleetBounds DEF Row, Serials
<1>3. IsFiniteSet(T) /\ Cardinality(T) <= Cardinality(S) /\ (Cardinality(S) = Cardinality(T) => S = T)
  <2> HIDE DEF T
  <2> QED
    BY <1>1, <1>2, FS_Subset
<1>4. S # T
  BY <1>2
<1>5. Cardinality(S) \in Nat /\ Cardinality(T) \in Nat
  BY <1>1, <1>3, FS_CardinalityType
<1> HIDE DEF T
<1>6. Cardinality(T) \in 0 .. Cardinality(S) - 1
  BY <1>3, <1>4, <1>5
<1> QED
  BY <1>5, <1>6 DEF T

\* What c writes stays among the models.
LEMMA WritesType ==
    ASSUME TypeOK, NEW c \in Clients, NEW M \in SUBSET Models, Writes(c, M)
    PROVE  loose' \subseteq Models
BY DEF Writes, TypeOK

\* So does what it handles.
LEMMA HandlesType ==
    ASSUME TypeOK, NEW c \in Clients, NEW S \in SUBSET Agvs, Handles(c, S)
    PROVE  crossed' \subseteq Agvs /\ crossed \subseteq crossed'
           /\ \A a \in S \ crossed' : \A d \in Clients \ {c} : a \notin Busy(d)
BY DEF Handles, TypeOK

\* A deletion of AGVs and a save of a page keep what they do not set.
Onward(c, at, S, R) == Becomes(c, at, S, R, op[c].old, op[c].model, op[c].name, op[c].hit)
Saves(c, at, old, n, hit) == Becomes(c, at, op[c].agvs, op[c].tasks, old, op[c].model, n, hit)

\* What the operations on AGVs make of the program's own operation.
LEMMA FleetOps ==
    ASSUME TypeOK, NEW c \in Clients
    PROVE  /\ \A a \in Agvs :
                 InsertAgv(c, a) => Becomes(c, "copy", {a}, {}, {}, NoModel, NoModel, {})
           /\ CopyModelTasksToAgv(c) \/ Cancel(c) \/ CommitDelete(c) \/ DeleteFails(c) => BecomesIdle(c)
           /\ OpenDeleteDialog(c) => Becomes(c, "choose", agvs, {}, {}, NoModel, NoModel, {})
           /\ \A S \in SUBSET Agvs : LoadAgvSnapshot(c, S) => Onward(c, "tasks", S, op[c].tasks)
           /\ LoadTaskSnapshot(c) => Onward(c, "wipe", op[c].agvs, op[c].tasks)
           /\ DeleteTasks(c) => Onward(c, "drop", op[c].agvs, {r \in tasks : r.agv \in op[c].agvs})
           /\ DeleteAgvs(c) => Onward(c, "commit", op[c].agvs \cap agvs, op[c].tasks)
<1>0. op \in [Clients -> Op] /\ op[c] \in Op /\ agvs \in SUBSET Agvs /\ tasks \in SUBSET Row
  BY DEF TypeOK
<1>1. ASSUME NEW a \in Agvs, InsertAgv(c, a)
      PROVE  Becomes(c, "copy", {a}, {}, {}, NoModel, NoModel, {})
  <2> DEFINE o == [Idle EXCEPT !.at = "copy", !.agvs = {a}]
  <2>2. op' = [op EXCEPT ![c] = o]
    BY <1>1, <1>0 DEF InsertAgv
  <2>3. o \in Op /\ o.at = "copy" /\ o.agvs = {a} /\ o.tasks = {} /\ o.old = {}
        /\ o.model = NoModel /\ o.name = NoModel /\ o.hit = {}
    BY <1>0 DEF Op, Idle
  <2>4. op' = [op EXCEPT ![c] = o]
    BY <2>2
  <2> HIDE DEF o
  <2>5. Becomes(c, o.at, o.agvs, o.tasks, o.old, o.model, o.name, o.hit)
    BY <1>0, <2>3, <2>4, GoesOn
  <2> QED
    BY <2>3, <2>5
<1>2. ASSUME CopyModelTasksToAgv(c) \/ Cancel(c) \/ CommitDelete(c) \/ DeleteFails(c)
      PROVE  BecomesIdle(c)
  BY <1>0, <1>2, Ends DEF CopyModelTasksToAgv, Cancel, CommitDelete, DeleteFails
<1>3. ASSUME OpenDeleteDialog(c)
      PROVE  Becomes(c, "choose", agvs, {}, {}, NoModel, NoModel, {})
  <2> DEFINE o == [Idle EXCEPT !.at = "choose", !.agvs = agvs]
  <2>2. op' = [op EXCEPT ![c] = o]
    BY <1>3, <1>0 DEF OpenDeleteDialog
  <2>3. o \in Op /\ o.at = "choose" /\ o.agvs = agvs /\ o.tasks = {} /\ o.old = {}
        /\ o.model = NoModel /\ o.name = NoModel /\ o.hit = {}
    BY <1>0 DEF Op, Idle
  <2>4. op' = [op EXCEPT ![c] = o]
    BY <2>2
  <2> HIDE DEF o
  <2>5. Becomes(c, o.at, o.agvs, o.tasks, o.old, o.model, o.name, o.hit)
    BY <1>0, <2>3, <2>4, GoesOn
  <2> QED
    BY <2>3, <2>5
<1>4. ASSUME NEW S \in SUBSET Agvs, LoadAgvSnapshot(c, S)
      PROVE  Onward(c, "tasks", S, op[c].tasks)
  <2> DEFINE o == [op[c] EXCEPT !.at = "tasks", !.agvs = S]
  <2>2. op' = [op EXCEPT ![c].at = "tasks", ![c].agvs = S]
    BY <1>4, <1>0 DEF LoadAgvSnapshot
  <2>3. o \in Op /\ o.at = "tasks" /\ o.agvs = S /\ o.tasks = op[c].tasks /\ o.old = op[c].old
        /\ o.model = op[c].model /\ o.name = op[c].name /\ o.hit = op[c].hit
    BY <1>0 DEF Op, Idle
  <2>4. op' = [op EXCEPT ![c] = o]
    BY <1>0, <2>2 DEF Op
  <2> HIDE DEF o
  <2>5. Becomes(c, o.at, o.agvs, o.tasks, o.old, o.model, o.name, o.hit)
    BY <1>0, <2>3, <2>4, GoesOn
  <2> QED
    BY <2>3, <2>5 DEF Onward
<1>5. ASSUME LoadTaskSnapshot(c)
      PROVE  Onward(c, "wipe", op[c].agvs, op[c].tasks)
  <2> DEFINE o == [op[c] EXCEPT !.at = "wipe"]
  <2>2. op' = [op EXCEPT ![c].at = "wipe"]
    BY <1>5, <1>0 DEF LoadTaskSnapshot
  <2>3. o \in Op /\ o.at = "wipe" /\ o.agvs = op[c].agvs /\ o.tasks = op[c].tasks /\ o.old = op[c].old
        /\ o.model = op[c].model /\ o.name = op[c].name /\ o.hit = op[c].hit
    BY <1>0 DEF Op, Idle
  <2>4. op' = [op EXCEPT ![c] = o]
    BY <1>0, <2>2 DEF Op
  <2> HIDE DEF o
  <2>5. Becomes(c, o.at, o.agvs, o.tasks, o.old, o.model, o.name, o.hit)
    BY <1>0, <2>3, <2>4, GoesOn
  <2> QED
    BY <2>3, <2>5 DEF Onward
<1>6. ASSUME DeleteTasks(c)
      PROVE  Onward(c, "drop", op[c].agvs, {r \in tasks : r.agv \in op[c].agvs})
  <2> DEFINE found == {r \in tasks : r.agv \in op[c].agvs}
             W == {d \in Clients \ {c} : op[d].tasks \cap found # {}}
             o == [op[c] EXCEPT !.at = "drop", !.tasks = found, !.waits = W]
  <2>1. W \in SUBSET Clients /\ found \in SUBSET Row
    BY <1>0
  <2>2. op' = [op EXCEPT ![c].at = "drop", ![c].tasks = found, ![c].waits = W]
    BY <1>6, <1>0 DEF DeleteTasks
  <2> HIDE DEF found, W
  <2>3. o \in Op /\ o.at = "drop" /\ o.agvs = op[c].agvs /\ o.tasks = found /\ o.old = op[c].old
        /\ o.model = op[c].model /\ o.name = op[c].name /\ o.hit = op[c].hit
    BY <2>1, <1>0 DEF Op, Idle
  <2>4. op' = [op EXCEPT ![c] = o]
    BY <1>0, <2>2 DEF Op
  <2> HIDE DEF o
  <2>5. Becomes(c, o.at, o.agvs, o.tasks, o.old, o.model, o.name, o.hit)
    BY <1>0, <2>3, <2>4, GoesOn
  <2> QED
    BY <2>3, <2>5 DEF Onward, found
<1>7. ASSUME DeleteAgvs(c)
      PROVE  Onward(c, "commit", op[c].agvs \cap agvs, op[c].tasks)
  <2> DEFINE W == {d \in Clients \ {c} : op[d].at = "commit" /\ op[d].agvs \cap op[c].agvs \cap agvs # {}}
             o == [op[c] EXCEPT !.at = "commit", !.agvs = @ \cap agvs, !.waits = W]
  <2>1. W \in SUBSET Clients
    OBVIOUS
  <2>2. op' = [op EXCEPT ![c].at = "commit", ![c].agvs = @ \cap agvs, ![c].waits = W]
    BY <1>7, <1>0 DEF DeleteAgvs
  <2> HIDE DEF W
  <2>3. o \in Op /\ o.at = "commit" /\ o.agvs = op[c].agvs \cap agvs /\ o.tasks = op[c].tasks
        /\ o.old = op[c].old
        /\ o.model = op[c].model /\ o.name = op[c].name /\ o.hit = op[c].hit
    BY <2>1, <1>0 DEF Op, Idle
  <2>4. op' = [op EXCEPT ![c] = o]
    BY <1>0, <2>2 DEF Op
  <2> HIDE DEF o
  <2>5. Becomes(c, o.at, o.agvs, o.tasks, o.old, o.model, o.name, o.hit)
    BY <1>0, <2>3, <2>4, GoesOn
  <2> QED
    BY <2>3, <2>5 DEF Onward
<1> QED
  BY <1>1, <1>2, <1>3, <1>4, <1>5, <1>6, <1>7

\* What the operations on models make of it.
LEMMA CatalogueOps ==
    ASSUME TypeInv, NEW c \in Clients
    PROVE  /\ \A m \in Models :
                 /\ OpenModel(c, m) => BackOn(c, m)
                 /\ InsertModel(c, m) => Becomes(c, "rows", {}, {}, {}, m, NoModel, {})
                 /\ RenameModel(c, m) => Saves(c, "rename", op[c].old, m, {op[c].model} \cap models)
                 /\ DeleteModelTemplate(c, m) => Becomes(c, "models", {}, {}, Rows(m), m, NoModel, {})
           /\ DeleteTemplate(c) => Saves(c, "insert", Rows(op[c].model), op[c].name, op[c].hit)
           /\ RenameTemplate(c) => Saves(c, "renamed", Rows(op[c].model), op[c].name, op[c].hit)
           /\ DeleteModel(c) => Saves(c, "scrap", op[c].old, op[c].name, {op[c].model} \cap models)
           /\ InsertTemplate(c) \/ SaveFails(c) => BackOn(c, op[c].model)
           /\ CommitRename(c) => BackOn(c, op[c].name)
           /\ LeaveModel(c) \/ InsertModelRows(c) \/ CommitModel(c) \/ ModelFails(c) => BecomesIdle(c)
<1>0. op \in [Clients -> Op] /\ op[c] \in Op /\ models \in SUBSET Models /\ Named(c)
  BY DEF TypeInv, TypeOK
<1>a. \A R : Holding(c, R) \in SUBSET Clients
  BY DEF Holding
<1>b. \A m : Rows(m) \in SUBSET Template
  BY DEF Rows, TypeInv, TypeOK
<1>1. ASSUME NEW m \in Models, OpenModel(c, m)
      PROVE  BackOn(c, m)
  <2> DEFINE o == [Idle EXCEPT !.at = "page", !.model = m]
  <2>2. op' = [op EXCEPT ![c] = o]
    BY <1>1, <1>0 DEF OpenModel
  <2>3. o \in Op /\ o.at = "page" /\ o.agvs = {} /\ o.tasks = {} /\ o.old = {}
        /\ o.model = m /\ o.name = NoModel /\ o.hit = {}
    BY <1>0 DEF Op, Idle
  <2>4. op' = [op EXCEPT ![c] = o]
    BY <2>2
  <2> HIDE DEF o
  <2>5. Becomes(c, o.at, o.agvs, o.tasks, o.old, o.model, o.name, o.hit)
    BY <1>0, <2>3, <2>4, GoesOn
  <2> QED
    BY <2>3, <2>5 DEF BackOn
<1>2. ASSUME NEW m \in Models, InsertModel(c, m)
      PROVE  Becomes(c, "rows", {}, {}, {}, m, NoModel, {})
  <2> DEFINE o == [Idle EXCEPT !.at = "rows", !.model = m]
  <2>2. op' = [op EXCEPT ![c] = o]
    BY <1>2, <1>0 DEF InsertModel
  <2>3. o \in Op /\ o.at = "rows" /\ o.agvs = {} /\ o.tasks = {} /\ o.old = {}
        /\ o.model = m /\ o.name = NoModel /\ o.hit = {}
    BY <1>0 DEF Op, Idle
  <2>4. op' = [op EXCEPT ![c] = o]
    BY <2>2
  <2> HIDE DEF o
  <2>5. Becomes(c, o.at, o.agvs, o.tasks, o.old, o.model, o.name, o.hit)
    BY <1>0, <2>3, <2>4, GoesOn
  <2> QED
    BY <2>3, <2>5
<1>3. ASSUME NEW m \in Models, RenameModel(c, m)
      PROVE  Saves(c, "rename", op[c].old, m, {op[c].model} \cap models)
  <2> DEFINE H == {op[c].model} \cap models
             o == [op[c] EXCEPT !.at = "rename", !.name = m, !.hit = H]
  <2>1. H \in SUBSET Models
    BY <1>0
  <2>2. op' = [op EXCEPT ![c].at = "rename", ![c].name = m, ![c].hit = H]
    BY <1>3, <1>0 DEF RenameModel
  <2> HIDE DEF H
  <2>3. o \in Op /\ o.at = "rename" /\ o.agvs = op[c].agvs /\ o.tasks = op[c].tasks /\ o.old = op[c].old
        /\ o.model = op[c].model /\ o.name = m /\ o.hit = H
    BY <2>1, <1>0 DEF Op, Idle
  <2>4. op' = [op EXCEPT ![c] = o]
    BY <1>0, <2>2 DEF Op
  <2> HIDE DEF o
  <2>5. Becomes(c, o.at, o.agvs, o.tasks, o.old, o.model, o.name, o.hit)
    BY <1>0, <2>3, <2>4, GoesOn
  <2> QED
    BY <2>3, <2>5 DEF Saves, H
<1>4. ASSUME NEW m \in Models, DeleteModelTemplate(c, m)
      PROVE  Becomes(c, "models", {}, {}, Rows(m), m, NoModel, {})
  <2> DEFINE W == Holding(c, Rows(m))
             o == [Idle EXCEPT !.at = "models", !.model = m, !.old = Rows(m), !.waits = W]
  <2>1. W \in SUBSET Clients
    BY <1>a
  <2>2. op' = [op EXCEPT ![c] = o]
    BY <1>4, <1>0 DEF DeleteModelTemplate
  <2> HIDE DEF W
  <2>3. o \in Op /\ o.at = "models" /\ o.agvs = {} /\ o.tasks = {} /\ o.old = Rows(m)
        /\ o.model = m /\ o.name = NoModel /\ o.hit = {}
    BY <2>1, <1>0, <1>b DEF Op, Idle
  <2>4. op' = [op EXCEPT ![c] = o]
    BY <2>2
  <2> HIDE DEF o
  <2>5. Becomes(c, o.at, o.agvs, o.tasks, o.old, o.model, o.name, o.hit)
    BY <1>0, <2>3, <2>4, GoesOn
  <2> QED
    BY <2>3, <2>5
<1>5. ASSUME DeleteTemplate(c)
      PROVE  Saves(c, "insert", Rows(op[c].model), op[c].name, op[c].hit)
  <2> DEFINE found == Rows(op[c].model)
             W == Holding(c, found)
             o == [op[c] EXCEPT !.at = "insert", !.old = found, !.waits = W]
  <2>1. W \in SUBSET Clients /\ found \in SUBSET Template
    BY <1>a, <1>b
  <2>2. op' = [op EXCEPT ![c].at = "insert", ![c].old = found, ![c].waits = W]
    BY <1>5, <1>0 DEF DeleteTemplate
  <2> HIDE DEF found, W
  <2>3. o \in Op /\ o.at = "insert" /\ o.agvs = op[c].agvs /\ o.tasks = op[c].tasks /\ o.old = found
        /\ o.model = op[c].model /\ o.name = op[c].name /\ o.hit = op[c].hit
    BY <2>1, <1>0, <1>b DEF Op, Idle
  <2>4. op' = [op EXCEPT ![c] = o]
    BY <1>0, <2>2 DEF Op
  <2> HIDE DEF o
  <2>5. Becomes(c, o.at, o.agvs, o.tasks, o.old, o.model, o.name, o.hit)
    BY <1>0, <2>3, <2>4, GoesOn
  <2> QED
    BY <2>3, <2>5 DEF Saves, found
<1>6. ASSUME RenameTemplate(c)
      PROVE  Saves(c, "renamed", Rows(op[c].model), op[c].name, op[c].hit)
  <2> DEFINE found == Rows(op[c].model)
             W == Holding(c, found)
             o == [op[c] EXCEPT !.at = "renamed", !.old = found, !.waits = W]
  <2>1. W \in SUBSET Clients /\ found \in SUBSET Template
    BY <1>a, <1>b
  <2>2. op' = [op EXCEPT ![c].at = "renamed", ![c].old = found, ![c].waits = W]
    BY <1>6, <1>0 DEF RenameTemplate
  <2> HIDE DEF found, W
  <2>3. o \in Op /\ o.at = "renamed" /\ o.agvs = op[c].agvs /\ o.tasks = op[c].tasks /\ o.old = found
        /\ o.model = op[c].model /\ o.name = op[c].name /\ o.hit = op[c].hit
    BY <2>1, <1>0, <1>b DEF Op, Idle
  <2>4. op' = [op EXCEPT ![c] = o]
    BY <1>0, <2>2 DEF Op
  <2> HIDE DEF o
  <2>5. Becomes(c, o.at, o.agvs, o.tasks, o.old, o.model, o.name, o.hit)
    BY <1>0, <2>3, <2>4, GoesOn
  <2> QED
    BY <2>3, <2>5 DEF Saves, found
<1>7. ASSUME DeleteModel(c)
      PROVE  Saves(c, "scrap", op[c].old, op[c].name, {op[c].model} \cap models)
  <2> DEFINE H == {op[c].model} \cap models
             o == [op[c] EXCEPT !.at = "scrap", !.hit = H]
  <2>1. H \in SUBSET Models
    BY <1>0
  <2>2. op' = [op EXCEPT ![c].at = "scrap", ![c].hit = H]
    BY <1>7, <1>0 DEF DeleteModel
  <2> HIDE DEF H
  <2>3. o \in Op /\ o.at = "scrap" /\ o.agvs = op[c].agvs /\ o.tasks = op[c].tasks /\ o.old = op[c].old
        /\ o.model = op[c].model /\ o.name = op[c].name /\ o.hit = H
    BY <2>1, <1>0 DEF Op, Idle
  <2>4. op' = [op EXCEPT ![c] = o]
    BY <1>0, <2>2 DEF Op
  <2> HIDE DEF o
  <2>5. Becomes(c, o.at, o.agvs, o.tasks, o.old, o.model, o.name, o.hit)
    BY <1>0, <2>3, <2>4, GoesOn
  <2> QED
    BY <2>3, <2>5 DEF Saves, H
<1>8. ASSUME InsertTemplate(c) \/ SaveFails(c)
      PROVE  BackOn(c, op[c].model)
  <2>1. op[c].model \in Models /\ op' = BackOnPage(c, op[c].model)
    BY <1>0, <1>8 DEF InsertTemplate, SaveFails, At, Named
  <2> QED
    BY <1>0, <2>1, GoesBack
<1>9. ASSUME CommitRename(c)
      PROVE  BackOn(c, op[c].name)
  <2>1. op[c].name \in Models /\ op' = BackOnPage(c, op[c].name)
    BY <1>0, <1>9 DEF CommitRename, At, Named
  <2> QED
    BY <1>0, <2>1, GoesBack
<1>10. ASSUME LeaveModel(c) \/ InsertModelRows(c) \/ CommitModel(c) \/ ModelFails(c)
      PROVE  BecomesIdle(c)
  BY <1>0, <1>10, Ends DEF LeaveModel, InsertModelRows, CommitModel, ModelFails
<1> QED
  BY <1>1, <1>2, <1>3, <1>4, <1>5, <1>6, <1>7, <1>8, <1>9, <1>10

\* The others keep the names they have.
LEMMA NamedKept ==
    ASSUME TypeInv, NEW c \in Clients, NEW at, NEW S, NEW R, NEW old, NEW m, NEW n, NEW hit,
           Becomes(c, at, S, R, old, m, n, hit),
           at \in {"page", "insert", "rows", "models", "scrap", "rename", "renamed"} => m \in Models,
           at \in {"rename", "renamed"} => n \in Models
    PROVE  op' \in [Clients -> Op] /\ \A d \in Clients : Named(d)'
<1>1. ASSUME NEW d \in Clients \ {c} PROVE Named(d)'
  BY <1>1 DEF TypeInv, Named, Becomes, OthersKept, SameOp
<1>2. Named(c)'
  BY DEF Named, Becomes
<1> QED
  BY <1>1, <1>2 DEF Becomes

\* The types hold at the start.
LEMMA InitType == Init => TypeInv
<1> SUFFICES ASSUME Init PROVE TypeInv
  OBVIOUS
<1>1. op \in [Clients -> Op] /\ \A c \in Clients : Named(c)
  BY DEF Init, Named, Idle, Op
<1>2. tasks \subseteq Row /\ template \subseteq Template /\ serial \in 1 .. MaxRows + 1
  BY FleetBounds DEF Init, Row, Template, Serials
<1> QED
  BY <1>1, <1>2, FleetBounds DEF Init, TypeInv, TypeOK, Nothing

\* Every operation on AGVs keeps the types.
LEMMA FleetType ==
    ASSUME TypeInv, NEW c \in Clients,
           \/ \E a \in Agvs : InsertAgv(c, a)
           \/ CopyModelTasksToAgv(c) \/ OpenDeleteDialog(c) \/ Cancel(c)
           \/ \E S \in SUBSET Agvs : LoadAgvSnapshot(c, S)
           \/ LoadTaskSnapshot(c) \/ DeleteTasks(c) \/ DeleteAgvs(c) \/ CommitDelete(c) \/ DeleteFails(c)
           \/ RestoreDeletedAgvs(c) \/ ToastGone(c)
           \/ \E a, b \in Agvs : RenameAgv(c, a, b)
    PROVE  TypeInv'
<1> USE DEF TypeInv
<1>0. /\ TypeOK /\ op[c] \in Op /\ op[c].agvs \in SUBSET Agvs /\ op[c].tasks \in SUBSET Row
      /\ {snapshot[c], Nothing} \subseteq [agvs: SUBSET Agvs, tasks: SUBSET Row]
      /\ MaxRows \in Nat /\ MaxClicks \in Nat
  BY FleetBounds DEF TypeOK, Op, Nothing
<1>1. ASSUME NEW a \in Agvs, InsertAgv(c, a) PROVE TypeInv'
  <2>1. op' \in [Clients -> Op] /\ \A d \in Clients : Named(d)'
    <3>1. Becomes(c, "copy", {a}, {}, {}, NoModel, NoModel, {})
      BY <1>0, <1>1, FleetOps
    <3> QED
      BY <3>1, NamedKept
  <2>2. crossed' \subseteq Agvs
    BY <1>0, <1>1, HandlesType DEF InsertAgv
  <2>3. /\ agvs' = agvs \cup {a} /\ Again
        /\ UNCHANGED <<tasks, models, template, loose, snapshot, toast, removed, spoiled, serial>>
    BY <1>1 DEF InsertAgv, Begin, catalogue, offer
  <2> QED
    BY <1>0, <2>1, <2>2, <2>3 DEF TypeOK, Again
<1>2. ASSUME CopyModelTasksToAgv(c) PROVE TypeInv'
  <2>1. op' \in [Clients -> Op] /\ \A d \in Clients : Named(d)'
    BY <1>0, <1>2, FleetOps, NamedKept DEF BecomesIdle, Onward
  <2>2. crossed' \subseteq Agvs
    BY <1>0, <1>2, HandlesType DEF CopyModelTasksToAgv
  <2>3. tasks' \subseteq Row /\ serial' \in 1 .. MaxRows + 1
    BY <1>0, <1>2 DEF CopyModelTasksToAgv, TypeOK, Row, Serials
  <2> QED
    BY <1>0, <1>2, <2>1, <2>2, <2>3 DEF CopyModelTasksToAgv, TypeOK, catalogue, offer
<1>3. ASSUME OpenDeleteDialog(c) PROVE TypeInv'
  <2>1. op' \in [Clients -> Op] /\ \A d \in Clients : Named(d)'
    BY <1>0, <1>3, FleetOps, NamedKept DEF BecomesIdle, Onward
  <2> QED
    BY <1>0, <1>3, <2>1 DEF OpenDeleteDialog, Begin, Again, TypeOK, fleet, catalogue, offer
<1>4. ASSUME Cancel(c) PROVE TypeInv'
  <2>1. op' \in [Clients -> Op] /\ \A d \in Clients : Named(d)'
    BY <1>0, <1>4, FleetOps, NamedKept DEF BecomesIdle, Onward
  <2> QED
    BY <1>0, <1>4, <2>1 DEF Cancel, TypeOK, fleet, catalogue, offer
<1>5. ASSUME NEW S \in SUBSET Agvs, LoadAgvSnapshot(c, S) PROVE TypeInv'
  <2>1. op' \in [Clients -> Op] /\ \A d \in Clients : Named(d)'
    BY <1>0, <1>5, FleetOps, NamedKept DEF Onward
  <2>2. crossed' \subseteq Agvs
    BY <1>0, <1>5, HandlesType DEF LoadAgvSnapshot
  <2>3. snapshot' \in [Clients -> [agvs: SUBSET Agvs, tasks: SUBSET Row]]
    BY <1>0, <1>5 DEF LoadAgvSnapshot, TypeOK
  <2> QED
    BY <1>0, <1>5, <2>1, <2>2, <2>3 DEF LoadAgvSnapshot, TypeOK, fleet, catalogue
<1>6. ASSUME LoadTaskSnapshot(c) PROVE TypeInv'
  <2>1. op' \in [Clients -> Op] /\ \A d \in Clients : Named(d)'
    BY <1>0, <1>6, FleetOps, NamedKept DEF Onward
  <2>3. snapshot' \in [Clients -> [agvs: SUBSET Agvs, tasks: SUBSET Row]]
    <3>1. {r \in tasks : r.agv \in op[c].agvs} \in SUBSET Row
      BY <1>0 DEF TypeOK
    <3> QED
      BY <1>0, <1>6, <3>1 DEF LoadTaskSnapshot, TypeOK
  <2> QED
    BY <1>0, <1>6, <2>1, <2>3 DEF LoadTaskSnapshot, TypeOK, fleet, catalogue
<1>7. ASSUME DeleteTasks(c) PROVE TypeInv'
  <2>1. op' \in [Clients -> Op] /\ \A d \in Clients : Named(d)'
    <3>1. Onward(c, "drop", op[c].agvs, {r \in tasks : r.agv \in op[c].agvs})
      BY <1>0, <1>7, FleetOps
    <3> QED
      BY <3>1, NamedKept DEF Onward
  <2>2. crossed' \subseteq Agvs
    BY <1>0, <1>7, HandlesType DEF DeleteTasks
  <2> QED
    BY <1>0, <1>7, <2>1, <2>2 DEF DeleteTasks, TypeOK, fleet, catalogue, offer
<1>8. ASSUME DeleteAgvs(c) PROVE TypeInv'
  <2>1. op' \in [Clients -> Op] /\ \A d \in Clients : Named(d)'
    <3>1. Onward(c, "commit", op[c].agvs \cap agvs, op[c].tasks)
      BY <1>0, <1>8, FleetOps
    <3> QED
      BY <3>1, NamedKept DEF Onward
  <2>2. crossed' \subseteq Agvs
    BY <1>0, <1>8, HandlesType DEF DeleteAgvs
  <2> QED
    BY <1>0, <1>8, <2>1, <2>2 DEF DeleteAgvs, TypeOK, fleet, catalogue, offer
<1>9. ASSUME CommitDelete(c) PROVE TypeInv'
  <2>1. op' \in [Clients -> Op] /\ \A d \in Clients : Named(d)'
    BY <1>0, <1>9, FleetOps, NamedKept DEF BecomesIdle, Onward
  <2>2. crossed' \subseteq Agvs
    BY <1>0, <1>9, HandlesType DEF CommitDelete
  <2>3. /\ removed' \in [Clients -> [agvs: SUBSET Agvs, tasks: SUBSET Row]]
        /\ spoiled' \in [Clients -> BOOLEAN] /\ toast' \in [Clients -> BOOLEAN]
    BY <1>0, <1>9 DEF CommitDelete, TypeOK
  <2> QED
    BY <1>0, <1>9, <2>1, <2>2, <2>3 DEF CommitDelete, TypeOK, catalogue
<1>10. ASSUME DeleteFails(c) PROVE TypeInv'
  <2>1. op' \in [Clients -> Op] /\ \A d \in Clients : Named(d)'
    BY <1>0, <1>10, FleetOps, NamedKept DEF BecomesIdle, Onward
  <2> QED
    BY <1>0, <1>10, <2>1 DEF DeleteFails, TypeOK, fleet, catalogue
<1>11. ASSUME RestoreDeletedAgvs(c) PROVE TypeInv'
  <2> DEFINE S == snapshot[c].tasks
  <2>1. S \in SUBSET Row /\ snapshot[c].agvs \in SUBSET Agvs /\ serial \in Nat \ {0}
    BY <1>0 DEF TypeOK
  <2>2. crossed' \subseteq Agvs
    BY <1>0, <1>11, <2>1, HandlesType DEF RestoreDeletedAgvs
  <2>3. Cardinality(S) \in Nat
    <3>1. IsFiniteSet(S)
      BY <2>1, RowsAreFinite, FS_Subset
    <3> QED
      BY <3>1, FS_CardinalityType
  <2>4. serial' \in 1 .. MaxRows + 1 /\ serial + Cardinality(S) <= MaxRows + 1
    BY <1>0, <1>11, <2>1, <2>3 DEF RestoreDeletedAgvs
  <2>5. ASSUME NEW r \in S
        PROVE  [r EXCEPT !.id = serial + Cardinality({q \in S : q.id < r.id})] \in Row
    <3>1. Cardinality({q \in S : q.id < r.id}) \in 0 .. Cardinality(S) - 1
      BY <2>1, RestoredIds
    <3>2. serial + Cardinality({q \in S : q.id < r.id}) \in Serials
      BY <1>0, <2>1, <2>3, <2>4, <3>1 DEF Serials
    <3> QED
      BY <2>1, <3>2 DEF Row
  <2>6. tasks' \subseteq Row
    BY <1>0, <1>11, <2>5 DEF RestoreDeletedAgvs, TypeOK
  <2>7. /\ snapshot' \in [Clients -> [agvs: SUBSET Agvs, tasks: SUBSET Row]]
        /\ toast' \in [Clients -> BOOLEAN] /\ agvs' \subseteq Agvs
        /\ clicks' \in 0 .. MaxClicks
    BY <1>0, <1>11 DEF RestoreDeletedAgvs, Begin, Again, TypeOK
  <2>8. \A d \in Clients : Named(d)'
    BY <1>11 DEF RestoreDeletedAgvs, Named
  <2> QED
    BY <1>0, <1>11, <2>2, <2>4, <2>6, <2>7, <2>8 DEF RestoreDeletedAgvs, TypeOK, catalogue
<1>12. ASSUME ToastGone(c) PROVE TypeInv'
  <2>1. \A d \in Clients : Named(d)'
    BY <1>12 DEF ToastGone, Named
  <2> QED
    BY <1>0, <1>12, <2>1 DEF ToastGone, TypeOK, fleet, catalogue
<1>13. ASSUME NEW a \in Agvs, NEW b \in Agvs, RenameAgv(c, a, b) PROVE TypeInv'
  <2>1. \A d \in Clients : Named(d)'
    BY <1>13 DEF RenameAgv, Named
  <2>2. tasks' \subseteq Row
    BY <1>0, <1>13 DEF RenameAgv, TypeOK, Row
  <2>3. agvs' \subseteq Agvs /\ crossed' \subseteq Agvs
    BY <1>0, <1>13 DEF RenameAgv, TypeOK
  <2> QED
    BY <1>0, <1>13, <2>1, <2>2, <2>3 DEF RenameAgv, Begin, Again, TypeOK, catalogue, offer
<1> QED
  BY <1>1, <1>2, <1>3, <1>4, <1>5, <1>6, <1>7, <1>8, <1>9, <1>10, <1>11, <1>12, <1>13

\* Every operation on models keeps the types.
LEMMA CatalogueType ==
    ASSUME TypeInv, NEW c \in Clients,
           \/ \E m \in Models : OpenModel(c, m) \/ RenameModel(c, m) \/ InsertModel(c, m)
                                \/ DeleteModelTemplate(c, m)
           \/ DeleteTemplate(c) \/ InsertTemplate(c) \/ RenameTemplate(c) \/ CommitRename(c)
           \/ SaveFails(c) \/ LeaveModel(c) \/ InsertModelRows(c)
           \/ DeleteModel(c) \/ CommitModel(c) \/ ModelFails(c)
    PROVE  TypeInv'
<1>0. /\ TypeOK /\ op[c] \in Op /\ Named(c) /\ serial \in Nat \ {0}
      /\ MaxRows \in Nat /\ MaxClicks \in Nat
  BY FleetBounds DEF TypeInv, TypeOK
<1>1. ASSUME NEW m \in Models,
             OpenModel(c, m) \/ RenameModel(c, m) \/ InsertModel(c, m) \/ DeleteModelTemplate(c, m)
      PROVE  TypeInv'
  <2>1. OpenModel(c, m) \/ InsertModel(c, m) => op' \in [Clients -> Op] /\ \A d \in Clients : Named(d)'
    BY CatalogueOps, NamedKept DEF BackOn
  <2>2. DeleteModelTemplate(c, m) => op' \in [Clients -> Op] /\ \A d \in Clients : Named(d)'
    BY CatalogueOps, NamedKept DEF BackOn
  <2>3. RenameModel(c, m) => op[c].model \in Models
    BY <1>0 DEF RenameModel, Named
  <2>4. RenameModel(c, m) => op' \in [Clients -> Op] /\ \A d \in Clients : Named(d)'
    <3>1. RenameModel(c, m) => Saves(c, "rename", op[c].old, m, {op[c].model} \cap models)
      BY CatalogueOps
    <3> QED
      BY <2>3, <3>1, NamedKept DEF Saves
  <2>5. op' \in [Clients -> Op] /\ \A d \in Clients : Named(d)'
    BY <1>1, <2>1, <2>2, <2>4
  <2>6. /\ models' = models \/ models' = models \cup {m}
        /\ Again
        /\ UNCHANGED <<agvs, tasks, template, loose, snapshot, toast, removed, spoiled, serial, crossed>>
    BY <1>1 DEF OpenModel, RenameModel, InsertModel, DeleteModelTemplate, Begin, fleet, catalogue, offer
  <2> QED
    BY <1>0, <2>5, <2>6 DEF TypeInv, TypeOK, Again
<1>2. ASSUME DeleteTemplate(c) \/ RenameTemplate(c) \/ DeleteModel(c) PROVE TypeInv'
  <2>1. DeleteTemplate(c) => op[c].model \in Models
    BY <1>0 DEF DeleteTemplate, Named
  <2>2. RenameTemplate(c) => op[c].model \in Models /\ op[c].name \in Models
    BY <1>0 DEF RenameTemplate, Named
  <2>3. DeleteModel(c) => op[c].model \in Models
    BY <1>0 DEF DeleteModel, At, Named
  <2>4. DeleteTemplate(c) => op' \in [Clients -> Op] /\ \A d \in Clients : Named(d)'
    <3>1. DeleteTemplate(c) => Saves(c, "insert", Rows(op[c].model), op[c].name, op[c].hit)
      BY CatalogueOps
    <3> QED
      BY <2>1, <3>1, NamedKept DEF Saves
  <2>5. RenameTemplate(c) => op' \in [Clients -> Op] /\ \A d \in Clients : Named(d)'
    <3>1. RenameTemplate(c) => Saves(c, "renamed", Rows(op[c].model), op[c].name, op[c].hit)
      BY CatalogueOps
    <3> QED
      BY <2>2, <3>1, NamedKept DEF Saves
  <2>6. DeleteModel(c) => op' \in [Clients -> Op] /\ \A d \in Clients : Named(d)'
    <3>1. DeleteModel(c) => Saves(c, "scrap", op[c].old, op[c].name, {op[c].model} \cap models)
      BY CatalogueOps
    <3> QED
      BY <2>3, <3>1, NamedKept DEF Saves
  <2>7. op' \in [Clients -> Op] /\ \A d \in Clients : Named(d)'
    BY <1>2, <2>4, <2>5, <2>6
  <2> QED
    BY <1>0, <1>2, <2>7 DEF DeleteTemplate, RenameTemplate, DeleteModel, Again,
                            TypeInv, TypeOK, fleet, catalogue, offer
<1>3. ASSUME InsertTemplate(c) \/ InsertModelRows(c) PROVE TypeInv'
  <2>1. op[c].model \in Models
    BY <1>0, <1>3 DEF InsertTemplate, InsertModelRows, At, Named
  <2>2. op' \in [Clients -> Op] /\ \A d \in Clients : Named(d)'
    BY <1>3, <2>1, CatalogueOps, NamedKept DEF BackOn, BecomesIdle
  <2>3. template' \subseteq Template /\ serial' \in 1 .. MaxRows + 1
    BY <1>0, <1>3, <2>1 DEF InsertTemplate, InsertModelRows, TypeOK, Template, Serials
  <2>4. loose' \subseteq Models
    BY <1>0, <1>3, <2>1, WritesType DEF InsertTemplate, InsertModelRows
  <2> QED
    BY <1>0, <1>3, <2>2, <2>3, <2>4 DEF InsertTemplate, InsertModelRows, TypeInv, TypeOK, fleet, offer
<1>4. ASSUME CommitRename(c) PROVE TypeInv'
  <2>1. op[c].model \in Models /\ op[c].name \in Models
    BY <1>0, <1>4 DEF CommitRename, At, Named
  <2>2. op' \in [Clients -> Op] /\ \A d \in Clients : Named(d)'
    BY <1>4, <2>1, CatalogueOps, NamedKept DEF BackOn, BecomesIdle
  <2>3. template' \subseteq Template /\ models' \subseteq Models
    BY <1>0, <1>4, <2>1 DEF CommitRename, TypeOK, Template
  <2>4. loose' \subseteq Models
    BY <1>0, <1>4, <2>1, WritesType DEF CommitRename
  <2> QED
    BY <1>0, <1>4, <2>2, <2>3, <2>4 DEF CommitRename, TypeInv, TypeOK, fleet, offer
<1>5. ASSUME SaveFails(c) \/ LeaveModel(c) \/ ModelFails(c) PROVE TypeInv'
  <2>1. SaveFails(c) => op[c].model \in Models
    BY <1>0 DEF SaveFails, Named
  <2>2. op' \in [Clients -> Op] /\ \A d \in Clients : Named(d)'
    BY <1>5, <2>1, CatalogueOps, NamedKept DEF BackOn, BecomesIdle
  <2> QED
    BY <1>0, <1>5, <2>2 DEF SaveFails, LeaveModel, ModelFails, TypeInv, TypeOK, fleet, catalogue, offer
<1>6. ASSUME CommitModel(c) PROVE TypeInv'
  <2>1. op[c].model \in Models
    BY <1>0, <1>6 DEF CommitModel, Named
  <2>2. op' \in [Clients -> Op] /\ \A d \in Clients : Named(d)'
    BY <1>6, <2>1, CatalogueOps, NamedKept DEF BackOn, BecomesIdle
  <2> QED
    BY <1>0, <1>6, <2>1, <2>2 DEF CommitModel, TypeInv, TypeOK, fleet, offer
<1> QED
  BY <1>1, <1>2, <1>3, <1>4, <1>5, <1>6

\* Every step keeps the types.
LEMMA NextType == TypeInv /\ [Next]_vars => TypeInv'
<1> SUFFICES ASSUME TypeInv, [Next]_vars PROVE TypeInv'
  OBVIOUS
<1>1. ASSUME UNCHANGED vars PROVE TypeInv'
  BY <1>1 DEF vars, fleet, catalogue, offer, TypeInv, TypeOK, Named
<1>2. ASSUME NEW c \in Clients,
             \/ \E m \in Models : OpenModel(c, m) \/ RenameModel(c, m) \/ InsertModel(c, m)
                                  \/ DeleteModelTemplate(c, m)
             \/ DeleteTemplate(c) \/ InsertTemplate(c) \/ RenameTemplate(c) \/ CommitRename(c)
             \/ SaveFails(c) \/ LeaveModel(c) \/ InsertModelRows(c)
             \/ DeleteModel(c) \/ CommitModel(c) \/ ModelFails(c)
      PROVE  TypeInv'
  BY <1>2, CatalogueType
<1>3. ASSUME NEW c \in Clients,
             \/ \E a \in Agvs : InsertAgv(c, a)
             \/ CopyModelTasksToAgv(c) \/ OpenDeleteDialog(c) \/ Cancel(c)
             \/ \E S \in SUBSET Agvs : LoadAgvSnapshot(c, S)
             \/ LoadTaskSnapshot(c) \/ DeleteTasks(c) \/ DeleteAgvs(c) \/ CommitDelete(c)
             \/ DeleteFails(c) \/ RestoreDeletedAgvs(c) \/ ToastGone(c)
             \/ \E a, b \in Agvs : RenameAgv(c, a, b)
      PROVE  TypeInv'
  BY <1>3, FleetType
<1> QED
  BY <1>1, <1>2, <1>3 DEF Next

\* TypeOK: rows, models, template, serial, operations, snapshots and toasts keep their types.
THEOREM TypesHold == Spec => []TypeOK
<1>1. TypeInv => TypeOK
  BY DEF TypeInv
<1> QED
  BY <1>1, InitType, NextType, PTL DEF Spec

-----------------------------------------------------------------------------
(* One copy of the tasks, and an undo that is whole: what an operation under *)
(* way knows of its AGVs, as long as nobody else handles them.               *)

\* c deletes AGVs, from the answer in the dialog to the commit.
Deletes(c) == op[c].at \in {"tasks", "wipe", "drop", "commit"}

\* A new AGV is in the list, and has no tasks until its own program copies them.
CopyIsFirst(c) ==
    op[c].at = "copy" =>
        \A a \in op[c].agvs \ crossed : a \in agvs /\ \A r \in tasks : r.agv # a

\* The snapshot has the AGVs of the deletion that are in the list.
SnapshotOfAgvs(c) ==
    Deletes(c) => \A a \in Agvs \ crossed : a \in snapshot[c].agvs <=> a \in op[c].agvs \cap agvs

\* It has their tasks; after the DELETE, those that the transaction deleted.
SnapshotOfTasks(c) ==
    \A r \in Row : r.agv \notin crossed =>
        /\ op[c].at = "wipe" => (r \in snapshot[c].tasks <=> r \in tasks /\ r.agv \in op[c].agvs)
        /\ op[c].at \in {"drop", "commit"} => (r \in snapshot[c].tasks <=> r \in op[c].tasks)

\* The transaction deletes the tasks of its AGVs, all that there are and no others.
DeletesTheirTasks(c) ==
    op[c].at \in {"drop", "commit"} =>
        \A r \in Row : r.agv \notin crossed =>
            (r \in op[c].tasks <=> r \in tasks /\ r.agv \in op[c].agvs)

\* A task in a snapshot has its AGV there, and is its only one.
SnapshotIsWhole(c) ==
    \A r \in snapshot[c].tasks :
        \/ r.agv \in crossed
        \/ r.agv \in snapshot[c].agvs /\ \A q \in snapshot[c].tasks : q.agv = r.agv => q = r

\* The snapshot and what was removed last agree.
Same(c) ==
    /\ snapshot[c].agvs \ crossed = removed[c].agvs \ crossed
    /\ \A r \in snapshot[c].tasks \cup removed[c].tasks :
           r.agv \in crossed \/ r \in snapshot[c].tasks \cap removed[c].tasks

\* They do while the undo is offered, between two deletions.
OfferIsSame(c) == toast[c] /\ ~spoiled[c] /\ ~Deletes(c) => Same(c)

KnowsItsAgvs(c) ==
    /\ CopyIsFirst(c) /\ SnapshotOfAgvs(c) /\ SnapshotOfTasks(c) /\ DeletesTheirTasks(c)
    /\ SnapshotIsWhole(c) /\ OfferIsSame(c)

FleetInv == OneCopyEach /\ \A c \in Clients : KnowsItsAgvs(c)

-----------------------------------------------------------------------------
\* A step leaves the AGVs alone that d is working on, and their tasks, but for those it
\* marks as crossed.
Spares(d) ==
    \A a \in Busy(d) \ crossed' :
        /\ a \in agvs' <=> a \in agvs
        /\ \A r \in Row : r.agv = a => (r \in tasks' <=> r \in tasks)

\* It keeps what d remembers.
OfferKept(d) ==
    /\ snapshot'[d] = snapshot[d] /\ removed'[d] = removed[d]
    /\ toast'[d] = toast[d] /\ spoiled'[d] = spoiled[d]

\* Then what d knows stays true.
LEMMA OthersFleet ==
    ASSUME TypeOK, TypeOK', NEW d \in Clients, KnowsItsAgvs(d), SameOp(op'[d], op[d]),
           crossed \subseteq crossed', Spares(d), OfferKept(d)
    PROVE  KnowsItsAgvs(d)'
<1>0. /\ op[d].agvs \in SUBSET Agvs /\ tasks \in SUBSET Row /\ tasks' \in SUBSET Row
      /\ op'[d].at = op[d].at /\ op'[d].agvs = op[d].agvs /\ op'[d].tasks = op[d].tasks
  BY DEF TypeOK, Op, SameOp
<1>1. CopyIsFirst(d)'
  BY <1>0 DEF KnowsItsAgvs, CopyIsFirst, Spares, Busy
<1>2. SnapshotOfAgvs(d)'
  BY <1>0 DEF KnowsItsAgvs, SnapshotOfAgvs, Deletes, Spares, Busy, OfferKept
<1>3. SnapshotOfTasks(d)'
  BY <1>0 DEF KnowsItsAgvs, SnapshotOfTasks, Spares, Busy, OfferKept
<1>4. DeletesTheirTasks(d)'
  BY <1>0 DEF KnowsItsAgvs, DeletesTheirTasks, Spares, Busy
<1>5. SnapshotIsWhole(d)'
  BY DEF KnowsItsAgvs, SnapshotIsWhole, OfferKept
<1>6. OfferIsSame(d)'
  BY <1>0 DEF KnowsItsAgvs, OfferIsSame, Same, Deletes, OfferKept
<1> QED
  BY <1>1, <1>2, <1>3, <1>4, <1>5, <1>6 DEF KnowsItsAgvs

\* A step of c keeps the invariant when it keeps one copy of the tasks and what c knows,
\* and spares the others.
LEMMA FleetStep ==
    ASSUME TypeOK, TypeOK', FleetInv, NEW c \in Clients, OthersKept(c), crossed \subseteq crossed',
           \A d \in Clients \ {c} : Spares(d) /\ OfferKept(d),
           OneCopyEach', KnowsItsAgvs(c)'
    PROVE  FleetInv'
<1>1. ASSUME NEW d \in Clients \ {c} PROVE KnowsItsAgvs(d)'
  BY OthersFleet DEF FleetInv, OthersKept
<1> QED
  BY <1>1 DEF FleetInv

\* The AGVs that c handles now are nobody else's, or crossed.
LEMMA HandlesFacts ==
    ASSUME NEW c \in Clients, NEW S, Handles(c, S)
    PROVE  /\ crossed \subseteq crossed'
           /\ \A d \in Clients \ {c} : \A a \in Busy(d) : a \in S => a \in crossed'
BY DEF Handles

\* After a step that leaves c at no work on AGVs, what it knows is about its snapshot.
LEMMA IdleFleet ==
    ASSUME NEW c \in Clients, op'[c].at \notin {"copy", "tasks", "wipe", "drop", "commit"},
           SnapshotIsWhole(c)', toast'[c] /\ ~spoiled'[c] => Same(c)'
    PROVE  KnowsItsAgvs(c)'
BY DEF KnowsItsAgvs, CopyIsFirst, SnapshotOfAgvs, SnapshotOfTasks, DeletesTheirTasks, OfferIsSame, Deletes

\* A snapshot stays whole, and the same as what was removed.
LEMMA WholeKept ==
    ASSUME NEW c \in Clients, crossed \subseteq crossed', snapshot'[c] = snapshot[c]
    PROVE  /\ SnapshotIsWhole(c) => SnapshotIsWhole(c)'
           /\ removed'[c] = removed[c] => (Same(c) => Same(c)')
BY DEF SnapshotIsWhole, Same

-----------------------------------------------------------------------------
(* The steps.                                                              *)

\* A step that touches no AGV, of a program that is not at work on one.
LEMMA QuietStep ==
    ASSUME TypeOK, TypeOK', FleetInv, NEW c \in Clients, OthersKept(c),
           UNCHANGED <<fleet, offer, crossed>>,
           op[c].at \notin {"copy", "tasks", "wipe", "drop", "commit"},
           op'[c].at \notin {"copy", "tasks", "wipe", "drop", "commit"}
    PROVE  FleetInv'
<1>1. KnowsItsAgvs(c)
  BY DEF FleetInv
<1>2. SnapshotIsWhole(c) /\ (toast[c] /\ ~spoiled[c] => Same(c))
  BY <1>1 DEF KnowsItsAgvs, OfferIsSame, Deletes
<1>3. SnapshotIsWhole(c)' /\ (toast'[c] /\ ~spoiled'[c] => Same(c)')
  BY <1>2, WholeKept DEF offer
<1>4. KnowsItsAgvs(c)'
  BY <1>3, IdleFleet
<1>5. OneCopyEach'
  BY DEF FleetInv, OneCopyEach, fleet
<1>6. \A d \in Clients \ {c} : Spares(d) /\ OfferKept(d)
  BY DEF Spares, OfferKept, fleet, offer
<1> QED
  BY <1>4, <1>5, <1>6, FleetStep

\* insertAgvToDb: the AGV is new, so that it has no tasks.
LEMMA InsertAgvStep ==
    ASSUME TypeOK, TypeOK', FleetInv, NEW c \in Clients, NEW a \in Agvs, InsertAgv(c, a)
    PROVE  FleetInv'
<1>1. /\ OthersKept(c) /\ op'[c].at = "copy" /\ op'[c].agvs = {a}
  BY FleetOps DEF Becomes
<1>2. /\ op[c].at = "idle" /\ a \notin agvs /\ agvs' = agvs \cup {a} /\ tasks' = tasks
      /\ Handles(c, {a}) /\ UNCHANGED <<snapshot, toast, removed, spoiled>>
  BY DEF InsertAgv, Begin, Vacant, offer
<1>3. /\ crossed \subseteq crossed' /\ OneCopyEach /\ KnowsItsAgvs(c) /\ tasks \subseteq Row
      /\ \A d \in Clients \ {c} : \A x \in Busy(d) : x = a => x \in crossed'
  BY <1>2, HandlesFacts DEF FleetInv, TypeOK
<1>4. OneCopyEach'
  BY <1>2, <1>3 DEF OneCopyEach
<1>5. \A d \in Clients \ {c} : Spares(d) /\ OfferKept(d)
  BY <1>2, <1>3 DEF Spares, OfferKept
<1>6. CopyIsFirst(c)'
  BY <1>1, <1>2, <1>3 DEF CopyIsFirst, OneCopyEach
<1>7. SnapshotIsWhole(c)' /\ (toast'[c] /\ ~spoiled'[c] => Same(c)')
  BY <1>2, <1>3, WholeKept DEF KnowsItsAgvs, OfferIsSame, Deletes
<1>8. KnowsItsAgvs(c)'
  BY <1>1, <1>6, <1>7 DEF KnowsItsAgvs, SnapshotOfAgvs, SnapshotOfTasks, DeletesTheirTasks, OfferIsSame, Deletes
<1> QED
  BY <1>1, <1>3, <1>4, <1>5, <1>8, FleetStep

\* copyModelTasksToAgv: the first tasks of its AGV.
LEMMA CopyStep ==
    ASSUME TypeOK, TypeOK', FleetInv, NEW c \in Clients, CopyModelTasksToAgv(c)
    PROVE  FleetInv'
<1> DEFINE new == {[id |-> serial, agv |-> a] : a \in op[c].agvs}
<1>1. OthersKept(c) /\ op'[c].at = "idle"
  BY FleetOps DEF BecomesIdle, Becomes
<1>2. /\ op[c].at = "copy" /\ agvs' = agvs /\ (tasks' = tasks \/ tasks' = tasks \cup new)
      /\ Handles(c, op[c].agvs) /\ UNCHANGED <<snapshot, toast, removed, spoiled>>
  BY DEF CopyModelTasksToAgv, offer
<1>3. /\ crossed \subseteq crossed' /\ OneCopyEach /\ KnowsItsAgvs(c) /\ tasks \subseteq Row
      /\ \A d \in Clients \ {c} : \A x \in Busy(d) : x \in op[c].agvs => x \in crossed'
  BY HandlesFacts, <1>2 DEF FleetInv, TypeOK
<1>4. \A r \in new : r.agv \in op[c].agvs /\ \A q \in new : q.agv = r.agv => q = r
  OBVIOUS
<1> HIDE DEF new
<1>5. \A a \in op[c].agvs \ crossed : a \in agvs /\ \A r \in tasks : r.agv # a
  BY <1>2, <1>3 DEF KnowsItsAgvs, CopyIsFirst
<1>6. OneCopyEach'
  BY <1>2, <1>3, <1>4, <1>5 DEF OneCopyEach
<1>7. \A d \in Clients \ {c} : Spares(d) /\ OfferKept(d)
  BY <1>2, <1>3, <1>4 DEF Spares, OfferKept
<1>8. SnapshotIsWhole(c)' /\ (toast'[c] /\ ~spoiled'[c] => Same(c)')
  BY <1>2, <1>3, WholeKept DEF KnowsItsAgvs, OfferIsSame, Deletes
<1>9. KnowsItsAgvs(c)'
  BY <1>1, <1>8, IdleFleet
<1> QED
  BY <1>1, <1>3, <1>6, <1>7, <1>9, FleetStep

\* loadAgvSnapshot: the AGVs of the answer that are still there.
LEMMA LoadAgvsStep ==
    ASSUME TypeOK, TypeOK', FleetInv, NEW c \in Clients, NEW S \in SUBSET Agvs, LoadAgvSnapshot(c, S)
    PROVE  FleetInv'
<1>1. OthersKept(c) /\ op'[c].at = "tasks" /\ op'[c].agvs = S
  BY FleetOps DEF Onward, Becomes
<1>2. /\ snapshot' = [snapshot EXCEPT ![c] = [agvs |-> S \cap agvs, tasks |-> {}]]
      /\ Handles(c, S) /\ UNCHANGED <<agvs, tasks, toast, removed, spoiled>>
  BY DEF LoadAgvSnapshot, fleet
<1>3. /\ snapshot'[c].agvs = S \cap agvs /\ snapshot'[c].tasks = {}
      /\ \A d \in Clients \ {c} : snapshot'[d] = snapshot[d]
  BY <1>2 DEF TypeOK
<1>4. crossed \subseteq crossed' /\ OneCopyEach
  BY HandlesFacts, <1>2 DEF FleetInv
<1>5. OneCopyEach'
  BY <1>2, <1>4 DEF OneCopyEach
<1>6. \A d \in Clients \ {c} : Spares(d) /\ OfferKept(d)
  BY <1>2, <1>3 DEF Spares, OfferKept
<1>7. KnowsItsAgvs(c)'
  BY <1>1, <1>2, <1>3
     DEF KnowsItsAgvs, CopyIsFirst, SnapshotOfAgvs, SnapshotOfTasks, DeletesTheirTasks, SnapshotIsWhole,
         OfferIsSame, Deletes
<1> QED
  BY <1>1, <1>4, <1>5, <1>6, <1>7, FleetStep

\* loadTaskSnapshot: their tasks, which are one for each AGV.
LEMMA LoadTasksStep ==
    ASSUME TypeOK, TypeOK', FleetInv, NEW c \in Clients, LoadTaskSnapshot(c)
    PROVE  FleetInv'
<1>1. OthersKept(c) /\ op'[c].at = "wipe" /\ op'[c].agvs = op[c].agvs
  BY FleetOps DEF Onward, Becomes
<1>2. /\ op[c].at = "tasks"
      /\ snapshot' = [snapshot EXCEPT ![c].tasks = {r \in tasks : r.agv \in op[c].agvs}]
      /\ UNCHANGED <<agvs, tasks, toast, removed, spoiled, crossed>>
  BY DEF LoadTaskSnapshot, fleet
<1>3. /\ snapshot'[c].agvs = snapshot[c].agvs
      /\ snapshot'[c].tasks = {r \in tasks : r.agv \in op[c].agvs}
      /\ \A d \in Clients \ {c} : snapshot'[d] = snapshot[d]
  BY <1>2 DEF TypeOK
<1>4. OneCopyEach /\ KnowsItsAgvs(c) /\ tasks \subseteq Row
  BY DEF FleetInv, TypeOK
<1>5. OneCopyEach'
  BY <1>2, <1>4 DEF OneCopyEach
<1>6. \A d \in Clients \ {c} : Spares(d) /\ OfferKept(d)
  BY <1>2, <1>3 DEF Spares, OfferKept
<1>7. SnapshotOfAgvs(c)'
  BY <1>1, <1>2, <1>3, <1>4 DEF KnowsItsAgvs, SnapshotOfAgvs, Deletes
<1>8. SnapshotOfTasks(c)'
  BY <1>1, <1>2, <1>3 DEF SnapshotOfTasks
<1>9. SnapshotIsWhole(c)'
  <2>1. \A a \in Agvs \ crossed : a \in snapshot[c].agvs <=> a \in op[c].agvs \cap agvs
    BY <1>2, <1>4 DEF KnowsItsAgvs, SnapshotOfAgvs, Deletes
  <2>2. \A r \in tasks : r.agv \in Agvs
    BY <1>4 DEF Row
  <2> QED
    BY <1>2, <1>3, <1>4, <2>1, <2>2 DEF SnapshotIsWhole, OneCopyEach
<1>10. KnowsItsAgvs(c)'
  BY <1>1, <1>7, <1>8, <1>9 DEF KnowsItsAgvs, CopyIsFirst, DeletesTheirTasks, OfferIsSame, Deletes
<1> QED
  BY <1>1, <1>2, <1>5, <1>6, <1>10, FleetStep

\* The DELETE of the tasks.
LEMMA DeleteTasksStep ==
    ASSUME TypeOK, TypeOK', FleetInv, NEW c \in Clients, DeleteTasks(c)
    PROVE  FleetInv'
<1>1. /\ OthersKept(c) /\ op'[c].at = "drop" /\ op'[c].agvs = op[c].agvs
      /\ op'[c].tasks = {r \in tasks : r.agv \in op[c].agvs}
  <2>1. Onward(c, "drop", op[c].agvs, {r \in tasks : r.agv \in op[c].agvs})
    BY FleetOps
  <2> QED
    BY <2>1 DEF Onward, Becomes
<1>2. /\ op[c].at = "wipe" /\ Handles(c, op[c].agvs)
      /\ UNCHANGED <<agvs, tasks, snapshot, toast, removed, spoiled>>
  BY DEF DeleteTasks, fleet, offer
<1>3. crossed \subseteq crossed' /\ OneCopyEach /\ KnowsItsAgvs(c)
  BY <1>2, HandlesFacts DEF FleetInv
<1>4. OneCopyEach'
  BY <1>2, <1>3 DEF OneCopyEach
<1>5. \A d \in Clients \ {c} : Spares(d) /\ OfferKept(d)
  BY <1>2 DEF Spares, OfferKept
<1>6. SnapshotOfAgvs(c)'
  BY <1>1, <1>2, <1>3 DEF KnowsItsAgvs, SnapshotOfAgvs, Deletes
<1>7. SnapshotOfTasks(c)' /\ DeletesTheirTasks(c)'
  BY <1>1, <1>2, <1>3 DEF KnowsItsAgvs, SnapshotOfTasks, DeletesTheirTasks
<1>8. SnapshotIsWhole(c)'
  BY <1>2, <1>3, WholeKept DEF KnowsItsAgvs
<1>9. KnowsItsAgvs(c)'
  BY <1>1, <1>6, <1>7, <1>8 DEF KnowsItsAgvs, CopyIsFirst, OfferIsSame, Deletes
<1> QED
  BY <1>1, <1>3, <1>4, <1>5, <1>9, FleetStep

\* The DELETE of the AGVs: a task of one that is gone belongs to a crossed AGV.
LEMMA DeleteAgvsStep ==
    ASSUME TypeOK, TypeOK', FleetInv, NEW c \in Clients, DeleteAgvs(c)
    PROVE  FleetInv'
<1>1. /\ OthersKept(c) /\ op'[c].at = "commit" /\ op'[c].agvs = op[c].agvs \cap agvs
      /\ op'[c].tasks = op[c].tasks
  <2>1. Onward(c, "commit", op[c].agvs \cap agvs, op[c].tasks)
    BY FleetOps
  <2> QED
    BY <2>1 DEF Onward, Becomes
<1>2. /\ op[c].at = "drop" /\ Handles(c, op[c].agvs)
      /\ UNCHANGED <<agvs, tasks, snapshot, toast, removed, spoiled>>
  BY DEF DeleteAgvs, At, fleet, offer
<1>3. crossed \subseteq crossed' /\ OneCopyEach /\ KnowsItsAgvs(c)
  BY <1>2, HandlesFacts DEF FleetInv
<1>4. OneCopyEach'
  BY <1>2, <1>3 DEF OneCopyEach
<1>5. \A d \in Clients \ {c} : Spares(d) /\ OfferKept(d)
  BY <1>2 DEF Spares, OfferKept
<1>6. SnapshotOfAgvs(c)'
  BY <1>1, <1>2, <1>3 DEF KnowsItsAgvs, SnapshotOfAgvs, Deletes
<1>7. SnapshotOfTasks(c)'
  BY <1>1, <1>2, <1>3 DEF KnowsItsAgvs, SnapshotOfTasks
<1>8. DeletesTheirTasks(c)'
  BY <1>1, <1>2, <1>3 DEF KnowsItsAgvs, DeletesTheirTasks, OneCopyEach
<1>9. SnapshotIsWhole(c)'
  BY <1>2, <1>3, WholeKept DEF KnowsItsAgvs
<1>10. KnowsItsAgvs(c)'
  BY <1>1, <1>6, <1>7, <1>8, <1>9 DEF KnowsItsAgvs, CopyIsFirst, OfferIsSame, Deletes
<1> QED
  BY <1>1, <1>3, <1>4, <1>5, <1>10, FleetStep

\* The commit: no task of a deleted AGV is left, and the snapshot is what was removed.
LEMMA CommitDeleteStep ==
    ASSUME TypeOK, TypeOK', FleetInv, NEW c \in Clients, CommitDelete(c)
    PROVE  FleetInv'
<1>1. OthersKept(c) /\ op'[c].at = "idle"
  BY FleetOps DEF BecomesIdle, Becomes
<1>2. /\ op[c].at = "commit" /\ Handles(c, op[c].agvs)
      /\ removed' = [removed EXCEPT ![c] = [agvs |-> op[c].agvs \cap agvs, tasks |-> op[c].tasks \cap tasks]]
      /\ spoiled' = [spoiled EXCEPT ![c] = FALSE] /\ toast' = [toast EXCEPT ![c] = TRUE]
      /\ agvs' = agvs \ op[c].agvs /\ tasks' = tasks \ op[c].tasks /\ snapshot' = snapshot
  BY DEF CommitDelete, At
<1>3. /\ removed'[c].agvs = op[c].agvs \cap agvs /\ removed'[c].tasks = op[c].tasks \cap tasks
      /\ \A d \in Clients \ {c} : OfferKept(d)
  BY <1>2 DEF OfferKept, TypeOK
<1>4. /\ crossed \subseteq crossed' /\ OneCopyEach /\ KnowsItsAgvs(c) /\ tasks \subseteq Row
      /\ op[c].agvs \subseteq Agvs /\ op[c].tasks \subseteq Row
      /\ snapshot[c].agvs \subseteq Agvs /\ snapshot[c].tasks \subseteq Row
      /\ \A d \in Clients \ {c} : \A x \in Busy(d) : x \in op[c].agvs => x \in crossed'
  BY <1>2, HandlesFacts DEF FleetInv, TypeOK, Op
<1>5. \A r \in Row : r.agv \notin crossed =>
          /\ r \in op[c].tasks <=> r \in tasks /\ r.agv \in op[c].agvs
          /\ r \in snapshot[c].tasks <=> r \in op[c].tasks
  BY <1>2, <1>4 DEF KnowsItsAgvs, DeletesTheirTasks, SnapshotOfTasks
<1>6. OneCopyEach'
  BY <1>2, <1>4, <1>5 DEF OneCopyEach
<1>7. \A d \in Clients \ {c} : Spares(d)
  BY <1>2, <1>4, <1>5 DEF Spares
<1>8. SnapshotIsWhole(c)'
  BY <1>2, <1>4, WholeKept DEF KnowsItsAgvs
<1>9. Same(c)'
  <2>1. \A a \in Agvs \ crossed : a \in snapshot[c].agvs <=> a \in op[c].agvs \cap agvs
    BY <1>2, <1>4 DEF KnowsItsAgvs, SnapshotOfAgvs, Deletes
  <2>2. snapshot'[c].agvs \ crossed' = removed'[c].agvs \ crossed'
    BY <1>2, <1>3, <1>4, <2>1
  <2>3. \A r \in snapshot'[c].tasks \cup removed'[c].tasks :
            r.agv \in crossed' \/ r \in snapshot'[c].tasks \cap removed'[c].tasks
    BY <1>2, <1>3, <1>4, <1>5
  <2> QED
    BY <2>2, <2>3 DEF Same
<1>10. KnowsItsAgvs(c)'
  BY <1>1, <1>8, <1>9, IdleFleet
<1> QED
  BY <1>1, <1>3, <1>4, <1>6, <1>7, <1>10, FleetStep

\* A rollback.
LEMMA DeleteFailsStep ==
    ASSUME TypeOK, TypeOK', FleetInv, NEW c \in Clients, DeleteFails(c)
    PROVE  FleetInv'
<1>1. OthersKept(c) /\ op'[c].at = "idle"
  BY FleetOps DEF BecomesIdle, Becomes
<1>2. spoiled' = [spoiled EXCEPT ![c] = TRUE] /\ UNCHANGED <<agvs, tasks, snapshot, toast, removed, crossed>>
  BY DEF DeleteFails, fleet
<1>3. spoiled'[c] /\ \A d \in Clients \ {c} : Spares(d) /\ OfferKept(d)
  BY <1>2 DEF Spares, OfferKept, TypeOK
<1>4. OneCopyEach' /\ SnapshotIsWhole(c)'
  BY <1>2, WholeKept DEF FleetInv, KnowsItsAgvs, OneCopyEach
<1>5. KnowsItsAgvs(c)'
  BY <1>1, <1>3, <1>4, IdleFleet
<1> QED
  BY <1>1, <1>2, <1>3, <1>4, <1>5, FleetStep

\* restoreDeletedAgvs: the AGVs were gone, so that their tasks are the only ones.
LEMMA RestoreStep ==
    ASSUME TypeOK, TypeOK', FleetInv, NEW c \in Clients, RestoreDeletedAgvs(c)
    PROVE  FleetInv'
<1> DEFINE S == snapshot[c].tasks
           Renumbered(r) == [r EXCEPT !.id = serial + Cardinality({q \in S : q.id < r.id})]
           new == {Renumbered(r) : r \in S}
<1>1. OthersKept(c) /\ op'[c] = op[c] /\ op[c].at = "idle"
  BY DEF RestoreDeletedAgvs, Begin, OthersKept, SameOp
<1>2. /\ agvs' = agvs \cup snapshot[c].agvs /\ tasks' = tasks \cup new
      /\ snapshot' = [snapshot EXCEPT ![c] = Nothing] /\ toast' = [toast EXCEPT ![c] = FALSE]
      /\ removed' = removed /\ spoiled' = spoiled /\ Handles(c, snapshot[c].agvs)
      /\ \A a \in snapshot[c].agvs : a \notin agvs
  BY DEF RestoreDeletedAgvs, Vacant
<1>3. /\ crossed \subseteq crossed' /\ OneCopyEach /\ KnowsItsAgvs(c) /\ tasks \subseteq Row /\ S \subseteq Row
      /\ \A d \in Clients \ {c} : \A x \in Busy(d) : x \in snapshot[c].agvs => x \in crossed'
  BY <1>2, HandlesFacts DEF FleetInv, TypeOK
<1>4. /\ snapshot'[c].tasks = {} /\ snapshot'[c].agvs = {} /\ ~toast'[c]
      /\ \A d \in Clients \ {c} : OfferKept(d)
  BY <1>2 DEF Nothing, OfferKept, TypeOK
<1>5. ASSUME NEW p \in new
      PROVE  \E r \in S : p = Renumbered(r) /\ p.agv = r.agv
  <2>1. PICK r \in S : p = Renumbered(r)
    OBVIOUS
  <2>2. p.agv = r.agv
    BY <1>3, <2>1 DEF Row
  <2> QED
    BY <2>1, <2>2
<1>6. \A r \in S : \/ r.agv \in crossed
                   \/ r.agv \in snapshot[c].agvs /\ \A q \in S : q.agv = r.agv => q = r
  BY <1>3 DEF KnowsItsAgvs, SnapshotIsWhole
<1>7. \A p \in new : \/ p.agv \in crossed
                     \/ p.agv \in snapshot[c].agvs /\ \A q \in new : q.agv = p.agv => q = p
  <2>1. SUFFICES ASSUME NEW p \in new, p.agv \notin crossed
                 PROVE  p.agv \in snapshot[c].agvs /\ \A q \in new : q.agv = p.agv => q = p
    OBVIOUS
  <2>2. PICK r \in S : p = Renumbered(r) /\ p.agv = r.agv
    BY <1>5
  <2>3. r.agv \in snapshot[c].agvs /\ \A q \in S : q.agv = r.agv => q = r
    BY <1>6, <2>1, <2>2
  <2>4. ASSUME NEW q \in new, q.agv = p.agv PROVE q = p
    <3>1. PICK s \in S : q = Renumbered(s) /\ q.agv = s.agv
      BY <1>5
    <3>2. s = r
      BY <2>2, <2>3, <2>4, <3>1
    <3> QED
      BY <2>2, <3>1, <3>2
  <2> QED
    BY <2>2, <2>3, <2>4
<1> HIDE DEF new
<1>8. OneCopyEach'
  BY <1>2, <1>3, <1>7 DEF OneCopyEach
<1>9. \A d \in Clients \ {c} : Spares(d)
  BY <1>2, <1>3, <1>7 DEF Spares
<1>10. KnowsItsAgvs(c)'
  BY <1>1, <1>4, IdleFleet DEF SnapshotIsWhole
<1> QED
  BY <1>1, <1>3, <1>4, <1>8, <1>9, <1>10, FleetStep

\* The toast goes, and with it the snapshot.
LEMMA ToastStep ==
    ASSUME TypeOK, TypeOK', FleetInv, NEW c \in Clients, ToastGone(c)
    PROVE  FleetInv'
<1>1. OthersKept(c) /\ op'[c] = op[c] /\ op[c].at \in {"idle", "choose", "page"}
  BY DEF ToastGone, OthersKept, SameOp
<1>2. /\ snapshot' = [snapshot EXCEPT ![c] = Nothing] /\ toast' = [toast EXCEPT ![c] = FALSE]
      /\ UNCHANGED <<agvs, tasks, removed, spoiled, crossed>>
  BY DEF ToastGone, fleet
<1>3. /\ snapshot'[c].tasks = {} /\ ~toast'[c]
      /\ \A d \in Clients \ {c} : Spares(d) /\ OfferKept(d)
  BY <1>2 DEF Nothing, Spares, OfferKept, TypeOK
<1>4. OneCopyEach'
  BY <1>2 DEF FleetInv, OneCopyEach
<1>5. KnowsItsAgvs(c)'
  BY <1>1, <1>3, IdleFleet DEF SnapshotIsWhole
<1> QED
  BY <1>1, <1>2, <1>3, <1>4, <1>5, FleetStep

\* Saving a card under another id: the AGV takes its tasks along, and the new id had none.
LEMMA RenameAgvStep ==
    ASSUME TypeOK, TypeOK', FleetInv, NEW c \in Clients, NEW a \in Agvs, NEW b \in Agvs,
           RenameAgv(c, a, b)
    PROVE  FleetInv'
<1> DEFINE Renamed(r) == IF r.agv = a THEN [r EXCEPT !.agv = b] ELSE r
<1>1. OthersKept(c) /\ op'[c] = op[c] /\ op[c].at = "idle"
  BY DEF RenameAgv, Begin, OthersKept, SameOp
<1>2. /\ b \notin agvs /\ (a \in agvs \/ \E r \in tasks : r.agv = a)
      /\ agvs' = (IF a \in agvs THEN (agvs \ {a}) \cup {b} ELSE agvs)
      /\ tasks' = {Renamed(r) : r \in tasks}
      /\ UNCHANGED <<snapshot, toast, removed, spoiled>>
  BY DEF RenameAgv, Vacant, offer
<1>3. /\ crossed \subseteq crossed' /\ OneCopyEach /\ KnowsItsAgvs(c) /\ tasks \subseteq Row
      /\ \A d \in Clients \ {c} : {a, b} \cap Busy(d) # {} => {a, b} \subseteq crossed'
      /\ {a, b} \cap crossed # {} => {a, b} \subseteq crossed'
      /\ {a, b} \subseteq crossed' \/ {a, b} \cap crossed' = {}
  BY DEF RenameAgv, FleetInv, TypeOK
<1>4. ASSUME NEW r \in Row
      PROVE  /\ r.agv \notin {a, b} => (r \in tasks' <=> r \in tasks)
             /\ \A q \in tasks : q.agv # a => Renamed(q) = q
             /\ \A q \in tasks : q.agv = a => Renamed(q).agv = b
  BY <1>2, <1>3 DEF Row
<1>5. OneCopyEach'
  <2>1. CASE {a, b} \subseteq crossed'
    <3>1. SUFFICES ASSUME NEW r \in tasks', r.agv \notin crossed'
                   PROVE  r.agv \in agvs' /\ \A q \in tasks' : q.agv = r.agv => q = r
      BY DEF OneCopyEach
    <3>2. r.agv \notin {a, b} /\ r \in tasks /\ tasks' \subseteq Row
      BY <1>4, <2>1, <3>1 DEF TypeOK
    <3>3. r.agv \in agvs /\ \A q \in tasks : q.agv = r.agv => q = r
      BY <1>3, <3>1, <3>2 DEF OneCopyEach
    <3>4. \A q \in tasks' : q.agv = r.agv => q \in tasks
      BY <1>4, <3>2
    <3> QED
      BY <1>2, <3>2, <3>3, <3>4
  <2>2. CASE {a, b} \cap crossed' = {}
    <3>1. a \in agvs /\ a # b /\ \A r \in tasks : r.agv # b
      BY <1>2, <1>3, <2>2 DEF OneCopyEach
    <3>2. \A p \in tasks' : \E r \in tasks : p = Renamed(r) /\ p.agv = IF r.agv = a THEN b ELSE r.agv
      BY <1>2, <1>3, <1>4
    <3> QED
      BY <1>2, <1>3, <2>2, <3>1, <3>2 DEF OneCopyEach
  <2> QED
    BY <1>3, <2>1, <2>2
<1>6. \A d \in Clients \ {c} : Spares(d) /\ OfferKept(d)
  BY <1>2, <1>3, <1>4 DEF Spares, OfferKept
<1>7. SnapshotIsWhole(c)' /\ (toast'[c] /\ ~spoiled'[c] => Same(c)')
  BY <1>1, <1>2, <1>3, WholeKept DEF KnowsItsAgvs, OfferIsSame, Deletes
<1>8. KnowsItsAgvs(c)'
  BY <1>1, <1>7, IdleFleet
<1> QED
  BY <1>1, <1>3, <1>5, <1>6, <1>8, FleetStep

-----------------------------------------------------------------------------
(* The theorems.                                                           *)

\* At the start every AGV has one row of tasks, and nothing is offered.
LEMMA InitFleet == Init => FleetInv
<1> SUFFICES ASSUME Init PROVE FleetInv
  OBVIOUS
<1>1. OneCopyEach
  BY DEF Init, OneCopyEach
<1>2. ASSUME NEW c \in Clients PROVE KnowsItsAgvs(c)
  BY DEF Init, Idle, Nothing, KnowsItsAgvs, CopyIsFirst, SnapshotOfAgvs, SnapshotOfTasks, DeletesTheirTasks,
         SnapshotIsWhole, OfferIsSame, Deletes
<1> QED
  BY <1>1, <1>2 DEF FleetInv

\* The operations on models, and those on AGVs before the first statement, touch no AGV.
LEMMA QuietSteps ==
    ASSUME TypeInv, TypeInv', FleetInv, NEW c \in Clients,
           \/ \E m \in Models : OpenModel(c, m) \/ RenameModel(c, m) \/ InsertModel(c, m)
                                \/ DeleteModelTemplate(c, m)
           \/ DeleteTemplate(c) \/ InsertTemplate(c) \/ RenameTemplate(c) \/ CommitRename(c)
           \/ SaveFails(c) \/ LeaveModel(c) \/ InsertModelRows(c)
           \/ DeleteModel(c) \/ CommitModel(c) \/ ModelFails(c)
           \/ OpenDeleteDialog(c) \/ Cancel(c)
    PROVE  FleetInv'
<1> DEFINE Quiet == /\ OthersKept(c)
                    /\ op[c].at \notin {"copy", "tasks", "wipe", "drop", "commit"}
                    /\ op'[c].at \notin {"copy", "tasks", "wipe", "drop", "commit"}
<1>1. UNCHANGED <<fleet, offer, crossed>>
  BY DEF OpenModel, RenameModel, InsertModel, DeleteModelTemplate, DeleteTemplate, InsertTemplate,
         RenameTemplate, CommitRename, SaveFails, LeaveModel, InsertModelRows, DeleteModel, CommitModel,
         ModelFails, OpenDeleteDialog, Cancel
<1>2. ASSUME NEW m \in Models,
             OpenModel(c, m) \/ RenameModel(c, m) \/ InsertModel(c, m) \/ DeleteModelTemplate(c, m)
      PROVE  Quiet
  <2>1. op[c].at \in {"idle", "page"}
    BY <1>2 DEF OpenModel, RenameModel, InsertModel, DeleteModelTemplate, Begin
  <2>2. op'[c].at \in {"page", "rename", "rows", "models"} /\ OthersKept(c)
    BY <1>2, CatalogueOps DEF BackOn, Saves, Becomes
  <2> QED
    BY <2>1, <2>2
<1>3. ASSUME DeleteTemplate(c) \/ RenameTemplate(c) \/ DeleteModel(c) PROVE Quiet
  <2>1. op[c].at \in {"page", "rename", "models"}
    BY <1>3 DEF DeleteTemplate, RenameTemplate, DeleteModel, At
  <2>2. op'[c].at \in {"insert", "renamed", "scrap"} /\ OthersKept(c)
    BY <1>3, CatalogueOps DEF Saves, Becomes
  <2> QED
    BY <2>1, <2>2
<1>4. ASSUME InsertTemplate(c) \/ CommitRename(c) \/ SaveFails(c) \/ LeaveModel(c) \/ InsertModelRows(c)
             \/ CommitModel(c) \/ ModelFails(c)
      PROVE  Quiet
  <2>1. op[c].at \in {"insert", "renamed", "rename", "page", "rows", "models", "scrap"}
    BY <1>4 DEF InsertTemplate, CommitRename, SaveFails, LeaveModel, InsertModelRows, CommitModel,
                ModelFails, At
  <2>2. op'[c].at \in {"idle", "page"} /\ OthersKept(c)
    BY <1>4, CatalogueOps DEF BackOn, BecomesIdle, Becomes
  <2> QED
    BY <2>1, <2>2
<1>5. ASSUME OpenDeleteDialog(c) \/ Cancel(c) PROVE Quiet
  <2>1. op[c].at \in {"idle", "choose"}
    BY <1>5 DEF OpenDeleteDialog, Cancel, Begin
  <2>2. op'[c].at \in {"idle", "choose"} /\ OthersKept(c)
    BY <1>5, FleetOps DEF BecomesIdle, Becomes, TypeInv
  <2> QED
    BY <2>1, <2>2
<1>6. Quiet
  BY <1>2, <1>3, <1>4, <1>5
<1> HIDE DEF Quiet
<1> QED
  BY <1>1, <1>6, QuietStep DEF Quiet, TypeInv

\* Every step keeps the invariant.
LEMMA NextFleet == TypeInv /\ TypeInv' /\ FleetInv /\ [Next]_vars => FleetInv'
<1> SUFFICES ASSUME TypeInv, TypeInv', FleetInv, [Next]_vars PROVE FleetInv'
  OBVIOUS
<1>0. TypeOK /\ TypeOK'
  BY DEF TypeInv
<1>1. ASSUME UNCHANGED vars PROVE FleetInv'
  <2>1. UNCHANGED <<agvs, tasks, op, snapshot, toast, removed, spoiled, crossed>>
    BY <1>1 DEF vars, fleet, offer
  <2> QED
    BY <2>1 DEF FleetInv, OneCopyEach, KnowsItsAgvs, CopyIsFirst, SnapshotOfAgvs, SnapshotOfTasks,
                DeletesTheirTasks, SnapshotIsWhole, OfferIsSame, Same, Deletes
<1>2. ASSUME NEW c \in Clients,
             \/ \E m \in Models : OpenModel(c, m) \/ RenameModel(c, m) \/ InsertModel(c, m)
                                  \/ DeleteModelTemplate(c, m)
             \/ DeleteTemplate(c) \/ InsertTemplate(c) \/ RenameTemplate(c) \/ CommitRename(c)
             \/ SaveFails(c) \/ LeaveModel(c) \/ InsertModelRows(c)
             \/ DeleteModel(c) \/ CommitModel(c) \/ ModelFails(c)
             \/ OpenDeleteDialog(c) \/ Cancel(c)
      PROVE  FleetInv'
  BY <1>2, QuietSteps
<1>3. ASSUME NEW c \in Clients,
             \/ \E a \in Agvs : InsertAgv(c, a)
             \/ CopyModelTasksToAgv(c)
             \/ \E S \in SUBSET Agvs : LoadAgvSnapshot(c, S)
             \/ LoadTaskSnapshot(c) \/ DeleteTasks(c) \/ DeleteAgvs(c) \/ CommitDelete(c)
             \/ DeleteFails(c) \/ RestoreDeletedAgvs(c) \/ ToastGone(c)
             \/ \E a, b \in Agvs : RenameAgv(c, a, b)
      PROVE  FleetInv'
  BY <1>0, <1>3, InsertAgvStep, CopyStep, LoadAgvsStep, LoadTasksStep, DeleteTasksStep, DeleteAgvsStep,
     CommitDeleteStep, DeleteFailsStep, RestoreStep, ToastStep, RenameAgvStep
<1> QED
  BY <1>1, <1>2, <1>3 DEF Next

\* OneCopyEach: copyModelTasksToAgv, deleteByIds, restoreDeletedAgvs and saveAgvInfo of any
\* number of programs leave an AGV at most one copy of its tasks, and no task without its
\* AGV, unless two of them handle that AGV at the same time.
THEOREM CopiesAreSingle == Spec => []OneCopyEach
<1>1. FleetInv => OneCopyEach
  BY DEF FleetInv
<1> QED
  BY <1>1, InitType, NextType, InitFleet, NextFleet, PTL DEF Spec

\* UndoIsWhole: the snapshot that the toast offers to restore is what the last deletion
\* removed.
THEOREM UndoRestoresAll == Spec => []UndoIsWhole
<1>1. FleetInv => UndoIsWhole
  <2>1. SUFFICES ASSUME FleetInv, NEW c \in Clients, toast[c], op[c].at = "idle", ~spoiled[c]
                 PROVE  Same(c)
    BY DEF UndoIsWhole, Same
  <2> QED
    BY <2>1 DEF FleetInv, KnowsItsAgvs, OfferIsSame, Deletes
<1> QED
  BY <1>1, InitType, NextType, InitFleet, NextFleet, PTL DEF Spec
=============================================================================
