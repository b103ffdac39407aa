----------------------- MODULE FleetCatalog_templates -----------------------
(***************************************************************************)
(* Proofs about the catalogue in FleetCatalog: the template of a model is  *)
(* what one save wrote, under the name the model has now, and goes with    *)
(* its model, for any number of programs, models and saves.                *)
(***************************************************************************)
EXTENDS FleetCatalog_proofs

-----------------------------------------------------------------------------
(* What an operation on a model knows, unless the model's template is loose. *)

\* The names that the transaction of c holds: of the row of agv_models it found, and the
\* one that row gets.
Held(c) == IF op[c].hit # {} THEN {op[c].model, op[c].name} \ {NoModel} ELSE {}

\* No two transactions hold the same name.
HeldOnce == \A c, d \in Clients : c # d => Held(c) \cap Held(d) = {}

\* The row a transaction found is there until it commits, and its new name is vacant.
HitsItsModel(c) ==
    /\ op[c].hit # {} => /\ op[c].at \in {"scrap", "rename", "renamed"}
                         /\ op[c].hit = {op[c].model}
                         /\ op[c].model \in models /\ op[c].name \notin models
    /\ op[c].at \notin {"rename", "renamed"} => op[c].name = NoModel

\* A renaming that found no row: if there is such a model now, another program has just
\* added it, or its template is loose.
MissesItsModel(c) ==
    op[c].at \in {"rename", "renamed"} /\ op[c].hit = {} =>
        \/ op[c].model \notin models \/ op[c].model \in loose
        \/ \E d \in Clients \ {c} : op[d].at = "rows" /\ op[d].model = op[c].model

\* The rows c has deleted or renamed are all that its model has, and a new model has none.
HoldsAllRows(c) ==
    /\ \A r \in op[c].old : r.model = op[c].model
    /\ op[c].at \in {"insert", "renamed"} /\ op[c].model \notin loose => Rows(op[c].model) \subseteq op[c].old
    /\ op[c].at = "rows" /\ op[c].model \notin loose => Rows(op[c].model) = {}

KnowsItsModel(c) == HitsItsModel(c) /\ MissesItsModel(c) /\ HoldsAllRows(c)

CatalogueInv == OneTemplate /\ HeldOnce /\ \A c \in Clients : KnowsItsModel(c)

-----------------------------------------------------------------------------
(* Steps and the operations of the others.                                 *)

\* What Writes marks: a model that is not marked is there, was not loose, and no other
\* operation is about any model of M.
LEMMA WritesFacts ==
    ASSUME NEW c \in Clients, NEW M, Writes(c, M)
    PROVE  /\ loose \subseteq loose'
           /\ \A m \in M : m \notin loose' =>
                 /\ m \in models' /\ M \cap loose = {}
                 /\ \A d \in Clients \ {c} : M \cap Catalogues(d) = {}
BY DEF Writes

\* What d knows of its model stays true when the others
\* - add no row to it, unless it is loose then;
\* - leave the row of agv_models that d found, and its new name;
\* - add no model that d has missed, unless its rows are still to come;
\* - end no addition of such a model, unless it is loose then.
LEMMA OthersModel ==
    ASSUME TypeOK, TypeOK', NEW c \in Clients, NEW d \in Clients \ {c}, KnowsItsModel(d), OthersKept(c),
           loose \subseteq loose',
           op[d].at \in {"insert", "rows", "renamed"} /\ op[d].model \notin loose' =>
               \A r \in template' : r.model = op[d].model => r \in template,
           op[d].hit # {} => op[d].model \in models' /\ op[d].name \notin models',
           op[d].at \in {"rename", "renamed"} /\ op[d].model \in models' \ loose' =>
               op[d].model \in models \/ (op'[c].at = "rows" /\ op'[c].model = op[d].model),
           op[d].at \in {"rename", "renamed"} /\ op[c].at = "rows" /\ op[c].model = op[d].model =>
               op[d].model \in loose'
    PROVE  KnowsItsModel(d)'
<1>0. /\ op'[d].at = op[d].at /\ op'[d].model = op[d].model /\ op'[d].name = op[d].name
      /\ op'[d].hit = op[d].hit /\ op'[d].old = op[d].old
      /\ \A e \in Clients \ {c} : op'[e].at = op[e].at /\ op'[e].model = op[e].model
  BY DEF OthersKept, SameOp
<1>1. HitsItsModel(d)'
  BY <1>0 DEF KnowsItsModel, HitsItsModel
<1>2. MissesItsModel(d)'
  <2>1. SUFFICES ASSUME op[d].at \in {"rename", "renamed"}, op[d].hit = {},
                        op[d].model \in models', op[d].model \notin loose'
                 PROVE  \E e \in Clients \ {d} : op'[e].at = "rows" /\ op'[e].model = op[d].model
    BY <1>0 DEF MissesItsModel
  <2>2. CASE op'[c].at = "rows" /\ op'[c].model = op[d].model
    BY <2>2
  <2>3. CASE op[d].model \in models
    <3>1. PICK e \in Clients \ {d} : op[e].at = "rows" /\ op[e].model = op[d].model
      BY <2>1, <2>3 DEF KnowsItsModel, MissesItsModel
    <3>2. e # c
      BY <2>1, <3>1
    <3> QED
      BY <1>0, <3>1, <3>2
  <2> QED
    BY <2>1, <2>2, <2>3
<1>3. HoldsAllRows(d)'
  <2>1. \A r \in op'[d].old : r.model = op'[d].model
    BY <1>0 DEF KnowsItsModel, HoldsAllRows
  <2>2. ASSUME op[d].at \in {"insert", "rows", "renamed"}, op[d].model \notin loose'
        PROVE  \A r \in template' : r.model = op'[d].model => r \in Rows(op[d].model)
    BY <1>0, <2>2 DEF Rows
  <2>3. /\ op[d].at \in {"insert", "renamed"} /\ op[d].model \notin loose'
              => Rows(op[d].model) \subseteq op[d].old
        /\ op[d].at = "rows" /\ op[d].model \notin loose' => Rows(op[d].model) = {}
    BY DEF KnowsItsModel, HoldsAllRows
  <2>4. /\ op[d].at \in {"insert", "renamed"} /\ op[d].model \notin loose'
              => \A r \in template' : r.model = op'[d].model => r \in op'[d].old
        /\ op[d].at = "rows" /\ op[d].model \notin loose' => \A r \in template' : r.model # op'[d].model
    BY <1>0, <2>2, <2>3
  <2> QED
    BY <1>0, <2>1, <2>4 DEF HoldsAllRows, Rows
<1> QED
  BY <1>1, <1>2, <1>3 DEF KnowsItsModel

\* A step of c keeps the invariant when it keeps what everybody knows and the templates, and
\* c holds no name that others hold.
LEMMA CatalogueStep ==
    ASSUME CatalogueInv, NEW c \in Clients, OthersKept(c), OneTemplate', KnowsItsModel(c)',
           \A d \in Clients \ {c} : KnowsItsModel(d)' /\ Held(c)' \cap Held(d) = {}
    PROVE  CatalogueInv'
<1>1. \A d \in Clients \ {c} : Held(d)' = Held(d)
  BY DEF OthersKept, SameOp, Held
<1>2. HeldOnce'
  <2>1. SUFFICES ASSUME NEW d \in Clients, NEW e \in Clients, d # e
                 PROVE  Held(d)' \cap Held(e)' = {}
    BY DEF HeldOnce
  <2>2. CASE d # c /\ e # c
    BY <1>1, <2>1, <2>2 DEF CatalogueInv, HeldOnce
  <2>3. CASE d = c \/ e = c
    BY <1>1, <2>1, <2>3
  <2> QED
    BY <2>2, <2>3
<1> QED
  BY <1>2 DEF CatalogueInv

\* A step that touches neither a model nor a template, of a program that adds no model.
LEMMA QuietModelStep ==
    ASSUME TypeOK, TypeOK', CatalogueInv, NEW c \in Clients, OthersKept(c), UNCHANGED catalogue,
           op[c].at # "rows", KnowsItsModel(c)',
           \A d \in Clients \ {c} : Held(c)' \cap Held(d) = {}
    PROVE  CatalogueInv'
<1>1. UNCHANGED <<models, template, loose>>
  BY DEF catalogue
<1>2. ASSUME NEW d \in Clients \ {c} PROVE KnowsItsModel(d)'
  <2>1. KnowsItsModel(d)
    BY DEF CatalogueInv
  <2>2. op[d].hit # {} => op[d].model \in models' /\ op[d].name \notin models'
    BY <1>1, <2>1 DEF KnowsItsModel, HitsItsModel
  <2>3. /\ loose \subseteq loose'
        /\ op[d].at \in {"insert", "rows", "renamed"} /\ op[d].model \notin loose' =>
               \A r \in template' : r.model = op[d].model => r \in template
        /\ op[d].at \in {"rename", "renamed"} /\ op[d].model \in models' \ loose' =>
               op[d].model \in models \/ (op'[c].at = "rows" /\ op'[c].model = op[d].model)
        /\ op[d].at \in {"rename", "renamed"} /\ op[c].at = "rows" /\ op[c].model = op[d].model =>
               op[d].model \in loose'
    BY <1>1
  <2> HIDE <1>1
  <2> QED
    BY <2>1, <2>2, <2>3, OthersModel
<1>3. OneTemplate'
  BY <1>1 DEF CatalogueInv, OneTemplate, Rows
<1> QED
  BY <1>2, <1>3, CatalogueStep

\* An operation that is no renaming, deletion or save knows no model.
LEMMA KnowsNothing ==
    ASSUME NEW c \in Clients,
           op'[c].at \notin {"insert", "rows", "models", "scrap", "rename", "renamed"},
           op'[c].hit = {}, op'[c].name = NoModel, \A r \in op'[c].old : r.model = op'[c].model
    PROVE  KnowsItsModel(c)' /\ Held(c)' = {}
BY DEF KnowsItsModel, HitsItsModel, MissesItsModel, HoldsAllRows, Held

-----------------------------------------------------------------------------
(* The steps.                                                              *)

\* What c knows, as facts about its operation.
LEMMA Known ==
    ASSUME CatalogueInv, NEW c \in Clients
    PROVE  /\ op[c].hit # {} => /\ op[c].at \in {"scrap", "rename", "renamed"}
                                /\ op[c].hit = {op[c].model}
                                /\ op[c].model \in models /\ op[c].name \notin models
           /\ op[c].at \notin {"rename", "renamed"} => op[c].name = NoModel
           /\ \A r \in op[c].old : r.model = op[c].model
           /\ op[c].at \in {"insert", "renamed"} /\ op[c].model \notin loose =>
                 \A r \in template : r.model = op[c].model => r \in op[c].old
           /\ op[c].at = "rows" /\ op[c].model \notin loose => \A r \in template : r.model # op[c].model
           /\ \A d \in Clients \ {c} : Held(c) \cap Held(d) = {}
BY DEF CatalogueInv, KnowsItsModel, HitsItsModel, HoldsAllRows, Rows, HeldOnce

\* The rows of a model that is not loose: one, and the model.
LEMMA OneRow ==
    ASSUME TypeOK, CatalogueInv, NEW r \in template, r.model \notin loose
    PROVE  r.model \in models /\ \A q \in template : q.model = r.model => q = r
BY DEF CatalogueInv, OneTemplate, Rows, TypeOK, Template

\* A page is opened or left, a save or a deletion fails, an operation on AGVs goes on: c
\* knows no model.
LEMMA ForgetsStep ==
    ASSUME TypeOK, TypeOK', CatalogueInv, NEW c \in Clients, OthersKept(c), UNCHANGED catalogue,
           op[c].at # "rows",
           op'[c].at \notin {"insert", "rows", "models", "scrap", "rename", "renamed"},
           op'[c].hit = {}, op'[c].name = NoModel, \A r \in op'[c].old : r.model = op'[c].model
    PROVE  CatalogueInv'
<1>1. KnowsItsModel(c)' /\ Held(c)' = {}
  BY KnowsNothing
<1> QED
  BY <1>1, QuietModelStep

\* The DELETE of a template, of a page or of the dialog: the rows found are all there are.
LEMMA DeleteRowsStep ==
    ASSUME TypeInv, TypeInv', CatalogueInv, NEW c \in Clients,
           DeleteTemplate(c) \/ \E m \in Models : DeleteModelTemplate(c, m)
    PROVE  CatalogueInv'
<1>1. op[c].at \in {"page", "idle"} /\ UNCHANGED catalogue
  BY DEF DeleteTemplate, DeleteModelTemplate, Begin
<1>2. op[c].hit = {} /\ op[c].name = NoModel
  BY <1>1, Known
<1>3. /\ OthersKept(c) /\ op'[c].at \in {"insert", "models"} /\ op'[c].old = Rows(op'[c].model)
      /\ op'[c].hit = {} /\ op'[c].name = NoModel
  BY <1>2, CatalogueOps DEF Saves, Becomes
<1>4. \A m : Rows(m)' = Rows(m)
  BY <1>1 DEF catalogue, Rows
<1>5. HoldsAllRows(c)'
  <2>1. \A r \in op'[c].old : r.model = op'[c].model
    BY <1>3 DEF Rows
  <2>2. op'[c].at # "rows" /\ Rows(op[c].model)' \subseteq op'[c].old
    BY <1>1, <1>3 DEF catalogue, Rows
  <2> QED
    BY <2>1, <2>2 DEF HoldsAllRows
<1>6. KnowsItsModel(c)' /\ Held(c)' = {}
  BY <1>3, <1>5 DEF KnowsItsModel, HitsItsModel, MissesItsModel, Held
<1> QED
  BY <1>1, <1>3, <1>6, QuietModelStep DEF TypeInv

\* The UPDATE of agv_models: it finds the row, whose new name is vacant, or there is none.
LEMMA RenameModelStep ==
    ASSUME TypeInv, TypeInv', CatalogueInv, NEW c \in Clients, NEW n \in Models, RenameModel(c, n)
    PROVE  CatalogueInv'
<1>1. /\ op[c].at = "page" /\ n # op[c].model /\ UNCHANGED catalogue
      /\ op[c].model \in models =>
            n \notin models /\ \A d \in Clients : op[d].hit = {} \/ n \notin Catalogues(d)
      /\ \A d \in Clients : op[c].model \notin op[d].hit
  BY DEF RenameModel, Unnamed, Unlocked
<1>2. /\ OthersKept(c) /\ op'[c].at = "rename" /\ op'[c].model = op[c].model /\ op'[c].name = n
      /\ op'[c].hit = {op[c].model} \cap models /\ op'[c].old = op[c].old
  <2>1. Saves(c, "rename", op[c].old, n, {op[c].model} \cap models)
    BY CatalogueOps
  <2> QED
    BY <2>1 DEF Saves, Becomes
<1>3. UNCHANGED <<models, template, loose>>
  BY <1>1 DEF catalogue
<1>4. KnowsItsModel(c)'
  <2>1. HitsItsModel(c)'
    BY <1>1, <1>2, <1>3 DEF HitsItsModel
  <2>2. MissesItsModel(c)'
    BY <1>1, <1>2, <1>3 DEF MissesItsModel
  <2>3. HoldsAllRows(c)'
    BY <1>1, <1>2, Known DEF HoldsAllRows
  <2> QED
    BY <2>1, <2>2, <2>3 DEF KnowsItsModel
<1>5. ASSUME NEW d \in Clients \ {c} PROVE Held(c)' \cap Held(d) = {}
  <2>1. CASE op[c].model \notin models \/ op[d].hit = {}
    BY <1>2, <2>1 DEF Held
  <2>2. CASE op[c].model \in models /\ op[d].hit # {}
    <3>1. /\ op[d].at \in {"scrap", "rename", "renamed"} /\ op[d].hit = {op[d].model}
          /\ op[d].name \notin models
      BY <2>2, Known
    <3>2. n \notin {op[d].model, op[d].name} \ {NoModel}
      BY <1>1, <2>2, <3>1 DEF Catalogues
    <3> QED
      BY <1>1, <1>2, <2>2, <3>1, <3>2 DEF Held
  <2> QED
    BY <2>1, <2>2
<1> QED
  BY <1>1, <1>2, <1>4, <1>5, QuietModelStep DEF TypeInv

\* The UPDATE of the template: the rows found are all there are.
LEMMA RenameTemplateStep ==
    ASSUME TypeInv, TypeInv', CatalogueInv, NEW c \in Clients, RenameTemplate(c)
    PROVE  CatalogueInv'
<1>1. op[c].at = "rename" /\ UNCHANGED catalogue
  BY DEF RenameTemplate
<1>2. /\ OthersKept(c) /\ op'[c].at = "renamed" /\ op'[c].model = op[c].model /\ op'[c].name = op[c].name
      /\ op'[c].hit = op[c].hit /\ op'[c].old = Rows(op[c].model)
  <2>1. Saves(c, "renamed", Rows(op[c].model), op[c].name, op[c].hit)
    BY CatalogueOps
  <2> QED
    BY <2>1 DEF Saves, Becomes
<1>3. UNCHANGED <<models, template, loose>>
  BY <1>1 DEF catalogue
<1>4. KnowsItsModel(c)'
  <2>1. HitsItsModel(c)'
    BY <1>1, <1>2, <1>3, Known DEF HitsItsModel
  <2>2. MissesItsModel(c)'
    <3>1. MissesItsModel(c) /\ \A d \in Clients \ {c} : op'[d].at = op[d].at /\ op'[d].model = op[d].model
      BY <1>2 DEF CatalogueInv, KnowsItsModel, OthersKept, SameOp
    <3> QED
      BY <1>1, <1>2, <1>3, <3>1 DEF MissesItsModel
  <2>3. HoldsAllRows(c)'
    BY <1>2, <1>3 DEF HoldsAllRows, Rows
  <2> QED
    BY <2>1, <2>2, <2>3 DEF KnowsItsModel
<1>5. Held(c)' = Held(c)
  BY <1>2 DEF Held
<1>6. \A d \in Clients \ {c} : Held(c)' \cap Held(d) = {}
  BY <1>5, Known
<1> QED
  BY <1>1, <1>2, <1>4, <1>6, QuietModelStep DEF TypeInv

\* The DELETE of the model.
LEMMA DeleteModelStep ==
    ASSUME TypeInv, TypeInv', CatalogueInv, NEW c \in Clients, DeleteModel(c)
    PROVE  CatalogueInv'
<1>1. /\ op[c].at = "models" /\ UNCHANGED catalogue /\ op[c].name = NoModel
      /\ \A d \in Clients : op[c].model \notin op[d].hit
  BY Known DEF DeleteModel, At, Unlocked
<1>2. /\ OthersKept(c) /\ op'[c].at = "scrap" /\ op'[c].model = op[c].model /\ op'[c].name = NoModel
      /\ op'[c].hit = {op[c].model} \cap models /\ op'[c].old = op[c].old
  <2>1. Saves(c, "scrap", op[c].old, op[c].name, {op[c].model} \cap models)
    BY CatalogueOps
  <2> QED
    BY <1>1, <2>1 DEF Saves, Becomes
<1>3. UNCHANGED <<models, template, loose>> /\ NoModel \notin models
  BY <1>1, NoModelIsNone DEF catalogue, TypeInv, TypeOK
<1>4. KnowsItsModel(c)'
  <2>1. HitsItsModel(c)'
    BY <1>1, <1>2, <1>3 DEF HitsItsModel
  <2>2. MissesItsModel(c)' /\ HoldsAllRows(c)'
    BY <1>1, <1>2, Known DEF MissesItsModel, HoldsAllRows
  <2> QED
    BY <2>1, <2>2 DEF KnowsItsModel
<1>5. ASSUME NEW d \in Clients \ {c} PROVE Held(c)' \cap Held(d) = {}
  <2>1. op[d].hit # {} => op[d].hit = {op[d].model} /\ op[d].name \notin models
    BY Known
  <2> QED
    BY <1>1, <1>2, <2>1 DEF Held
<1> QED
  BY <1>1, <1>2, <1>4, <1>5, QuietModelStep DEF TypeInv

\* A step that writes the templates of the models M and touches no model: only rows of M
\* are added, and nobody else is about a model of M that is not loose then.
LEMMA WriteStep ==
    ASSUME TypeInv, TypeInv', CatalogueInv, NEW c \in Clients, NEW M, Writes(c, M), OthersKept(c),
           models' = models, op[c].at = "rows" => op[c].model \in M,
           \A r \in template' : r \in template \/ r.model \in M,
           KnowsItsModel(c)', Held(c)' = {}, OneTemplate'
    PROVE  CatalogueInv'
<1>0. TypeOK /\ TypeOK' /\ loose \subseteq loose'
  BY WritesFacts DEF TypeInv
<1>1. ASSUME NEW d \in Clients \ {c} PROVE KnowsItsModel(d)'
  <2>1. KnowsItsModel(d)
    BY DEF CatalogueInv
  <2>2. ASSUME op[d].at \in {"insert", "rows", "rename", "renamed"}, op[d].model \notin loose'
        PROVE  op[d].model \notin M
    <3>1. op[d].model \in Models
      BY <2>2 DEF TypeInv, Named
    <3>2. op[d].model \in Catalogues(d)
      BY <2>2, <3>1, NoModelIsNone DEF Catalogues
    <3> QED
      BY <2>2, <3>2, WritesFacts
  <2>3. op[d].hit # {} => op[d].model \in models' /\ op[d].name \notin models'
    BY Known
  <2>4. /\ op[d].at \in {"insert", "rows", "renamed"} /\ op[d].model \notin loose' =>
               \A r \in template' : r.model = op[d].model => r \in template
        /\ op[d].at \in {"rename", "renamed"} /\ op[d].model \in models' \ loose' =>
               op[d].model \in models \/ (op'[c].at = "rows" /\ op'[c].model = op[d].model)
        /\ op[d].at \in {"rename", "renamed"} /\ op[c].at = "rows" /\ op[c].model = op[d].model =>
               op[d].model \in loose'
    BY <2>2
  <2> QED
    BY <1>0, <2>1, <2>3, <2>4, OthersModel
<1> QED
  BY <1>1, CatalogueStep

\* The INSERTs of a page's template: the new row takes the place of all the others.
LEMMA InsertTemplateStep ==
    ASSUME TypeInv, TypeInv', CatalogueInv, NEW c \in Clients, InsertTemplate(c)
    PROVE  CatalogueInv'
<1> DEFINE m == op[c].model
           new == [id |-> serial, model |-> m]
<1>1. /\ op[c].at = "insert" /\ template' = (template \ op[c].old) \cup {new} /\ models' = models
      /\ Writes(c, {m})
  BY DEF InsertTemplate, At
<1>2. BackOn(c, m)
  BY CatalogueOps
<1>3. new.model = m /\ template \subseteq Template
  BY DEF TypeInv, TypeOK
<1> HIDE DEF new
<1>4. OneTemplate'
  <2>1. SUFFICES ASSUME NEW r \in template', r.model \notin loose'
                 PROVE  r.model \in models' /\ \A q \in template' : q.model = r.model => q = r
    BY DEF OneTemplate, Rows
  <2>2. r.model \notin loose
    BY <1>1, <2>1, WritesFacts
  <2>3. CASE r.model = m
    <3>1. m \in models' /\ \A q \in template : q.model = m => q \in op[c].old
      BY <1>1, <2>1, <2>2, <2>3, WritesFacts, Known
    <3> QED
      BY <1>1, <2>1, <2>3, <3>1
  <2>4. CASE r.model # m
    <3>1. r \in template
      BY <1>1, <1>3, <2>1, <2>4
    <3>2. r.model \in models /\ \A q \in template : q.model = r.model => q = r
      BY <2>2, <3>1, OneRow DEF TypeInv
    <3> QED
      BY <1>1, <1>3, <2>4, <3>2
  <2> QED
    BY <2>3, <2>4
<1>5. KnowsItsModel(c)' /\ Held(c)' = {} /\ OthersKept(c)
  BY <1>2, KnowsNothing DEF BackOn, Becomes
<1>6. \A r \in template' : r \in template \/ r.model \in {m}
  BY <1>1, <1>3
<1> QED
  BY <1>1, <1>4, <1>5, <1>6, WriteStep

\* The rows of a new model: its first ones.
LEMMA InsertRowsStep ==
    ASSUME TypeInv, TypeInv', CatalogueInv, NEW c \in Clients, InsertModelRows(c)
    PROVE  CatalogueInv'
<1> DEFINE m == op[c].model
           new == [id |-> serial, model |-> m]
<1>1. /\ op[c].at = "rows" /\ models' = models /\ Writes(c, {m})
      /\ template' = template \/ template' = template \cup {new}
  BY DEF InsertModelRows
<1>2. BecomesIdle(c)
  BY CatalogueOps
<1>3. new.model = m
  OBVIOUS
<1> HIDE DEF new
<1>4. OneTemplate'
  <2>1. SUFFICES ASSUME NEW r \in template', r.model \notin loose'
                 PROVE  r.model \in models' /\ \A q \in template' : q.model = r.model => q = r
    BY DEF OneTemplate, Rows
  <2>2. r.model \notin loose
    BY <1>1, <2>1, WritesFacts
  <2>3. CASE r.model = m
    <3>1. m \in models' /\ \A q \in template : q.model # m
      BY <1>1, <2>1, <2>2, <2>3, WritesFacts, Known
    <3> QED
      BY <1>1, <2>1, <2>3, <3>1
  <2>4. CASE r.model # m
    <3>1. r \in template
      BY <1>1, <1>3, <2>1, <2>4
    <3>2. r.model \in models /\ \A q \in template : q.model = r.model => q = r
      BY <2>2, <3>1, OneRow DEF TypeInv
    <3> QED
      BY <1>1, <1>3, <2>4, <3>2
  <2> QED
    BY <2>3, <2>4
<1>5. KnowsItsModel(c)' /\ Held(c)' = {} /\ OthersKept(c)
  BY <1>2, KnowsNothing DEF BecomesIdle, Becomes
<1>6. \A r \in template' : r \in template \/ r.model \in {m}
  BY <1>1, <1>3
<1> QED
  BY <1>1, <1>4, <1>5, <1>6, WriteStep

\* The commit of a renaming: the model's rows go with it to a name that had none; without
\* the model both names are loose, or nothing is renamed.
LEMMA CommitRenameStep ==
    ASSUME TypeInv, TypeInv', CatalogueInv, NEW c \in Clients, CommitRename(c)
    PROVE  CatalogueInv'
<1> DEFINE m == op[c].model
           n == op[c].name
           M == IF op[c].hit # {} /\ m \notin loose THEN {n} ELSE {m, n}
           Renamed(r) == IF r \in op[c].old THEN [r EXCEPT !.model = n] ELSE r
<1>1. /\ op[c].at = "renamed" /\ models' = {IF k \in op[c].hit THEN n ELSE k : k \in models}
      /\ template' = {Renamed(r) : r \in template} /\ Writes(c, M)
  BY DEF CommitRename, At
<1>2. /\ BackOn(c, n) /\ m \in Models /\ n \in Models
  BY <1>1, CatalogueOps DEF TypeInv, Named
<1>3. /\ template \subseteq Template /\ n \in M /\ loose \subseteq loose'
      /\ \A k \in M \ loose' : /\ k \in models' /\ M \cap loose = {}
                              /\ \A d \in Clients \ {c} : M \cap Catalogues(d) = {}
  <2>1. /\ loose \subseteq loose'
        /\ \A k \in M : k \notin loose' => /\ k \in models' /\ M \cap loose = {}
                                          /\ \A d \in Clients \ {c} : M \cap Catalogues(d) = {}
    BY <1>1, WritesFacts
  <2>2. n \in M /\ template \subseteq Template
    BY DEF TypeInv, TypeOK
  <2> HIDE DEF M
  <2> QED
    BY <2>1, <2>2
<1>4. \A p \in template' : \E r \in template :
          \/ p = r /\ r \notin op[c].old
          \/ r \in op[c].old /\ p = [r EXCEPT !.model = n] /\ p.model = n /\ r.model = m
  BY <1>1, <1>3, Known DEF Template
<1>5. /\ op[c].hit # {} => /\ op[c].hit = {m} /\ m \in models /\ n \notin models
                           /\ \A k : k \in models' <=> k = n \/ (k \in models /\ k # m)
      /\ op[c].hit = {} => models' = models
  BY <1>1, Known
<1> HIDE DEF M
<1>6. ASSUME op[c].hit = {} PROVE n \in loose' \/ (template' = template /\ m \notin models)
  <2>1. SUFFICES ASSUME n \notin loose' PROVE template' = template /\ m \notin models
    OBVIOUS
  <2>2. m \in M /\ M \cap loose = {} /\ \A d \in Clients \ {c} : M \cap Catalogues(d) = {}
    BY <1>3, <1>6, <2>1 DEF M
  <2>3. m \notin models
    <3>1. ASSUME NEW d \in Clients \ {c}, op[d].at = "rows" PROVE op[d].model # m
      <4>1. op[d].model \in Catalogues(d)
        BY <3>1, NoModelIsNone DEF Catalogues, TypeInv, Named
      <4> QED
        BY <2>2, <4>1
    <3>2. MissesItsModel(c)
      BY DEF CatalogueInv, KnowsItsModel
    <3> QED
      BY <1>1, <1>6, <2>2, <3>1, <3>2 DEF MissesItsModel
  <2>4. \A r \in template : r.model # m
    BY <2>2, <2>3, OneRow DEF TypeInv
  <2>5. \A r \in template : Renamed(r) = r
    BY <2>4, Known
  <2> QED
    BY <1>1, <2>3, <2>5
<1>7. ASSUME NEW d \in Clients \ {c}, op[d].at \in {"insert", "rows", "rename", "renamed"},
             op[d].model \notin loose'
      PROVE  op[d].model # n
  <2>1. op[d].model \in Models
    BY <1>7 DEF TypeInv, Named
  <2>2. op[d].model \in Catalogues(d)
    BY <1>7, <2>1, NoModelIsNone DEF Catalogues
  <2> QED
    BY <1>3, <1>7, <2>2
<1>8. OneTemplate'
  <2>1. SUFFICES ASSUME NEW p \in template', p.model \notin loose'
                 PROVE  p.model \in models' /\ \A q \in template' : q.model = p.model => q = p
    BY DEF OneTemplate, Rows
  <2>2. CASE op[c].hit = {} /\ n \in loose'
    <3>1. p \in template /\ \A q \in template' : q.model = p.model => q \in template
      BY <1>4, <2>1, <2>2
    <3>2. p.model \notin loose
      BY <1>3, <2>1
    <3> QED
      BY <1>5, <2>2, <3>1, <3>2, OneRow DEF TypeInv
  <2>3. CASE op[c].hit = {} /\ template' = template
    <3>1. p \in template /\ p.model \notin loose
      BY <1>3, <2>1, <2>3
    <3> QED
      BY <1>5, <2>3, <3>1, OneRow DEF TypeInv
  <2>4. CASE op[c].hit # {} /\ p.model = n
    <3>1. m \notin loose /\ n \notin loose /\ \A r \in template : r.model # n
      BY <1>3, <1>5, <2>1, <2>4, OneRow DEF M, TypeInv
    <3>2. \A q \in template' : q.model = n => \E r \in template : r.model = m /\ q = [r EXCEPT !.model = n]
      BY <1>4, <3>1
    <3>3. \A r, q \in template : r.model = m /\ q.model = m => r = q
      BY <3>1, OneRow DEF TypeInv
    <3> QED
      BY <1>5, <2>1, <2>4, <3>2, <3>3
  <2>5. CASE op[c].hit # {} /\ p.model # n
    <3>1. p \in template /\ p \notin op[c].old /\ \A q \in template' : q.model = p.model => q \in template
      BY <1>4, <2>1, <2>5
    <3>2. p.model \notin loose /\ p.model \in models /\ \A q \in template : q.model = p.model => q = p
      BY <1>3, <2>1, <3>1, OneRow DEF TypeInv
    <3>3. p.model # m
      BY <1>1, <3>1, <3>2, Known
    <3> QED
      BY <1>5, <2>5, <3>1, <3>2, <3>3
  <2> QED
    BY <1>6, <2>2, <2>3, <2>4, <2>5
<1>9. KnowsItsModel(c)' /\ Held(c)' = {} /\ OthersKept(c)
  BY <1>2, KnowsNothing DEF BackOn, Becomes
<1>10. ASSUME NEW d \in Clients \ {c} PROVE KnowsItsModel(d)'
  <2>1. KnowsItsModel(d) /\ loose \subseteq loose'
    BY <1>3 DEF CatalogueInv
  <2>2. op[d].at \in {"insert", "rows", "renamed"} /\ op[d].model \notin loose' =>
            \A r \in template' : r.model = op[d].model => r \in template
    BY <1>4, <1>7
  <2>3. op[d].hit # {} => op[d].model \in models' /\ op[d].name \notin models'
    <3>1. SUFFICES ASSUME op[d].hit # {} PROVE op[d].model \in models' /\ op[d].name \notin models'
      OBVIOUS
    <3>2. op[d].model \in models /\ op[d].name \notin models /\ op[d].model # NoModel
      BY <3>1, Known, NoModelIsNone DEF TypeInv, TypeOK
    <3>3. CASE op[c].hit # {}
      <4>1. {m, n} \subseteq Held(c) /\ op[d].model \in Held(d)
            /\ (op[d].name # NoModel => op[d].name \in Held(d)) /\ n # NoModel
        BY <1>2, <3>1, <3>2, <3>3, NoModelIsNone DEF Held
      <4>2. op[d].model # m /\ op[d].name # n
        BY <4>1, Known
      <4> QED
        BY <1>5, <3>2, <3>3, <4>2
    <3> QED
      BY <1>5, <3>2, <3>3
  <2>4. op[d].at \in {"rename", "renamed"} /\ op[d].model \in models' \ loose' =>
            op[d].model \in models \/ (op'[c].at = "rows" /\ op'[c].model = op[d].model)
    BY <1>5, <1>7
  <2>5. op[d].at \in {"rename", "renamed"} /\ op[c].at = "rows" /\ op[c].model = op[d].model =>
            op[d].model \in loose'
    BY <1>1
  <2> QED
    BY <1>9, <2>1, <2>2, <2>3, <2>4, <2>5, OthersModel DEF TypeInv
<1> QED
  BY <1>8, <1>9, <1>10, CatalogueStep

\* A new model: it had no rows, and no transaction holds its name.
LEMMA InsertModelStep ==
    ASSUME TypeInv, TypeInv', CatalogueInv, NEW c \in Clients, NEW m \in Models, InsertModel(c, m)
    PROVE  CatalogueInv'
<1>1. /\ op[c].at = "idle" /\ models' = models \cup {m} /\ m \notin models
      /\ \A d \in Clients : op[d].hit = {} \/ m \notin Catalogues(d)
      /\ UNCHANGED <<template, loose>>
  BY DEF InsertModel, Begin, Unnamed
<1>2. /\ OthersKept(c) /\ op'[c].at = "rows" /\ op'[c].model = m /\ op'[c].hit = {}
      /\ op'[c].old = {} /\ op'[c].name = NoModel
  <2>1. Becomes(c, "rows", {}, {}, {}, m, NoModel, {})
    BY CatalogueOps
  <2> QED
    BY <2>1 DEF Becomes
<1>3. OneTemplate'
  BY <1>1 DEF CatalogueInv, OneTemplate, Rows
<1>4. KnowsItsModel(c)' /\ Held(c)' = {}
  <2>1. m \notin loose => \A r \in template : r.model # m
    BY <1>1, OneRow DEF TypeInv
  <2> QED
    BY <1>1, <1>2, <2>1 DEF KnowsItsModel, HitsItsModel, MissesItsModel, HoldsAllRows, Rows, Held
<1>5. ASSUME NEW d \in Clients \ {c} PROVE KnowsItsModel(d)'
  <2>1. KnowsItsModel(d)
    BY DEF CatalogueInv
  <2>2. op[d].hit # {} => op[d].model \in models' /\ op[d].name \notin models'
    <3>1. SUFFICES ASSUME op[d].hit # {} PROVE op[d].model \in models' /\ op[d].name \notin models'
      OBVIOUS
    <3>2. op[d].at \in {"scrap", "rename", "renamed"} /\ op[d].model \in models /\ op[d].name \notin models
      BY <3>1, Known
    <3>3. m \notin {op[d].model, op[d].name} \ {NoModel} /\ m # NoModel
      BY <1>1, <3>1, <3>2, NoModelIsNone DEF Catalogues
    <3> QED
      BY <1>1, <3>2, <3>3
  <2>3. /\ loose \subseteq loose'
        /\ op[d].at \in {"insert", "rows", "renamed"} /\ op[d].model \notin loose' =>
               \A r \in template' : r.model = op[d].model => r \in template
        /\ op[d].at \in {"rename", "renamed"} /\ op[d].model \in models' \ loose' =>
               op[d].model \in models \/ (op'[c].at = "rows" /\ op'[c].model = op[d].model)
        /\ op[d].at \in {"rename", "renamed"} /\ op[c].at = "rows" /\ op[c].model = op[d].model =>
               op[d].model \in loose'
    BY <1>1, <1>2
  <2> QED
    BY <1>2, <2>1, <2>2, <2>3, OthersModel DEF TypeInv
<1> QED
  BY <1>2, <1>3, <1>4, <1>5, CatalogueStep

\* The commit of a model's deletion: the rows found go with it.
LEMMA CommitModelStep ==
    ASSUME TypeInv, TypeInv', CatalogueInv, NEW c \in Clients, CommitModel(c)
    PROVE  CatalogueInv'
<1> DEFINE m == op[c].model
<1>1. /\ op[c].at = "scrap" /\ models' = models \ op[c].hit /\ template' = template \ op[c].old
      /\ loose \subseteq loose' /\ (m \notin loose' => \A r \in template : r.model = m => r \in op[c].old)
  BY DEF CommitModel, Rows
<1>2. OthersKept(c) /\ KnowsItsModel(c)' /\ Held(c)' = {}
  <2>1. BecomesIdle(c)
    BY CatalogueOps
  <2> QED
    BY <2>1, KnowsNothing DEF BecomesIdle, Becomes
<1>3. op[c].hit = {} \/ (op[c].hit = {m} /\ m \in models)
  BY Known
<1>4. OneTemplate'
  <2>1. SUFFICES ASSUME NEW r \in template', r.model \notin loose'
                 PROVE  r.model \in models' /\ \A q \in template' : q.model = r.model => q = r
    BY DEF OneTemplate, Rows
  <2>2. r \in template /\ r.model \in models /\ \A q \in template : q.model = r.model => q = r
    BY <1>1, <2>1, OneRow DEF TypeInv
  <2>3. r.model # m
    BY <1>1, <2>1, <2>2
  <2> QED
    BY <1>1, <1>3, <2>2, <2>3
<1>5. ASSUME NEW d \in Clients \ {c} PROVE KnowsItsModel(d)'
  <2>1. KnowsItsModel(d)
    BY DEF CatalogueInv
  <2>2. op[d].hit # {} => op[d].model \in models' /\ op[d].name \notin models'
    <3>1. SUFFICES ASSUME op[d].hit # {} PROVE op[d].model \in models' /\ op[d].name \notin models'
      OBVIOUS
    <3>2. op[d].model \in models /\ op[d].name \notin models /\ op[d].model # NoModel
      BY <3>1, Known, NoModelIsNone DEF TypeInv, TypeOK
    <3>3. op[d].model \notin op[c].hit
      BY <1>3, <3>1, <3>2, Known DEF Held
    <3> QED
      BY <1>1, <3>2, <3>3
  <2>3. /\ op[d].at \in {"insert", "rows", "renamed"} /\ op[d].model \notin loose' =>
               \A r \in template' : r.model = op[d].model => r \in template
        /\ op[d].at \in {"rename", "renamed"} /\ op[d].model \in models' \ loose' =>
               op[d].model \in models \/ (op'[c].at = "rows" /\ op'[c].model = op[d].model)
        /\ op[d].at \in {"rename", "renamed"} /\ op[c].at = "rows" /\ op[c].model = op[d].model =>
               op[d].model \in loose'
    BY <1>1
  <2> QED
    BY <1>1, <1>2, <2>1, <2>2, <2>3, OthersModel DEF TypeInv
<1> QED
  BY <1>2, <1>4, <1>5, CatalogueStep

-----------------------------------------------------------------------------
(* The theorem.                                                            *)

\* At the start one model has one row.
LEMMA InitCatalogue == Init => CatalogueInv
<1> SUFFICES ASSUME Init PROVE CatalogueInv
  OBVIOUS
<1>1. OneTemplate
  BY DEF Init, OneTemplate, Rows
<1>2. ASSUME NEW c \in Clients PROVE KnowsItsModel(c) /\ Held(c) = {}
  BY DEF Init, Idle, KnowsItsModel, HitsItsModel, MissesItsModel, HoldsAllRows, Held
<1> QED
  BY <1>1, <1>2 DEF CatalogueInv, HeldOnce

\* Nothing is known of a model after a step that leaves a page or a deletion.
LEMMA LeavingSteps ==
    ASSUME TypeInv, TypeInv', CatalogueInv, NEW c \in Clients,
           \/ \E m \in Models : OpenModel(c, m)
           \/ SaveFails(c) \/ LeaveModel(c) \/ ModelFails(c)
    PROVE  CatalogueInv'
<1>1. op[c].at # "rows" /\ UNCHANGED catalogue
  BY DEF OpenModel, SaveFails, LeaveModel, ModelFails, Begin
<1>2. BecomesIdle(c) \/ \E m : BackOn(c, m)
  BY CatalogueOps
<1>3. /\ OthersKept(c) /\ op'[c].at \in {"idle", "page"} /\ op'[c].hit = {} /\ op'[c].name = NoModel
      /\ op'[c].old = {}
  BY <1>2 DEF BecomesIdle, BackOn, Becomes
<1> QED
  BY <1>1, <1>3, ForgetsStep DEF TypeInv

\* The operations on AGVs touch no model.
LEMMA AgvSteps ==
    ASSUME TypeInv, TypeInv', CatalogueInv, NEW c \in Clients,
           \/ \E a \in Agvs : InsertAgv(c, a)
           \/ CopyModelTasksToAgv(c) \/ OpenDeleteDialog(c) \/ Cancel(c)
           \/ \E S \in SUBSET Agvs : LoadAgvSnapshot(c, S)
           \/ LoadTaskSnapshot(c) \/ DeleteTasks(c) \/ DeleteAgvs(c) \/ CommitDelete(c) \/ DeleteFails(c)
           \/ RestoreDeletedAgvs(c) \/ ToastGone(c)
           \/ \E a, b \in Agvs : RenameAgv(c, a, b)
    PROVE  CatalogueInv'
<1> DEFINE quiet == {"idle", "copy", "choose", "tasks", "wipe", "drop", "commit", "page"}
           Forgets == /\ OthersKept(c) /\ op'[c].at \in quiet
                      /\ op'[c].hit = {} /\ op'[c].name = NoModel
                      /\ \A r \in op'[c].old : r.model = op'[c].model
<1>1. op[c].at \in quiet /\ UNCHANGED catalogue
  BY DEF InsertAgv, CopyModelTasksToAgv, OpenDeleteDialog, Cancel, LoadAgvSnapshot, LoadTaskSnapshot,
         DeleteTasks, DeleteAgvs, CommitDelete, DeleteFails, RestoreDeletedAgvs, ToastGone, RenameAgv, Begin, At
<1>2. op[c].hit = {} /\ op[c].name = NoModel /\ \A r \in op[c].old : r.model = op[c].model
  BY <1>1, Known
<1>3. ASSUME \/ \E a \in Agvs : InsertAgv(c, a)
             \/ CopyModelTasksToAgv(c) \/ OpenDeleteDialog(c) \/ Cancel(c) \/ CommitDelete(c) \/ DeleteFails(c)
      PROVE  Forgets
  <2>1. BecomesIdle(c) \/ \E S : \E at \in {"copy", "choose"} : Becomes(c, at, S, {}, {}, NoModel, NoModel, {})
    BY <1>3, FleetOps DEF TypeInv
  <2> QED
    BY <2>1 DEF BecomesIdle, Becomes
<1>4. ASSUME \/ \E S \in SUBSET Agvs : LoadAgvSnapshot(c, S)
             \/ LoadTaskSnapshot(c) \/ DeleteTasks(c) \/ DeleteAgvs(c)
      PROVE  Forgets
  <2>1. \E S, R : \E at \in {"tasks", "wipe", "drop", "commit"} : Onward(c, at, S, R)
    BY <1>4, FleetOps DEF TypeInv
  <2> QED
    BY <1>2, <2>1 DEF Onward, Becomes
<1>5. ASSUME RestoreDeletedAgvs(c) \/ ToastGone(c) \/ \E a, b \in Agvs : RenameAgv(c, a, b)
      PROVE  Forgets
  <2>1. op' = op
    BY <1>5 DEF RestoreDeletedAgvs, ToastGone, RenameAgv
  <2> QED
    BY <1>1, <1>2, <2>1 DEF OthersKept, SameOp
<1>6. Forgets
  BY <1>3, <1>4, <1>5
<1> HIDE DEF Forgets
<1>7. /\ OthersKept(c) /\ op'[c].hit = {} /\ op'[c].name = NoModel
      /\ op'[c].at \notin {"insert", "rows", "models", "scrap", "rename", "renamed"}
      /\ \A r \in op'[c].old : r.model = op'[c].model
  BY <1>6 DEF Forgets
<1> QED
  BY <1>1, <1>7, ForgetsStep DEF TypeInv

\* Every step keeps the invariant.
LEMMA NextCatalogue == TypeInv /\ TypeInv' /\ CatalogueInv /\ [Next]_vars => CatalogueInv'
<1> SUFFICES ASSUME TypeInv, TypeInv', CatalogueInv, [Next]_vars PROVE CatalogueInv'
  OBVIOUS
<1>1. ASSUME UNCHANGED vars PROVE CatalogueInv'
  <2>1. UNCHANGED <<models, template, loose, op>>
    BY <1>1 DEF vars, catalogue
  <2> QED
    BY <2>1 DEF CatalogueInv, OneTemplate, Rows, HeldOnce, Held, KnowsItsModel, HitsItsModel,
                MissesItsModel, HoldsAllRows
<1>2. ASSUME NEW c \in Clients,
             \/ \E a \in Agvs : InsertAgv(c, a)
             \/ CopyModelTasksToAgv(c) \/ OpenDeleteDialog(c) \/ Cancel(c)
             \/ \E S \in SUBSET Agvs : LoadAgvSnapshot(c, S)
             \/ LoadTaskSnapshot(c) \/ DeleteTasks(c) \/ DeleteAgvs(c) \/ CommitDelete(c) \/ DeleteFails(c)
             \/ RestoreDeletedAgvs(c) \/ ToastGone(c)
             \/ \E a, b \in Agvs : RenameAgv(c, a, b)
      PROVE  CatalogueInv'
  BY <1>2, AgvSteps
<1>3. ASSUME NEW c \in Clients,
             \/ \E m \in Models : OpenModel(c, m) \/ RenameModel(c, m) \/ InsertModel(c, m)
                                  \/ DeleteModelTemplate(c, m)
             \/ DeleteTemplate(c) \/ InsertTemplate(c) \/ RenameTemplate(c) \/ CommitRename(c)
             \/ SaveFails(c) \/ LeaveModel(c) \/ InsertModelRows(c)
             \/ DeleteModel(c) \/ CommitModel(c) \/ ModelFails(c)
      PROVE  CatalogueInv'
  BY <1>3, LeavingSteps, DeleteRowsStep, RenameModelStep, RenameTemplateStep, DeleteModelStep,
     InsertTemplateStep, InsertRowsStep, CommitRenameStep, InsertModelStep, CommitModelStep
<1> QED
  BY <1>1, <1>2, <1>3 DEF Next

\* OneTemplate: unless programs cross, a model's template is what one save wrote, under the
\* name the model has now, and no template outlives its model: the saves of the page, its
\* renaming, showTemplateMode and openDeleteDialog together.
THEOREM TemplatesAreSingle == Spec => []OneTemplate
<1>1. CatalogueInv => OneTemplate
  BY DEF CatalogueInv
<1> QED
  BY <1>1, InitType, NextType, InitCatalogue, NextCatalogue, PTL DEF Spec
=============================================================================
