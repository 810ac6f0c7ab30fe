-------------------------- MODULE TemplateVariants --------------------------
(***************************************************************************)
(* The versions of the template of one document type                       *)
(* (document-template-variants.service.ts): edited as drafts, submitted,   *)
(* approved if the layout validates, and one of them made the active one.  *)
(* Every endpoint reads the row, decides, awaits, and writes one field by  *)
(* id.  A partial unique index allows one active row per type.  Names and  *)
(* version numbers are left out; a layout validates or it does not.        *)
(***************************************************************************)
EXTENDS FiniteSets

CONSTANTS Variants, Editors   \* rows to be, and the requests that work on them

VARIABLES
  variant,   \* rows; sound: validateLayout reports no error
  varReq,    \* requests between reading and writing; stale: what they read has changed;
             \* cleared: rows deactivated in the open transaction
  varLost    \* history: rows written by a stale request

varVars == <<variant, varReq, varLost>>

NoVariant == [status |-> "none", active |-> FALSE, sound |-> TRUE]
VarIdle == [op |-> "idle", on |-> {}, sound |-> TRUE, cleared |-> {}, stale |-> FALSE]

\* Every row and every request has the fields the code gives it.
VarTypeOK ==
  /\ variant \in [Variants ->
       [status : {"none", "DRAFT", "PENDING_APPROVAL", "PUBLISHED", "gone"},
        active : BOOLEAN, sound : BOOLEAN]]
  /\ varReq \in [Editors ->
       [op : {"idle", "edit", "submit", "approve", "activate", "swap", "delete"},
        on : SUBSET Variants, sound : BOOLEAN, cleared : SUBSET Variants,
        stale : BOOLEAN]]
  /\ varLost \subseteq Variants

VarInit ==
  /\ variant = [v \in Variants |-> NoVariant]
  /\ varReq = [e \in Editors |-> VarIdle]
  /\ varLost = {}

-----------------------------------------------------------------------------
Row(v) == variant[v].status \notin {"none", "gone"}

\* createVariant from the default layout, or from a variant, and duplicate.
CreateVariant(v, sound) ==
  /\ variant[v].status = "none"
  /\ sound \/ \E w \in Variants : Row(w) /\ ~variant[w].sound
  /\ variant' = [variant EXCEPT ![v] = [NoVariant EXCEPT !.status = "DRAFT",
                                                         !.sound = sound]]
  /\ UNCHANGED <<varReq, varLost>>

\* Faulty variant: only the active variant is protected.
EditableUnlessActive(v) == Row(v) /\ ~variant[v].active
\* assertVariantEditable.
EditableVariant(v) == variant[v].status = "DRAFT" /\ ~variant[v].active

Approvable(v) == variant[v].status = "PENDING_APPROVAL" /\ variant[v].sound

\* Faulty variant: a variant under review may be made the active one.
ActivatableInReview(v) == variant[v].status \in {"PENDING_APPROVAL", "PUBLISHED"}
Activatable(v) == variant[v].status = "PUBLISHED"
Deletable(v) == Row(v) /\ ~variant[v].active /\ variant[v].status # "PUBLISHED"

\* What updateVariant, submitReview, approve, setActive and deleteVariant
\* check on the row they read.
VarBegins(e, op, v, sound) ==
  /\ varReq[e] = VarIdle
  /\ CASE op \in {"edit", "submit"} -> EditableVariant(v)
       [] op = "approve" -> Approvable(v)
       [] op = "activate" -> Activatable(v)
       [] op = "delete" -> Deletable(v)
  /\ varReq' = [varReq EXCEPT ![e] = [VarIdle EXCEPT !.op = op, !.on = {v},
                                                     !.sound = sound]]
  /\ UNCHANGED <<variant, varLost>>

\* The request ends; others that have read one of the changed rows are stale.
VarEnds(e, changed) ==
  /\ varReq' = [f \in Editors |->
       IF f = e THEN VarIdle
       ELSE [varReq[f] EXCEPT !.stale = @ \/ varReq[f].on \cap changed # {}]]
  /\ varLost' = varLost \cup {v \in varReq[e].on : varReq[e].stale}

\* One UPDATE or DELETE by id, which fails if the row is gone.
VarWrites(e, op, v, row) ==
  /\ varReq[e].op = op /\ varReq[e].on = {v} /\ Row(v)
  /\ variant' = [variant EXCEPT ![v] = row]
  /\ VarEnds(e, {v})
WriteLayout(e, v) == VarWrites(e, "edit", v, [variant[v] EXCEPT !.sound = varReq[e].sound])
WriteReview(e, v) ==
  VarWrites(e, "submit", v, [variant[v] EXCEPT !.status = "PENDING_APPROVAL"])
WritePublished(e, v) ==
  VarWrites(e, "approve", v, [variant[v] EXCEPT !.status = "PUBLISHED"])
WriteGone(e, v) == VarWrites(e, "delete", v, [NoVariant EXCEPT !.status = "gone"])

ActiveRows == {v \in Variants : variant[v].active}

\* Faulty variant: the active variant is deactivated outside the transaction.
ClearAtOnce(e) ==
  /\ varReq[e].op = "activate"
  /\ varReq' = [varReq EXCEPT ![e].op = "swap"]
  /\ variant' = [v \in Variants |-> [variant[v] EXCEPT !.active = FALSE]]
  /\ UNCHANGED varLost
\* setActive: the first statement of its transaction, seen by nobody yet ...
ClearActive(e) ==
  /\ varReq[e].op = "activate"
  /\ varReq' = [varReq EXCEPT ![e].op = "swap", ![e].cleared = ActiveRows]
  /\ UNCHANGED <<variant, varLost>>

\* ... and the second, with the commit: the index refuses it if another request
\* has activated a row in the meantime, the update if the row is gone.
SetActive(e) ==
  /\ varReq[e].op = "swap"
  /\ \A v \in varReq[e].on : Row(v)
  /\ ActiveRows \subseteq varReq[e].cleared \cup varReq[e].on
  /\ variant' = [v \in Variants |-> [variant[v] EXCEPT !.active = v \in varReq[e].on]]
  /\ VarEnds(e, varReq[e].cleared \cup varReq[e].on)

\* A refusal, P2002 or P2025, or a failure; a transaction is rolled back.
VarFails(e) ==
  /\ varReq[e] # VarIdle
  /\ varReq' = [varReq EXCEPT ![e] = VarIdle]
  /\ UNCHANGED <<variant, varLost>>

VarStep(e) ==
  \/ \E v \in Variants, sound \in BOOLEAN : VarBegins(e, "edit", v, sound)
  \/ \E v \in Variants, op \in {"submit", "approve", "activate", "delete"} :
       VarBegins(e, op, v, TRUE)
  \/ \E v \in Variants : \/ WriteLayout(e, v) \/ WriteReview(e, v)
                         \/ WritePublished(e, v) \/ WriteGone(e, v)
  \/ ClearActive(e) \/ SetActive(e) \/ VarFails(e)
VarNext ==
  \/ \E e \in Editors : VarStep(e)
  \/ \E v \in Variants, sound \in BOOLEAN : CreateVariant(v, sound)
VarSpec == VarInit /\ [][VarNext]_varVars

-----------------------------------------------------------------------------
\* A type that has an active published variant (getActiveVariant) keeps one:
\* setActive never leaves a gap, also when it fails halfway.  Only a stale request
\* that wrote the old or the new active row can make one.
ServedUntilReplaced ==
  [][(\E v \in Variants : variant[v].active /\ variant[v].status = "PUBLISHED")
       => \/ \E v \in Variants : variant'[v].active /\ variant'[v].status = "PUBLISHED"
          \/ (ActiveRows \cup ActiveRows') \cap varLost' # {}]_varVars

\* What is published has a layout that validated, although the validation and
\* the write are apart and drafts are edited next to them, unless a stale
\* request wrote the row.
PublishedIsSound ==
  \A v \in Variants \ varLost : variant[v].status = "PUBLISHED" => variant[v].sound

\* At most one variant is active, and it is published unless a stale request
\* wrote it.
ActiveIsPublished ==
  \A v \in ActiveRows : ActiveRows = {v} /\ (v \in varLost \/ variant[v].status = "PUBLISHED")
=============================================================================
