-------------------------------- MODULE Boms --------------------------------
(***************************************************************************)
(* Bills of material (boms.service.ts).  A BOM is a draft until it is      *)
(* approved; only drafts are edited, and a line may name a sub-assembly:   *)
(* an approved model.  What a request checks before its transaction, the   *)
(* children of new lines and the uses of a BOM to remove, is not checked   *)
(* again inside; that the BOM is still a draft is, under a row lock.       *)
(* Codes and versions are left out (module DocumentNumbers), and so are    *)
(* names, quantities and costs.                                            *)
(***************************************************************************)
EXTENDS Integers, FiniteSets

CONSTANTS
  BomIds, BomClerks,  \* rows to be, and the requests that work on them
  BomPayloads         \* the sets of lines clients send

\* A line is a sub-assembly, a part with a material code, or free text.
Entries == BomIds \cup {"part", "free"}

ASSUME BomAssumption ==
  /\ BomPayloads \subseteq SUBSET Entries
  /\ "part" \notin BomIds /\ "free" \notin BomIds

VARIABLES
  bom,        \* Bom rows with their lines; approvedAt is 0 until the approval; a row
              \* with deletedAt, which every query leaves out, has the status REMOVED
  bomClock,   \* the time of the latest approval
  bomReq,     \* requests between their checks and their transactions
  bomRaced    \* history: BOMs removed while a request was adding a line with them

bomVars == <<bom, bomClock, bomReq, bomRaced>>

NoBom == [kind |-> "PROJECT", status |-> "none", lines |-> {}, approvedAt |-> 0]
BomIdle == [op |-> "idle", on |-> {}, lines |-> {}]

\* Every row and every request has the fields the code gives it.
BomTypeOK ==
  /\ bom \in [BomIds -> [kind : {"PROJECT", "MODEL"},
                         status : {"none", "DRAFT", "APPROVED", "ARCHIVED", "REMOVED"},
                         lines : SUBSET Entries, approvedAt : Nat]]
  /\ bomClock \in Nat
  /\ bomReq \in [BomClerks ->
       [op : {"idle", "replace", "PROJECT", "MODEL", "remove"},
        on : SUBSET BomIds, lines : SUBSET Entries]]
  /\ bomRaced \subseteq BomIds

BomInit ==
  /\ bom = [b \in BomIds |-> NoBom]
  /\ bomClock = 0
  /\ bomReq = [r \in BomClerks |-> BomIdle]
  /\ bomRaced = {}

-----------------------------------------------------------------------------
Found(b) == bom[b].status \notin {"none", "REMOVED"}
ChildrenOf(b) == bom[b].lines \cap BomIds
Complete(lines) == lines # {} /\ "free" \notin lines

\* Faulty variant: a draft model may be a sub-assembly.
UsableEarly(children) ==
  \A c \in children : Found(c) /\ bom[c].kind = "MODEL"
\* validateLines: sub-assemblies are approved models ...
Usable(children) ==
  \A c \in children : Found(c) /\ bom[c].kind = "MODEL" /\ bom[c].status = "APPROVED"
\* ... and the depth-first search from them does not come back to b.
Avoids(b, children) ==
  \E seen \in SUBSET (BomIds \ {b}) :
    children \subseteq seen /\ \A c \in seen : ChildrenOf(c) \subseteq seen

BomBegins(r, op, on, lines) ==
  /\ bomReq[r] = BomIdle
  /\ bomReq' = [bomReq EXCEPT ![r] = [op |-> op, on |-> on, lines |-> lines]]
  /\ UNCHANGED <<bom, bomClock, bomRaced>>
BomEnds(r) == bomReq' = [bomReq EXCEPT ![r] = BomIdle]

\* Removals of b overlap requests that add a line with b.
Removing(r) == UNION {bomReq[o].on : o \in {o \in BomClerks \ {r} : bomReq[o].op = "remove"}}
Adding(r) == UNION {bomReq[o].lines : o \in BomClerks \ {r}}

\* replaceLines, up to its transaction ...
StartReplace(r, b, lines) ==
  /\ Found(b) /\ bom[b].status = "DRAFT" /\ lines \in BomPayloads
  /\ LET children == lines \cap BomIds IN
     b \notin children /\ Usable(children) /\ Avoids(b, children)
  /\ BomBegins(r, "replace", {b}, lines)

\* Faulty variant: the status is not looked at again under the row lock.
StillThere(b) == bom[b].status # "REMOVED"
\* lockDraft: SELECT FOR UPDATE, then status and deletedAt are read again.
StillDraft(b) == bom[b].status = "DRAFT"

\* ... and the transaction.
ReplaceLines(r) ==
  /\ bomReq[r].op = "replace"
  /\ \E b \in bomReq[r].on :
       StillDraft(b) /\ bom' = [bom EXCEPT ![b].lines = bomReq[r].lines]
  /\ BomEnds(r)
  /\ bomRaced' = bomRaced \cup (Removing(r) \cap bomReq[r].lines)
  /\ UNCHANGED bomClock

\* approve; the first look at the status adds nothing to lockDraft.
Approve(b) ==
  /\ StillDraft(b)
  /\ bom[b].lines # {} /\ (bom[b].kind = "MODEL" => Complete(bom[b].lines))
  /\ bomClock' = bomClock + 1
  /\ bom' = [bom EXCEPT ![b].status = "APPROVED", ![b].approvedAt = bomClock + 1]
  /\ UNCHANGED <<bomReq, bomRaced>>

\* archive, of a draft too: the one column is written whatever was approved since.
Archive(b) ==
  /\ Found(b) /\ bom[b].status # "ARCHIVED"
  /\ bom' = [bom EXCEPT ![b].status = "ARCHIVED"]
  /\ UNCHANGED <<bomClock, bomReq, bomRaced>>

Inserts(b, kind, lines) ==
  /\ bom[b].status = "none"
  /\ bom' = [bom EXCEPT ![b] = [kind |-> kind, status |-> "DRAFT", lines |-> lines,
                                 approvedAt |-> 0]]

\* createProjectBom without a source.
CreateEmpty(b) ==
  Inserts(b, "PROJECT", {}) /\ UNCHANGED <<bomClock, bomReq, bomRaced>>

\* createProjectBom from a BOM the client may see, and createNewVersion:
\* the lines are copied before the transaction, without being validated ...
StartCopy(r, b) ==
  /\ Found(b) /\ (bom[b].kind = "MODEL" => bom[b].status = "APPROVED")
  /\ BomBegins(r, "PROJECT", {}, bom[b].lines)
StartVersion(r, b) ==
  /\ Found(b) /\ bom[b].status = "APPROVED"
  /\ BomBegins(r, bom[b].kind, {}, bom[b].lines)
\* ... saveAsModel: only complete lines of a project's BOM.
StartModel(r, b) ==
  /\ Found(b) /\ bom[b].kind = "PROJECT" /\ bom[b].status # "ARCHIVED"
  /\ Complete(bom[b].lines)
  /\ BomBegins(r, "MODEL", {}, bom[b].lines)
InsertCopy(r) ==
  /\ bomReq[r].op \in {"PROJECT", "MODEL"}
  /\ \E b \in BomIds : Inserts(b, bomReq[r].op, bomReq[r].lines)
  /\ BomEnds(r)
  /\ bomRaced' = bomRaced \cup (Removing(r) \cap bomReq[r].lines)
  /\ UNCHANGED bomClock

\* Faulty variant: only approved BOMs count as users.
UnusedByApproved(b) ==
  \A u \in BomIds : Found(u) /\ bom[u].status = "APPROVED" => b \notin ChildrenOf(u)
\* remove: no live BOM uses it (nor a quote, nor an allocation) ...
Unused(b) == \A u \in BomIds : Found(u) => b \notin ChildrenOf(u)
StartRemove(r, b) == Found(b) /\ Unused(b) /\ BomBegins(r, "remove", {b}, {})
\* ... and then deletedAt is set, whatever uses it now.
RemoveBom(r) ==
  /\ bomReq[r].op = "remove"
  /\ \E b \in bomReq[r].on : bom' = [bom EXCEPT ![b].status = "REMOVED"]
  /\ BomEnds(r)
  /\ bomRaced' = bomRaced \cup (bomReq[r].on \cap Adding(r))
  /\ UNCHANGED bomClock

\* A refusal inside the transaction, or a failure.
BomFails(r) ==
  bomReq[r] # BomIdle /\ BomEnds(r) /\ UNCHANGED <<bom, bomClock, bomRaced>>

BomStep(r) ==
  \/ \E b \in BomIds, lines \in BomPayloads : StartReplace(r, b, lines)
  \/ \E b \in BomIds : \/ StartCopy(r, b) \/ StartVersion(r, b)
                       \/ StartModel(r, b) \/ StartRemove(r, b)
  \/ ReplaceLines(r) \/ InsertCopy(r) \/ RemoveBom(r) \/ BomFails(r)
BomNext ==
  \/ \E r \in BomClerks : BomStep(r)
  \/ \E b \in BomIds : Approve(b) \/ Archive(b) \/ CreateEmpty(b)
BomSpec == BomInit /\ [][BomNext]_bomVars

-----------------------------------------------------------------------------
\* No BOM contains itself (docs/BOM_SPEC.md R6): every set of BOMs has one with
\* no sub-assembly in the set.  Two saves that validate side by side could close
\* a cycle behind each other's depth-first search.
NoCycles ==
  \A some \in (SUBSET BomIds) \ {{}} : \E b \in some : ChildrenOf(b) \cap some = {}

\* Why: a sub-assembly was approved before the BOM that names it, and a line
\* on its way to a transaction names approved BOMs only.
ChildrenApprovedFirst ==
  /\ \A b \in BomIds : bom[b].approvedAt <= bomClock
  /\ \A b \in BomIds, c \in BomIds : c \in ChildrenOf(b) =>
       /\ bom[c].approvedAt # 0
       /\ bom[b].approvedAt # 0 => bom[c].approvedAt < bom[b].approvedAt
  /\ \A r \in BomClerks, c \in BomIds : c \in bomReq[r].lines => bom[c].approvedAt # 0

\* What was approved, archived or removed is never edited (R4), although edits check for
\* a draft long before they write.
ApprovedIsFrozen ==
  [][\A b \in BomIds : bom[b].status \in {"APPROVED", "ARCHIVED", "REMOVED"}
                         => bom'[b].lines = bom[b].lines]_bomVars

\* An approved model has lines, and none of them is free text (R5), however it
\* came about.
ModelsComplete ==
  \A b \in BomIds : bom[b].kind = "MODEL" /\ bom[b].approvedAt # 0 => Complete(bom[b].lines)

\* A sub-assembly of a live BOM is not removed (R12), unless its removal and a
\* save that adds it overlapped.
ChildrenLiveUnlessRaced ==
  \A b \in BomIds : Found(b) => \A c \in ChildrenOf(b) : Found(c) \/ c \in bomRaced
=============================================================================
