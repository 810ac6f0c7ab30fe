------------------------ MODULE CheckThenWriteProofs ------------------------
(***************************************************************************)
(* The components whose requests check before they write: bills of         *)
(* material, template variants, sessions, the cache of rights, the         *)
(* credentials of AI providers, the actions of agents and the numbers of   *)
(* documents.  They share no state; each invariant says what a request     *)
(* still knows, when it writes, of what it checked.                        *)
(***************************************************************************)
EXTENDS Boms, TemplateVariants, Sessions, UserCache, AiCredentials, AgentActions,
        DocumentNumbers, Sums, SequenceTheorems, TLAPS, WellFoundedInduction

-----------------------------------------------------------------------------
(* Bills of material, for every set of BOMs, of requests and of lines that *)
(* clients send.                                                           *)

USE DEF Entries

\* An approved BOM has its time of approval.
ApprovedHasTime == \A b \in BomIds : bom[b].status = "APPROVED" => bom[b].approvedAt # 0

\* A draft has none: approvals are final.
DraftsHaveNoTime ==
  \A b \in BomIds : bom[b].status \in {"none", "DRAFT"} => bom[b].approvedAt = 0

BomInv ==
  /\ BomTypeOK
  /\ ApprovedHasTime
  /\ DraftsHaveNoTime
  /\ ChildrenApprovedFirst
  /\ ModelsComplete

-----------------------------------------------------------------------------
(* The invariant.                                                          *)

\* With no BOM there is nothing to show.
LEMMA BomInitInv == BomInit => BomInv
BY BomAssumption DEF BomInit, BomInv, BomTypeOK, ApprovedHasTime, DraftsHaveNoTime,
   ChildrenApprovedFirst, ModelsComplete, NoBom, BomIdle, ChildrenOf, Complete

\* Beginning a request with lines whose sub-assemblies are approved.
LEMMA BomBeginsKeepsInv ==
  ASSUME BomInv, NEW r \in BomClerks, NEW op \in {"replace", "PROJECT", "MODEL", "remove"},
         NEW on \in SUBSET BomIds, NEW lines \in SUBSET Entries,
         \A c \in BomIds : c \in lines => bom[c].approvedAt # 0,
         BomBegins(r, op, on, lines)
  PROVE  BomInv'
BY DEF BomBegins, BomInv, BomTypeOK, ApprovedHasTime, DraftsHaveNoTime,
   ChildrenApprovedFirst, ModelsComplete, ChildrenOf, Complete

\* Ending one, with the rows as they are or as shown elsewhere.
LEMMA BomEndsKeepsReq ==
  ASSUME BomInv, NEW r \in BomClerks, BomEnds(r)
  PROVE  /\ bomReq' \in [BomClerks ->
              [op : {"idle", "replace", "PROJECT", "MODEL", "remove"},
               on : SUBSET BomIds, lines : SUBSET Entries]]
         /\ \A o \in BomClerks, c \in BomIds :
              c \in bomReq'[o].lines => c \in bomReq[o].lines
BY DEF BomEnds, BomInv, BomTypeOK, BomIdle

-----------------------------------------------------------------------------
(* No cycles.                                                              *)

\* Among some BOMs with a time there is one with the earliest.
LEMMA FirstApproved ==
  ASSUME NEW S, S # {}, NEW time, \A b \in S : time[b] \in Nat
  PROVE  \E b \in S : \A c \in S : time[b] <= time[c]
<1> DEFINE T == {time[b] : b \in S}
<1>1. T \in SUBSET Nat /\ T # {}
  OBVIOUS
<1>2. PICK x \in T : \A y \in T : x <= y
  BY <1>1, LeastNumber
<1> QED
  BY <1>2

\* Of some BOMs, take one without approval if there is none with, and else the
\* one approved first: its sub-assemblies were approved before it.
LEMMA InvImpliesNoCycles == BomInv => NoCycles
<1> SUFFICES ASSUME BomInv, NEW some \in SUBSET BomIds, some # {}
             PROVE  \E b \in some : ChildrenOf(b) \cap some = {}
  BY DEF NoCycles
<1>1. CASE \A b \in some : bom[b].approvedAt = 0
  BY <1>1 DEF BomInv, ChildrenApprovedFirst, ChildrenOf
<1>2. CASE \E b \in some : bom[b].approvedAt # 0
  <2> DEFINE time == [b \in some |-> bom[b].approvedAt]
             approved == {b \in some : bom[b].approvedAt # 0}
  <2>1. approved # {} /\ \A b \in approved : time[b] \in Nat
    BY <1>2 DEF BomInv, BomTypeOK
  <2>2. PICK b \in approved : \A c \in approved : time[b] <= time[c]
    <3> HIDE DEF approved, time
    <3> QED BY <2>1, FirstApproved
  <2>3. ASSUME NEW c \in ChildrenOf(b), c \in some PROVE FALSE
    <3>1. bom[c].approvedAt # 0 /\ bom[c].approvedAt < bom[b].approvedAt
      BY <2>2, <2>3 DEF BomInv, ChildrenApprovedFirst, ChildrenOf
    <3>2. bom[b].approvedAt <= bom[c].approvedAt
      BY <2>2, <2>3, <3>1
    <3>3. bom[b].approvedAt \in Nat /\ bom[c].approvedAt \in Nat
      BY <2>3 DEF BomInv, BomTypeOK
    <3> QED
      BY <3>1, <3>2, <3>3
  <2> QED
    BY <2>2, <2>3
<1> QED
  BY <1>1, <1>2

-----------------------------------------------------------------------------
(* The steps.                                                              *)

\* The rows' part of the invariant, for a step that ends request r.
BomRowsKept ==
  /\ bom' \in [BomIds -> [kind : {"PROJECT", "MODEL"},
                          status : {"none", "DRAFT", "APPROVED", "ARCHIVED", "REMOVED"},
                          lines : SUBSET Entries, approvedAt : Nat]]
  /\ ApprovedHasTime' /\ DraftsHaveNoTime' /\ ModelsComplete'
  /\ \A b \in BomIds : bom[b].approvedAt # 0 => bom'[b].approvedAt # 0
  /\ \A b \in BomIds : bom'[b].approvedAt <= bomClock'
  /\ \A b \in BomIds, c \in BomIds : c \in ChildrenOf(b)' =>
       /\ bom'[c].approvedAt # 0
       /\ bom'[b].approvedAt # 0 => bom'[c].approvedAt < bom'[b].approvedAt

\* A write that keeps the rows as BomRowsKept says, by a request that then ends.
LEMMA BomRowsAndEndKeepInv ==
  ASSUME BomInv, BomRowsKept, bomClock' \in Nat, bomRaced' \subseteq BomIds,
         UNCHANGED bomReq \/ \E r \in BomClerks : BomEnds(r)
  PROVE  BomInv'
<1>1. /\ bomReq' \in [BomClerks -> [op : {"idle", "replace", "PROJECT", "MODEL", "remove"},
                                  on : SUBSET BomIds, lines : SUBSET Entries]]
      /\ \A o \in BomClerks, c \in BomIds : c \in bomReq'[o].lines => c \in bomReq[o].lines
  <2>1. CASE UNCHANGED bomReq
    BY <2>1 DEF BomInv, BomTypeOK
  <2>2. CASE \E r \in BomClerks : BomEnds(r)
    BY <2>2, BomEndsKeepsReq
  <2> QED
    BY <2>1, <2>2
<1>2. \A o \in BomClerks, c \in BomIds : c \in bomReq'[o].lines => bom'[c].approvedAt # 0
  BY <1>1 DEF BomInv, ChildrenApprovedFirst, BomRowsKept
<1>3. BomTypeOK'
  BY <1>1 DEF BomTypeOK, BomRowsKept
<1>4. ChildrenApprovedFirst'
  BY <1>2 DEF ChildrenApprovedFirst, BomRowsKept
<1> QED
  BY <1>3, <1>4 DEF BomInv, BomRowsKept

\* PUT of the lines: what was checked has not changed, approvals being final.
LEMMA ReplaceLinesKeepsInv ==
  ASSUME BomInv, NEW r \in BomClerks, ReplaceLines(r) PROVE BomInv'
<1>1. PICK b \in BomIds : /\ bom[b].status = "DRAFT"
                          /\ bom' = [bom EXCEPT ![b].lines = bomReq[r].lines]
  BY DEF ReplaceLines, StillDraft, BomInv, BomTypeOK
<1>2. bomReq[r].lines \in SUBSET Entries /\ bom[b].approvedAt = 0
      /\ \A c \in BomIds : c \in bomReq[r].lines => bom[c].approvedAt # 0
  BY <1>1 DEF BomInv, BomTypeOK, DraftsHaveNoTime, ChildrenApprovedFirst
<1>3. BomRowsKept
  BY <1>1, <1>2 DEF BomRowsKept, BomInv, BomTypeOK, ApprovedHasTime, DraftsHaveNoTime,
     ModelsComplete, ChildrenApprovedFirst, ChildrenOf, ReplaceLines
<1>4. bomRaced' \subseteq BomIds
  BY DEF ReplaceLines, Removing, BomInv, BomTypeOK
<1> QED
  BY <1>3, <1>4, BomRowsAndEndKeepInv DEF ReplaceLines, BomInv, BomTypeOK

\* The approval comes after those of the sub-assemblies.
LEMMA ApproveKeepsInv ==
  ASSUME BomInv, NEW b \in BomIds, Approve(b) PROVE BomInv'
<1>1. bomClock \in Nat /\ bom[b].approvedAt = 0
      /\ \A c \in BomIds : bom[c].approvedAt \in Nat /\ bom[c].approvedAt <= bomClock
  BY DEF Approve, StillDraft, BomInv, BomTypeOK, DraftsHaveNoTime, ChildrenApprovedFirst
<1>2. BomRowsKept
  BY <1>1 DEF BomRowsKept, Approve, BomInv, BomTypeOK, ApprovedHasTime, DraftsHaveNoTime,
     ModelsComplete, ChildrenApprovedFirst, ChildrenOf, Complete
<1> QED
  BY <1>1, <1>2, BomRowsAndEndKeepInv DEF Approve, BomInv, BomTypeOK

\* Archiving leaves lines and times alone.
LEMMA ArchiveKeepsInv ==
  ASSUME BomInv, NEW b \in BomIds, Archive(b) PROVE BomInv'
<1>1. BomRowsKept
  BY DEF BomRowsKept, Archive, BomInv, BomTypeOK, ApprovedHasTime, DraftsHaveNoTime,
     ModelsComplete, ChildrenApprovedFirst, ChildrenOf, Complete
<1> QED
  BY <1>1, BomRowsAndEndKeepInv DEF Archive, BomInv, BomTypeOK

\* A new row is nobody's sub-assembly: it has no time of approval.
LEMMA BomInsertKeepsRows ==
  ASSUME BomInv, NEW b \in BomIds, NEW kind \in {"PROJECT", "MODEL"},
         NEW lines \in SUBSET Entries,
         \A c \in BomIds : c \in lines => bom[c].approvedAt # 0,
         Inserts(b, kind, lines), UNCHANGED bomClock
  PROVE  BomRowsKept
<1>1. bom[b].approvedAt = 0
  BY DEF Inserts, BomInv, DraftsHaveNoTime
<1>2. bom' = [bom EXCEPT ![b] = [kind |-> kind, status |-> "DRAFT", lines |-> lines,
                                 approvedAt |-> 0]]
  BY DEF Inserts
<1> QED
  BY <1>1, <1>2 DEF BomRowsKept, BomInv, BomTypeOK, ApprovedHasTime, DraftsHaveNoTime,
     ModelsComplete, ChildrenApprovedFirst, ChildrenOf, Complete

\* A new, empty draft.
LEMMA CreateBomKeepsInv ==
  ASSUME BomInv, NEW b \in BomIds, CreateEmpty(b) PROVE BomInv'
<1>1. Inserts(b, "PROJECT", {}) /\ UNCHANGED bomClock
  BY DEF CreateEmpty
<1>2. BomRowsKept
  BY <1>1, BomInsertKeepsRows
<1> QED
  BY <1>2, BomRowsAndEndKeepInv DEF CreateEmpty, BomInv, BomTypeOK

\* A clone or a variant inserted with the lines it read.
LEMMA InsertCopyKeepsInv ==
  ASSUME BomInv, NEW r \in BomClerks, InsertCopy(r) PROVE BomInv'
<1>1. PICK b \in BomIds : Inserts(b, bomReq[r].op, bomReq[r].lines)
  BY DEF InsertCopy
<1>2. /\ bomReq[r].op \in {"PROJECT", "MODEL"} /\ bomReq[r].lines \in SUBSET Entries
      /\ \A c \in BomIds : c \in bomReq[r].lines => bom[c].approvedAt # 0
  BY DEF InsertCopy, BomInv, BomTypeOK, ChildrenApprovedFirst
<1>3. BomRowsKept
  BY <1>1, <1>2, BomInsertKeepsRows DEF InsertCopy
<1>4. bomRaced' \subseteq BomIds
  BY DEF InsertCopy, Removing, BomInv, BomTypeOK
<1> QED
  BY <1>3, <1>4, BomRowsAndEndKeepInv DEF InsertCopy, BomInv, BomTypeOK

\* A soft delete keeps the lines and the time of approval.
LEMMA RemoveBomKeepsInv ==
  ASSUME BomInv, NEW r \in BomClerks, RemoveBom(r) PROVE BomInv'
<1>1. PICK b \in BomIds : bom' = [bom EXCEPT ![b].status = "REMOVED"]
  BY DEF RemoveBom, BomInv, BomTypeOK
<1>2. BomRowsKept
  BY <1>1 DEF BomRowsKept, RemoveBom, BomInv, BomTypeOK, ApprovedHasTime, DraftsHaveNoTime,
     ModelsComplete, ChildrenApprovedFirst, ChildrenOf, Complete
<1>3. bomRaced' \subseteq BomIds
  BY DEF RemoveBom, BomInv, BomTypeOK
<1> QED
  BY <1>2, <1>3, BomRowsAndEndKeepInv DEF RemoveBom, BomInv, BomTypeOK

\* New lines name approved models; copied lines name what was approved before.
LEMMA BomStartsKeepInv ==
  ASSUME BomInv, NEW r \in BomClerks, NEW b \in BomIds,
         \/ \E lines \in BomPayloads : StartReplace(r, b, lines)
         \/ StartCopy(r, b) \/ StartVersion(r, b) \/ StartModel(r, b)
         \/ StartRemove(r, b)
  PROVE  BomInv'
<1>1. /\ bom[b].lines \in SUBSET Entries /\ bom[b].kind \in {"PROJECT", "MODEL"}
      /\ \A c \in BomIds : c \in bom[b].lines => bom[c].approvedAt # 0
  BY DEF BomInv, BomTypeOK, ChildrenApprovedFirst, ChildrenOf
<1>2. ASSUME NEW lines \in BomPayloads, StartReplace(r, b, lines) PROVE BomInv'
  <2>1. lines \in SUBSET Entries
    BY BomAssumption
  <2>2. \A c \in BomIds : c \in lines => bom[c].approvedAt # 0
    BY <1>2 DEF StartReplace, Usable, BomInv, ApprovedHasTime
  <2>3. BomBegins(r, "replace", {b}, lines)
    BY <1>2 DEF StartReplace
  <2> QED
    BY <2>1, <2>2, <2>3, BomBeginsKeepsInv
<1>3. CASE StartCopy(r, b)
  BY <1>1, <1>3, BomBeginsKeepsInv DEF StartCopy
<1>4. CASE StartVersion(r, b)
  BY <1>1, <1>4, BomBeginsKeepsInv DEF StartVersion
<1>5. CASE StartModel(r, b)
  BY <1>1, <1>5, BomBeginsKeepsInv DEF StartModel
<1>6. CASE StartRemove(r, b)
  BY <1>6, BomBeginsKeepsInv DEF StartRemove
<1> QED
  BY <1>2, <1>3, <1>4, <1>5, <1>6

\* A request that gives up.
LEMMA BomFailsKeepsInv ==
  ASSUME BomInv, NEW r \in BomClerks, BomFails(r) PROVE BomInv'
<1>1. BomRowsKept
  BY DEF BomRowsKept, BomFails, BomInv, BomTypeOK, ApprovedHasTime, DraftsHaveNoTime,
     ModelsComplete, ChildrenApprovedFirst, ChildrenOf, Complete
<1> QED
  BY <1>1, BomRowsAndEndKeepInv DEF BomFails, BomInv, BomTypeOK

\* No step.
LEMMA BomStutterKeepsInv == ASSUME BomInv, UNCHANGED bomVars PROVE BomInv'
BY DEF bomVars, BomInv, BomTypeOK, ApprovedHasTime, DraftsHaveNoTime, ModelsComplete,
   ChildrenApprovedFirst, ChildrenOf, Complete

\* One case per request.
LEMMA BomNextKeepsInv == BomInv /\ [BomNext]_bomVars => BomInv'
<1> SUFFICES ASSUME BomInv, [BomNext]_bomVars PROVE BomInv'
  OBVIOUS
<1>1. ASSUME NEW r \in BomClerks, BomStep(r) PROVE BomInv'
  BY <1>1, BomStartsKeepInv, ReplaceLinesKeepsInv, InsertCopyKeepsInv, RemoveBomKeepsInv, BomFailsKeepsInv
     DEF BomStep
<1>2. ASSUME NEW b \in BomIds, Approve(b) \/ Archive(b) \/ CreateEmpty(b) PROVE BomInv'
  BY <1>2, ApproveKeepsInv, ArchiveKeepsInv, CreateBomKeepsInv
<1>3. CASE UNCHANGED bomVars
  BY <1>3, BomStutterKeepsInv
<1> QED
  BY <1>1, <1>2, <1>3 DEF BomNext

-----------------------------------------------------------------------------
(* The theorems.                                                           *)

\* The invariant: a sub-assembly is approved before the BOM that names it.
THEOREM ApprovalOrder == BomSpec => []ChildrenApprovedFirst
<1>1. BomInv => ChildrenApprovedFirst
  BY DEF BomInv
<1> QED
  BY <1>1, BomInitInv, BomNextKeepsInv, PTL DEF BomSpec

\* No BOM ever contains itself, although lines are validated outside the
\* transaction that saves them.
THEOREM BomsAreAcyclic == BomSpec => []NoCycles
  BY BomInitInv, BomNextKeepsInv, InvImpliesNoCycles, PTL DEF BomSpec

\* Approved models are complete.
THEOREM ApprovedModelsComplete == BomSpec => []ModelsComplete
<1>1. BomInv => ModelsComplete
  BY DEF BomInv
<1> QED
  BY <1>1, BomInitInv, BomNextKeepsInv, PTL DEF BomSpec

\* A step that changes the lines of a row finds it a draft, or not there yet.
LEMMA StepFreezesApproved ==
  BomInv /\ [BomNext]_bomVars =>
    \A b \in BomIds : bom[b].status \in {"APPROVED", "ARCHIVED", "REMOVED"} => bom'[b].lines = bom[b].lines
<1> SUFFICES ASSUME BomInv, [BomNext]_bomVars, NEW b \in BomIds,
                    bom[b].status \in {"APPROVED", "ARCHIVED", "REMOVED"}
             PROVE  bom'[b].lines = bom[b].lines
  OBVIOUS
<1>1. bom \in [BomIds -> [kind : {"PROJECT", "MODEL"},
                          status : {"none", "DRAFT", "APPROVED", "ARCHIVED", "REMOVED"},
                          lines : SUBSET Entries, approvedAt : Nat]]
  BY DEF BomInv, BomTypeOK
<1>2. ASSUME NEW r \in BomClerks, ReplaceLines(r) PROVE bom'[b].lines = bom[b].lines
  BY <1>1, <1>2 DEF ReplaceLines, StillDraft
<1>3. ASSUME NEW r \in BomClerks, InsertCopy(r) PROVE bom'[b].lines = bom[b].lines
  BY <1>1, <1>3 DEF InsertCopy, Inserts
<1>4. ASSUME NEW r \in BomClerks, RemoveBom(r) PROVE bom'[b].lines = bom[b].lines
  BY <1>1, <1>4 DEF RemoveBom
<1>5. ASSUME NEW c \in BomIds, Approve(c) \/ Archive(c) \/ CreateEmpty(c)
      PROVE  bom'[b].lines = bom[b].lines
  BY <1>1, <1>5 DEF Approve, Archive, CreateEmpty, Inserts
<1>6. CASE UNCHANGED bom
  BY <1>6
<1> QED
  BY <1>2, <1>3, <1>4, <1>5, <1>6 DEF BomNext, BomStep, bomVars, BomFails, BomBegins,
     StartReplace, StartCopy, StartVersion, StartModel, StartRemove

\* What was approved or archived is never edited.
THEOREM ApprovedStaysFrozen == BomSpec => ApprovedIsFrozen
  BY BomInitInv, BomNextKeepsInv, StepFreezesApproved, PTL DEF BomSpec, ApprovedIsFrozen

-----------------------------------------------------------------------------
(* Sub-assemblies stay.                                                    *)

\* A line on its way to a transaction names what is there, or a removal met it.
LinesLive ==
  \A r \in BomClerks, c \in BomIds : c \in bomReq[r].lines => Found(c) \/ c \in bomRaced

\* What a request is about to remove is used by nobody, or a save met it.
RemovalsKnown ==
  \A r \in BomClerks : bomReq[r].op = "remove" =>
    \A c \in bomReq[r].on, b \in BomIds : Found(b) /\ c \in ChildrenOf(b) => c \in bomRaced

BomLive == ChildrenLiveUnlessRaced /\ LinesLive /\ RemovalsKnown

\* A request begins: rows and history stand.
LEMMA BomBeginsKeepsLive ==
  ASSUME BomInv, BomLive, NEW r \in BomClerks, NEW op, NEW on \in SUBSET BomIds,
         NEW lines \in SUBSET Entries, BomBegins(r, op, on, lines),
         \A c \in BomIds : c \in lines => Found(c) \/ c \in bomRaced,
         op = "remove" => \A c \in on : Unused(c)
  PROVE  BomLive'
<1>1. /\ \A o \in BomClerks : bomReq'[o] = IF o = r THEN [op |-> op, on |-> on, lines |-> lines]
                                           ELSE bomReq[o]
      /\ bomRaced' = bomRaced
      /\ \A b \in BomIds : (Found(b)' <=> Found(b)) /\ ChildrenOf(b)' = ChildrenOf(b)
  BY DEF BomBegins, BomInv, BomTypeOK, Found, ChildrenOf
<1>2. ChildrenLiveUnlessRaced' /\ LinesLive'
  BY <1>1 DEF BomLive, ChildrenLiveUnlessRaced, LinesLive, ChildrenOf
<1>3. RemovalsKnown'
  BY <1>1 DEF BomLive, RemovalsKnown, Unused
<1> QED BY <1>2, <1>3 DEF BomLive

\* Every beginning is one of those.
LEMMA BomStartsKeepLive ==
  ASSUME BomInv, BomLive, NEW r \in BomClerks, NEW b \in BomIds,
         \/ \E lines \in BomPayloads : StartReplace(r, b, lines)
         \/ StartCopy(r, b) \/ StartVersion(r, b) \/ StartModel(r, b)
         \/ StartRemove(r, b)
  PROVE  BomLive'
<1>1. /\ bom[b].lines \in SUBSET Entries /\ bom[b].kind # "remove"
      /\ Found(b) => \A c \in BomIds : c \in bom[b].lines => Found(c) \/ c \in bomRaced
  BY DEF BomInv, BomTypeOK, BomLive, ChildrenLiveUnlessRaced, ChildrenOf
<1>2. ASSUME NEW lines \in BomPayloads, StartReplace(r, b, lines) PROVE BomLive'
  <2>1. lines \in SUBSET Entries /\ \A c \in BomIds : c \in lines => Found(c)
    BY <1>2, BomAssumption DEF StartReplace, Usable
  <2>2. BomBegins(r, "replace", {b}, lines)
    BY <1>2 DEF StartReplace
  <2> QED BY <2>1, <2>2, BomBeginsKeepsLive
<1>3. CASE StartCopy(r, b)
  BY <1>1, <1>3, BomBeginsKeepsLive DEF StartCopy
<1>4. CASE StartVersion(r, b)
  BY <1>1, <1>4, BomBeginsKeepsLive DEF StartVersion
<1>5. CASE StartModel(r, b)
  BY <1>1, <1>5, BomBeginsKeepsLive DEF StartModel
<1>6. CASE StartRemove(r, b)
  BY <1>6, BomBeginsKeepsLive DEF StartRemove
<1> QED BY <1>2, <1>3, <1>4, <1>5, <1>6

\* Lines are saved: each removal under way of what they name meets them.
LEMMA SaveKeepsLive ==
  ASSUME BomInv, BomLive, NEW r \in BomClerks, ReplaceLines(r) \/ InsertCopy(r)
  PROVE  BomLive'
<1> DEFINE lines == bomReq[r].lines
<1>1. PICK b \in BomIds : /\ bom'[b].lines = lines
                          /\ \A x \in BomIds : x # b => bom'[x] = bom[x]
                          /\ Found(b) => Found(b)'
  BY DEF ReplaceLines, StillDraft, InsertCopy, Inserts, BomInv, BomTypeOK, Found
<1>2. /\ \A o \in BomClerks \ {r} : bomReq'[o] = bomReq[o]
      /\ bomReq'[r].lines = {} /\ bomReq'[r].op = "idle"
      /\ bomRaced' = bomRaced \cup (Removing(r) \cap lines)
  BY DEF ReplaceLines, InsertCopy, BomEnds, BomIdle, BomInv, BomTypeOK
<1>3. \A x \in BomIds : /\ Found(x) => Found(x)'
                        /\ x # b => (Found(x)' <=> Found(x)) /\ ChildrenOf(x)' = ChildrenOf(x)
                        /\ ChildrenOf(b)' = lines \cap BomIds
  BY <1>1 DEF Found, ChildrenOf
<1>4. \A c \in BomIds : c \in lines => Found(c) \/ c \in bomRaced
  BY DEF BomLive, LinesLive
<1>5. ChildrenLiveUnlessRaced' /\ LinesLive'
  <2>1. ASSUME NEW x \in BomIds, Found(x)', NEW c \in ChildrenOf(x)'
        PROVE  Found(c)' \/ c \in bomRaced'
    <3>1. c \in BomIds
      BY DEF ChildrenOf
    <3>2. CASE x = b
      BY <1>2, <1>3, <1>4, <2>1, <3>1, <3>2
    <3>3. CASE x # b
      BY <1>2, <1>3, <2>1, <3>1, <3>3 DEF BomLive, ChildrenLiveUnlessRaced
    <3> QED BY <3>2, <3>3
  <2>2. LinesLive'
    BY <1>2, <1>3 DEF BomLive, LinesLive
  <2> QED BY <2>1, <2>2 DEF ChildrenLiveUnlessRaced
<1>6. ASSUME NEW o \in BomClerks, bomReq'[o].op = "remove", NEW c \in bomReq'[o].on,
             NEW x \in BomIds, Found(x)', c \in ChildrenOf(x)'
      PROVE  c \in bomRaced'
  <2>1. o # r /\ bomReq[o].op = "remove" /\ c \in bomReq[o].on
    BY <1>2, <1>6
  <2>2. CASE x = b
    <3>1. c \in Removing(r)
      BY <2>1 DEF Removing
    <3> QED BY <1>2, <1>3, <1>6, <2>2, <3>1
  <2>3. CASE x # b
    BY <1>2, <1>3, <1>6, <2>1, <2>3 DEF BomLive, RemovalsKnown
  <2> QED BY <2>2, <2>3
<1> QED BY <1>5, <1>6 DEF BomLive, RemovalsKnown

\* A BOM is removed: every line on its way that names it meets the removal.
LEMMA RemoveKeepsLive ==
  ASSUME BomInv, BomLive, NEW r \in BomClerks, RemoveBom(r)
  PROVE  BomLive'
<1>1. PICK b \in bomReq[r].on : bom' = [bom EXCEPT ![b].status = "REMOVED"]
  BY DEF RemoveBom
<1>2. /\ b \in BomIds /\ bomReq[r].op = "remove"
      /\ \A o \in BomClerks \ {r} : bomReq'[o] = bomReq[o]
      /\ bomReq'[r].lines = {} /\ bomReq'[r].op = "idle"
      /\ bomRaced' = bomRaced \cup (bomReq[r].on \cap Adding(r))
  BY <1>1 DEF RemoveBom, BomEnds, BomIdle, BomInv, BomTypeOK
<1>3. \A x \in BomIds : /\ x # b => (Found(x)' <=> Found(x))
                        /\ Found(x)' => Found(x)
                        /\ ChildrenOf(x)' = ChildrenOf(x)
  BY <1>1, <1>2 DEF BomInv, BomTypeOK, Found, ChildrenOf
<1>4. ASSUME NEW x \in BomIds, Found(x)', NEW c \in ChildrenOf(x)'
      PROVE  Found(c)' \/ c \in bomRaced'
  <2>1. c \in BomIds /\ Found(x) /\ c \in ChildrenOf(x)
    BY <1>3, <1>4 DEF ChildrenOf
  <2>2. CASE c = b
    BY <1>2, <2>1, <2>2 DEF BomLive, RemovalsKnown
  <2>3. CASE c # b
    BY <1>2, <1>3, <2>1, <2>3 DEF BomLive, ChildrenLiveUnlessRaced
  <2> QED BY <2>2, <2>3
<1>5. ASSUME NEW o \in BomClerks, NEW c \in BomIds, c \in bomReq'[o].lines
      PROVE  Found(c)' \/ c \in bomRaced'
  <2>1. o # r /\ c \in bomReq[o].lines
    BY <1>2, <1>5
  <2>2. CASE c = b
    <3>1. c \in Adding(r)
      BY <2>1 DEF Adding
    <3> QED BY <1>1, <1>2, <2>2, <3>1
  <2>3. CASE c # b
    BY <1>2, <1>3, <2>1, <2>3 DEF BomLive, LinesLive
  <2> QED BY <2>2, <2>3
<1>6. RemovalsKnown'
  BY <1>2, <1>3 DEF BomLive, RemovalsKnown
<1> QED BY <1>4, <1>5, <1>6 DEF BomLive, ChildrenLiveUnlessRaced, LinesLive

\* No other step adds a use of anything, or removes anything.
LEMMA OthersKeepLive ==
  ASSUME BomInv, BomLive,
         \/ UNCHANGED bomVars
         \/ \E r \in BomClerks : BomFails(r)
         \/ \E b \in BomIds : Approve(b) \/ Archive(b) \/ CreateEmpty(b)
  PROVE  BomLive'
<1>1. /\ bomRaced' = bomRaced
      /\ \A o \in BomClerks : \/ bomReq'[o] = bomReq[o]
                              \/ bomReq'[o].lines = {} /\ bomReq'[o].op = "idle"
  <2>1. CASE \E r \in BomClerks : BomFails(r)
    BY <2>1 DEF BomFails, BomEnds, BomIdle, BomInv, BomTypeOK
  <2>2. CASE bomReq' = bomReq /\ bomRaced' = bomRaced
    BY <2>2
  <2> QED BY <2>1, <2>2 DEF bomVars, Approve, Archive, CreateEmpty
<1>2. \A x \in BomIds : /\ Found(x) => Found(x)'
                        /\ \/ ChildrenOf(x)' = {}
                           \/ (Found(x)' => Found(x)) /\ ChildrenOf(x)' = ChildrenOf(x)
  <2>1. CASE bom' = bom
    BY <2>1 DEF Found, ChildrenOf
  <2>2. ASSUME NEW b \in BomIds, Approve(b) \/ Archive(b)
        PROVE  \A x \in BomIds : (Found(x)' <=> Found(x)) /\ ChildrenOf(x)' = ChildrenOf(x)
    BY <2>2 DEF Approve, Archive, StillDraft, BomInv, BomTypeOK, Found, ChildrenOf
  <2>3. ASSUME NEW b \in BomIds, CreateEmpty(b)
        PROVE  /\ ~Found(b) /\ ChildrenOf(b)' = {}
               /\ \A x \in BomIds \ {b} :
                    (Found(x)' <=> Found(x)) /\ ChildrenOf(x)' = ChildrenOf(x)
    BY <2>3 DEF CreateEmpty, Inserts, BomInv, BomTypeOK, Found, ChildrenOf
  <2> QED BY <2>1, <2>2, <2>3 DEF bomVars, BomFails
<1>3. \A x \in BomIds : ChildrenOf(x) \in SUBSET BomIds
  BY DEF ChildrenOf
<1>4. ChildrenLiveUnlessRaced'
  BY <1>1, <1>2, <1>3 DEF BomLive, ChildrenLiveUnlessRaced
<1>5. LinesLive'
  BY <1>1, <1>2 DEF BomLive, LinesLive
<1>6. RemovalsKnown'
  BY <1>1, <1>2 DEF BomLive, RemovalsKnown
<1> QED BY <1>4, <1>5, <1>6 DEF BomLive

\* A sub-assembly of a live BOM is not removed, unless a save met its removal.
THEOREM SubAssembliesStay == BomSpec => []ChildrenLiveUnlessRaced
<1>1. BomInit => BomLive
  BY DEF BomInit, BomLive, ChildrenLiveUnlessRaced, LinesLive, RemovalsKnown, Found, NoBom,
         BomIdle
<1>2. BomInv /\ BomLive /\ [BomNext]_bomVars => BomLive'
  BY BomStartsKeepLive, SaveKeepsLive, RemoveKeepsLive, OthersKeepLive DEF BomNext, BomStep
<1>3. BomLive => ChildrenLiveUnlessRaced
  BY DEF BomLive
<1> QED
  BY <1>1, <1>2, <1>3, BomInitInv, BomNextKeepsInv, PTL DEF BomSpec

HIDE DEF Entries

-----------------------------------------------------------------------------
(* Template variants.  What is published has validated, and what is active *)
(* is published, for any number of variants and requests.  The invariant   *)
(* says what a request that is not stale still knows of the row it read.   *)

\* What the checks of request q said of row v.
Checked(q, v) ==
  CASE q.op \in {"edit", "submit"} -> EditableVariant(v)
    [] q.op = "approve" -> Approvable(v)
    [] q.op \in {"activate", "swap"} -> Activatable(v)
    [] q.op = "delete" -> Deletable(v)
    [] OTHER -> TRUE

\* A request works on one row, and while it is not stale the checks still hold.
FreshReadsHold ==
  \A e \in Editors :
    /\ varReq[e].op # "idle" => \E v \in Variants : varReq[e].on = {v}
    /\ ~varReq[e].stale => \A v \in varReq[e].on : Checked(varReq[e], v)

VarInv == VarTypeOK /\ FreshReadsHold /\ PublishedIsSound /\ ActiveIsPublished

-----------------------------------------------------------------------------
VarRequests ==
  [op : {"idle", "edit", "submit", "approve", "activate", "swap", "delete"},
   on : SUBSET Variants, sound : BOOLEAN, cleared : SUBSET Variants, stale : BOOLEAN]
VarRows ==
  [status : {"none", "DRAFT", "PENDING_APPROVAL", "PUBLISHED", "gone"},
   active : BOOLEAN, sound : BOOLEAN]

\* What a request that ends leaves has its types.
LEMMA VarEndsTypes ==
  ASSUME VarTypeOK, NEW e \in Editors, NEW changed, VarEnds(e, changed)
  PROVE  varReq' \in [Editors -> VarRequests] /\ varLost' \subseteq Variants
<1>1. \A f \in Editors : varReq[f] \in VarRequests
  BY DEF VarTypeOK, VarRequests
<1>2. \A f \in Editors : \A b \in BOOLEAN : [varReq[f] EXCEPT !.stale = b] \in VarRequests
  BY <1>1 DEF VarRequests
<1>3. VarIdle \in VarRequests
  BY DEF VarIdle, VarRequests
<1>4. \A f \in Editors : (varReq[f].stale \/ varReq[f].on \cap changed # {}) \in BOOLEAN
  OBVIOUS
<1>5. varReq' \in [Editors -> VarRequests]
  BY <1>2, <1>3, <1>4, Zenon DEF VarEnds
<1> QED
  BY <1>5 DEF VarEnds, VarTypeOK

\* Before the first variant.
LEMMA VarInitInv == VarInit => VarInv
BY DEF VarInit, VarInv, VarTypeOK, FreshReadsHold, PublishedIsSound, ActiveIsPublished,
   ActiveRows, NoVariant, VarIdle, Checked

\* A request that is not stale afterwards works on rows that have not changed.
LEMMA VarEndsKeepsReads ==
  ASSUME VarInv, VarTypeOK', NEW e \in Editors, NEW changed \in SUBSET Variants,
         VarEnds(e, changed), \A v \in Variants \ changed : variant'[v] = variant[v]
  PROVE  FreshReadsHold'
<1>0. VarTypeOK
  BY DEF VarInv
<1> SUFFICES ASSUME NEW f \in Editors
             PROVE  /\ varReq'[f].op # "idle" => \E v \in Variants : varReq'[f].on = {v}
                    /\ ~varReq'[f].stale => \A v \in varReq'[f].on : Checked(varReq[f], v)'
  BY DEF FreshReadsHold
<1>1. CASE f = e
  BY <1>0, <1>1 DEF VarEnds, VarTypeOK, VarIdle, Checked
<1>2. CASE f # e
  <2>1. /\ varReq'[f].op = varReq[f].op /\ varReq'[f].on = varReq[f].on
        /\ ~varReq'[f].stale => ~varReq[f].stale /\ varReq[f].on \cap changed = {}
    BY <1>0, <1>2 DEF VarEnds, VarTypeOK
  <2>2. varReq[f].on \subseteq Variants
    BY <1>0 DEF VarTypeOK
  <2> QED
    BY <2>1, <2>2 DEF VarInv, FreshReadsHold, Checked, EditableVariant, Approvable, Activatable,
       Deletable, Row
<1> QED
  BY <1>1, <1>2

\* A request that has read its variant knows its row.
LEMMA VarBeginsKeepsInv ==
  ASSUME VarInv, NEW e \in Editors, NEW v \in Variants, NEW sound \in BOOLEAN,
         NEW op \in {"edit", "submit", "approve", "activate", "delete"},
         VarBegins(e, op, v, sound)
  PROVE  VarInv'
<1>0. VarTypeOK
  BY DEF VarInv
<1>1. VarTypeOK'
  BY <1>0 DEF VarBegins, VarTypeOK, VarIdle
<1>2. /\ varReq'[e].op = op /\ varReq'[e].on = {v}
      /\ \A f \in Editors : f # e => varReq'[f] = varReq[f]
      /\ variant' = variant
  BY <1>0 DEF VarBegins, VarTypeOK, VarIdle
<1>3. Checked(varReq[e], v)'
  BY <1>2 DEF VarBegins, Checked, EditableVariant, Approvable, Activatable, Deletable, Row
<1>4. FreshReadsHold'
  BY <1>2, <1>3 DEF VarInv, FreshReadsHold, Checked, EditableVariant, Approvable, Activatable,
     Deletable, Row
<1> QED
  BY <1>1, <1>4 DEF VarInv, VarBegins, PublishedIsSound, ActiveIsPublished, ActiveRows

\* One row is written; the row it was is the row that was checked, or the
\* request is stale and the row counts as lost.
LEMMA VarWritesKeepInv ==
  ASSUME VarInv, NEW e \in Editors, NEW v \in Variants,
         WriteLayout(e, v) \/ WriteReview(e, v) \/ WritePublished(e, v) \/ WriteGone(e, v)
  PROVE  VarInv'
<1>0. VarTypeOK
  BY DEF VarInv
<1>2. VarEnds(e, {v}) /\ varReq[e].on = {v}
  BY DEF WriteLayout, WriteReview, WritePublished, WriteGone, VarWrites
<1>3. VarTypeOK'
  <2>1. varReq' \in [Editors -> VarRequests] /\ varLost' \subseteq Variants
    BY <1>0, <1>2, VarEndsTypes
  <2>2. /\ [variant[v] EXCEPT !.sound = varReq[e].sound] \in VarRows
        /\ \A st \in {"PENDING_APPROVAL", "PUBLISHED"} :
             [variant[v] EXCEPT !.status = st] \in VarRows
        /\ [NoVariant EXCEPT !.status = "gone"] \in VarRows
    BY <1>0 DEF VarTypeOK, VarRows, NoVariant
  <2>3. ASSUME NEW op, NEW row \in VarRows, VarWrites(e, op, v, row)
        PROVE  variant' \in [Variants -> VarRows]
    BY <1>0, <2>3 DEF VarWrites, VarTypeOK, VarRows
  <2>4. variant' \in [Variants -> VarRows]
    BY <2>2, <2>3 DEF WriteLayout, WriteReview, WritePublished, WriteGone
  <2> QED
    BY <2>1, <2>4 DEF VarTypeOK, VarRows, VarRequests
<1>4. \A w \in Variants \ {v} : variant'[w] = variant[w]
  BY <1>0 DEF WriteLayout, WriteReview, WritePublished, WriteGone, VarWrites, VarTypeOK
<1>5. FreshReadsHold'
  BY <1>2, <1>3, <1>4, VarEndsKeepsReads
<1>6. /\ varLost \subseteq varLost'
      /\ v \notin varLost' => ~varReq[e].stale
  BY <1>0, <1>2 DEF VarEnds, VarTypeOK
<1>7. v \notin varLost' => Checked(varReq[e], v)
  BY <1>2, <1>6 DEF VarInv, FreshReadsHold
<1>8. v \notin varLost' => /\ variant'[v].status = "PUBLISHED" => variant'[v].sound
                           /\ ~variant'[v].active \/ variant'[v].status = "PUBLISHED"
  <2>1. CASE WriteLayout(e, v) \/ WriteReview(e, v)
    BY <1>0, <1>7, <2>1 DEF WriteLayout, WriteReview, VarWrites, Checked, EditableVariant, VarTypeOK
  <2>2. CASE WritePublished(e, v)
    BY <1>0, <1>7, <2>2 DEF WritePublished, VarWrites, Checked, Approvable, VarTypeOK
  <2>3. CASE WriteGone(e, v)
    BY <1>0, <2>3 DEF WriteGone, VarWrites, NoVariant, VarTypeOK
  <2> QED
    BY <2>1, <2>2, <2>3
<1>9. PublishedIsSound'
  BY <1>4, <1>6, <1>8 DEF VarInv, PublishedIsSound
<1>10. ActiveRows' \subseteq ActiveRows
  BY <1>0, <1>4 DEF ActiveRows, WriteLayout, WriteReview, WritePublished, WriteGone, VarWrites,
     NoVariant, VarTypeOK
<1>11. ActiveIsPublished'
  BY <1>4, <1>6, <1>8, <1>10 DEF VarInv, ActiveIsPublished, ActiveRows
<1> QED
  BY <1>3, <1>5, <1>9, <1>11 DEF VarInv

\* The first statement of setActive is seen by nobody.
LEMMA ClearKeepsInv == ASSUME VarInv, NEW e \in Editors, ClearActive(e) PROVE VarInv'
<1>0. VarTypeOK
  BY DEF VarInv
<1>1. VarTypeOK'
  <2>1. ActiveRows \in SUBSET Variants
    BY DEF ActiveRows
  <2>2. [varReq[e] EXCEPT !.op = "swap", !.cleared = ActiveRows] \in VarRequests
    BY <1>0, <2>1 DEF VarTypeOK, VarRequests
  <2> QED
    BY <1>0, <2>2 DEF ClearActive, VarTypeOK, VarRequests
<1>2. /\ varReq'[e].op = "swap" /\ varReq[e].op = "activate"
      /\ varReq'[e].on = varReq[e].on /\ varReq'[e].stale = varReq[e].stale
      /\ \A f \in Editors : f # e => varReq'[f] = varReq[f]
      /\ variant' = variant
  BY <1>0 DEF ClearActive, VarTypeOK
<1>3. FreshReadsHold'
  BY <1>2 DEF VarInv, FreshReadsHold, Checked, EditableVariant, Approvable, Activatable,
     Deletable, Row
<1> QED
  BY <1>1, <1>3 DEF VarInv, ClearActive, PublishedIsSound, ActiveIsPublished, ActiveRows

\* The second finds no active row but those the first has deactivated.
LEMMA SwapKeepsInv ==
  ASSUME VarInv, NEW e \in Editors, SetActive(e)
  PROVE  /\ VarInv'
         /\ \E v \in Variants : /\ ActiveRows' = {v}
                                /\ v \in varLost' \/ variant'[v].status = "PUBLISHED"
<1>0. VarTypeOK
  BY DEF VarInv
<1>1. PICK v \in Variants : varReq[e].on = {v}
  BY DEF VarInv, FreshReadsHold, SetActive
<1>2. VarTypeOK'
  <2>1. varReq' \in [Editors -> VarRequests] /\ varLost' \subseteq Variants
    BY <1>0, VarEndsTypes DEF SetActive
  <2>2. \A w \in Variants : \A b \in BOOLEAN : [variant[w] EXCEPT !.active = b] \in VarRows
    BY <1>0 DEF VarTypeOK, VarRows
  <2>3. \A w \in Variants : (w \in varReq[e].on) \in BOOLEAN
    OBVIOUS
  <2>4. variant' \in [Variants -> VarRows]
    BY <2>2, <2>3, Zenon DEF SetActive
  <2> QED
    BY <2>1, <2>4 DEF VarTypeOK, VarRequests, VarRows
<1>3. \A w \in Variants : /\ variant'[w].status = variant[w].status
                          /\ variant'[w].sound = variant[w].sound
                          /\ variant'[w].active = (w = v)
  BY <1>0, <1>1 DEF SetActive, VarTypeOK
<1>4. \A w \in Variants \ (varReq[e].cleared \cup varReq[e].on) : variant'[w] = variant[w]
  BY <1>0, <1>1 DEF SetActive, ActiveRows, VarTypeOK
<1>5. FreshReadsHold'
  <2>1. varReq[e].cleared \cup varReq[e].on \in SUBSET Variants
    BY <1>0 DEF VarTypeOK
  <2> QED
    BY <1>2, <1>4, <2>1, VarEndsKeepsReads DEF SetActive
<1>6. varLost \subseteq varLost' /\ (v \notin varLost' => ~varReq[e].stale)
  BY <1>0, <1>1 DEF SetActive, VarEnds, VarTypeOK
<1>7. PublishedIsSound'
  BY <1>3, <1>6 DEF VarInv, PublishedIsSound
<1>8. ActiveRows' = {v}
  BY <1>3 DEF ActiveRows
<1>9. v \in varLost' \/ variant'[v].status = "PUBLISHED"
  BY <1>1, <1>3, <1>6 DEF VarInv, FreshReadsHold, Checked, Activatable, SetActive
<1>10. ActiveIsPublished'
  BY <1>8, <1>9 DEF ActiveIsPublished
<1> QED
  BY <1>2, <1>5, <1>7, <1>8, <1>9, <1>10 DEF VarInv

\* A new row is a draft nobody has read, and it is not active.
LEMMA CreateVariantKeepsInv ==
  ASSUME VarInv, NEW v \in Variants, NEW sound \in BOOLEAN, CreateVariant(v, sound)
  PROVE  VarInv'
<1>0. VarTypeOK
  BY DEF VarInv
<1>1. VarTypeOK'
  BY <1>0 DEF CreateVariant, VarTypeOK, NoVariant
<1>2. /\ variant[v].status = "none"
      /\ variant'[v].status = "DRAFT" /\ ~variant'[v].active
      /\ \A w \in Variants \ {v} : variant'[w] = variant[w]
      /\ UNCHANGED <<varReq, varLost>>
  BY <1>0 DEF CreateVariant, VarTypeOK, NoVariant
<1>3. FreshReadsHold'
  <2> SUFFICES ASSUME NEW f \in Editors, ~varReq[f].stale, NEW w \in varReq[f].on
               PROVE  Checked(varReq[f], w)'
    BY <1>2 DEF VarInv, FreshReadsHold
  <2>1. Checked(varReq[f], w) /\ w \in Variants
    BY <1>0 DEF VarInv, FreshReadsHold, VarTypeOK
  <2>2. CASE w = v
    BY <1>2, <2>1, <2>2 DEF Checked, EditableVariant, Approvable, Activatable, Deletable, Row
  <2>3. CASE w # v
    BY <1>2, <2>1, <2>3 DEF Checked, EditableVariant, Approvable, Activatable, Deletable, Row
  <2> QED
    BY <2>2, <2>3
<1>4. PublishedIsSound'
  BY <1>2 DEF VarInv, PublishedIsSound
<1>5. ActiveRows' \subseteq ActiveRows \ {v}
  BY <1>2 DEF ActiveRows
<1>6. ActiveIsPublished'
  BY <1>2, <1>5 DEF VarInv, ActiveIsPublished, ActiveRows
<1> QED
  BY <1>1, <1>3, <1>4, <1>6 DEF VarInv

\* A refused request has written nothing.
LEMMA VarFailsKeepsInv == ASSUME VarInv, NEW e \in Editors, VarFails(e) PROVE VarInv'
<1>0. VarTypeOK
  BY DEF VarInv
<1>1. VarTypeOK'
  BY <1>0 DEF VarFails, VarTypeOK, VarIdle
<1>2. /\ varReq'[e] = VarIdle
      /\ \A f \in Editors : f # e => varReq'[f] = varReq[f]
      /\ variant' = variant
  BY <1>0 DEF VarFails, VarTypeOK
<1>3. FreshReadsHold'
  BY <1>2 DEF VarInv, FreshReadsHold, Checked, EditableVariant, Approvable, Activatable,
     Deletable, Row, VarIdle
<1> QED
  BY <1>1, <1>3 DEF VarInv, VarFails, PublishedIsSound, ActiveIsPublished, ActiveRows

\* One case per request.
LEMMA VarNextKeepsInv == VarInv /\ [VarNext]_varVars => VarInv'
<1> SUFFICES ASSUME VarInv, [VarNext]_varVars PROVE VarInv'
  OBVIOUS
<1>1. ASSUME NEW e \in Editors, VarStep(e) PROVE VarInv'
  BY <1>1, VarBeginsKeepsInv, VarWritesKeepInv, ClearKeepsInv, SwapKeepsInv, VarFailsKeepsInv DEF VarStep
<1>2. ASSUME NEW v \in Variants, NEW sound \in BOOLEAN, CreateVariant(v, sound) PROVE VarInv'
  BY <1>2, CreateVariantKeepsInv
<1>3. CASE UNCHANGED varVars
  BY <1>3 DEF varVars, VarInv, VarTypeOK, FreshReadsHold, PublishedIsSound, ActiveIsPublished,
     ActiveRows, Checked, EditableVariant, Approvable, Activatable, Deletable, Row
<1> QED
  BY <1>1, <1>2, <1>3 DEF VarNext

-----------------------------------------------------------------------------
\* A published layout has validated, unless a stale request wrote the row.
THEOREM PublishedLayoutsValidate == VarSpec => []PublishedIsSound
<1>1. VarInv => PublishedIsSound
  BY DEF VarInv
<1> QED
  BY <1>1, VarInitInv, VarNextKeepsInv, PTL DEF VarSpec

\* One variant is active at most, and it is published, with the same exception.
THEOREM OneActivePublished == VarSpec => []ActiveIsPublished
<1>1. VarInv => ActiveIsPublished
  BY DEF VarInv
<1> QED
  BY <1>1, VarInitInv, VarNextKeepsInv, PTL DEF VarSpec

\* An active published variant
Serving == \E v \in Variants : variant[v].active /\ variant[v].status = "PUBLISHED"

\* A served document loses its layout in no step but a racing delete.
LEMMA StepKeepsServing ==
  VarInv /\ [VarNext]_varVars =>
    (Serving => Serving' \/ (ActiveRows \cup ActiveRows') \cap varLost' # {})
<1> SUFFICES ASSUME VarInv, [VarNext]_varVars, Serving
             PROVE  Serving' \/ (ActiveRows \cup ActiveRows') \cap varLost' # {}
  OBVIOUS
<1>0. VarTypeOK
  BY DEF VarInv
<1>1. PICK a \in Variants : variant[a].active /\ variant[a].status = "PUBLISHED"
  BY DEF Serving
<1>2. ASSUME NEW e \in Editors, NEW v \in Variants,
             WriteLayout(e, v) \/ WriteReview(e, v) \/ WritePublished(e, v) \/ WriteGone(e, v)
      PROVE  Serving' \/ (ActiveRows \cup ActiveRows') \cap varLost' # {}
  <2>1. VarEnds(e, {v}) /\ varReq[e].on = {v}
    BY <1>2 DEF WriteLayout, WriteReview, WritePublished, WriteGone, VarWrites
  <2>2. CASE v # a
    BY <1>0, <1>1, <1>2, <2>2 DEF WriteLayout, WriteReview, WritePublished, WriteGone, VarWrites,
       VarTypeOK, Serving
  <2>3. CASE v = a /\ varReq[e].stale
    BY <1>0, <1>1, <2>1, <2>3 DEF VarEnds, VarTypeOK, ActiveRows
  <2>4. CASE v = a /\ ~varReq[e].stale
    <3>1. Checked(varReq[e], v)
      BY <2>1, <2>4 DEF VarInv, FreshReadsHold
    <3> QED
      BY <1>0, <1>1, <1>2, <2>4, <3>1 DEF WriteLayout, WriteReview, WritePublished, WriteGone,
         VarWrites, Checked, EditableVariant, Approvable, Deletable, VarTypeOK
  <2> QED
    BY <2>2, <2>3, <2>4
<1>3. ASSUME NEW e \in Editors, SetActive(e)
      PROVE  Serving' \/ (ActiveRows \cup ActiveRows') \cap varLost' # {}
  BY <1>3, SwapKeepsInv DEF Serving, ActiveRows
<1>4. ASSUME NEW v \in Variants, NEW sound \in BOOLEAN, CreateVariant(v, sound)
      PROVE  Serving'
  BY <1>0, <1>1, <1>4 DEF CreateVariant, VarTypeOK, Serving
<1>5. CASE UNCHANGED variant
  BY <1>1, <1>5 DEF Serving
<1> QED
  BY <1>2, <1>3, <1>4, <1>5 DEF VarNext, VarStep, varVars, VarBegins, ClearActive, VarFails

\* A type that has an active published variant keeps one, with the same exception.
THEOREM ServiceHasNoGap == VarSpec => ServedUntilReplaced
<1>1. VarInv /\ [VarNext]_varVars =>
        [(\E v \in Variants : variant[v].active /\ variant[v].status = "PUBLISHED")
          => \/ \E v \in Variants : variant'[v].active /\ variant'[v].status = "PUBLISHED"
             \/ (ActiveRows \cup ActiveRows') \cap varLost' # {}]_varVars
  BY StepKeepsServing DEF Serving
<1> QED
  BY <1>1, VarInitInv, VarNextKeepsInv, PTL DEF VarSpec, ServedUntilReplaced

-----------------------------------------------------------------------------
(* Sign-in, refresh and reset for any number of devices and sessions, the  *)
(* cache of rights for any number of users and requests, and the credential*)
(* of an AI provider under any number of refreshes.                        *)

SsRequest ==
  [op : {"idle", "find", "delete", "create", "rotate", "reset", "purge"},
   on : SUBSET SessionIds, seen : Nat, metSignIn : BOOLEAN, metReset : BOOLEAN]
SsTypeOK ==
  /\ password \in Nat
  /\ session \in [SessionIds -> [status : {"none", "live", "gone"}, token : Nat,
                                 origin : Nat]]
  /\ ssReq \in [Devices -> SsRequest]
  /\ twins \subseteq SessionIds /\ outlived \subseteq SessionIds

SigningIn(d) == ssReq[d].op \in {"find", "delete", "create"}
Purging == \E d \in Devices : SsAt(d, "purge")

\* A sign-in about to create has seen the last session deleted, and none was
\* created since, or it has met the sign-in that did.
NoneBeside ==
  \A d \in Devices : SsAt(d, "create") /\ ~ssReq[d].metSignIn => LiveSessions = {}

\* A sign-in has checked the password of today, or a reset is going to delete
\* the sessions there are, or it has met the reset.
ChecksPassword ==
  \A d \in Devices : SigningIn(d) => \/ ssReq[d].seen = password
                                     \/ ssReq[d].metReset
                                     \/ Purging
\* The same of the sessions.
SessionsKnowPassword ==
  \A s \in LiveSessions : session[s].origin = password \/ s \in outlived \/ Purging

SessionsInv ==
  /\ SsTypeOK /\ NoneBeside /\ OneSessionUnlessTwins
  /\ ChecksPassword /\ SessionsKnowPassword

-----------------------------------------------------------------------------
(* Sessions.                                                               *)

\* Before the first sign-in.
LEMMA SsInitInv == SsInit => SessionsInv
BY DEF SsInit, SessionsInv, SsTypeOK, SsRequest, NoneBeside, OneSessionUnlessTwins, ChecksPassword,
   SessionsKnowPassword, NoSession, SsIdle, LiveSessions, SsAt, SigningIn, Purging

\* What a step may do to the sessions and requests without disturbing the
\* invariant: end some sessions, touch no password, and bring no request to
\* the point of creating or purging, or away from purging.
LEMMA QuietStep ==
  ASSUME SessionsInv, SsTypeOK', UNCHANGED <<password, twins, outlived>>,
         \A s \in LiveSessions' : s \in LiveSessions /\ session'[s].origin = session[s].origin,
         \A d \in Devices : SsAt(d, "purge")' <=> SsAt(d, "purge"),
         \A d \in Devices : SigningIn(d)' =>
           \/ ssReq'[d].seen = password
           \/ /\ SigningIn(d) /\ ssReq'[d].seen = ssReq[d].seen
              /\ ssReq[d].metReset => ssReq'[d].metReset,
         \A d \in Devices : SsAt(d, "create")' /\ ~ssReq'[d].metSignIn =>
           LiveSessions' = {} \/ (SsAt(d, "create") /\ ~ssReq[d].metSignIn)
  PROVE  SessionsInv'
<1>1. Purging' <=> Purging
  BY DEF Purging
<1>2. NoneBeside'
  BY DEF SessionsInv, NoneBeside
<1>3. OneSessionUnlessTwins'
  BY DEF SessionsInv, OneSessionUnlessTwins
<1>4. ChecksPassword'
  BY <1>1 DEF SessionsInv, ChecksPassword
<1>5. SessionsKnowPassword'
  BY <1>1 DEF SessionsInv, SessionsKnowPassword
<1> QED
  BY <1>2, <1>3, <1>4, <1>5 DEF SessionsInv

\* Ending sessions changes no other row.
LEMMA EndedRows ==
  ASSUME SsTypeOK, NEW some, session' = Ended(some)
  PROVE  /\ session' \in [SessionIds -> [status : {"none", "live", "gone"}, token : Nat,
                                         origin : Nat]]
         /\ LiveSessions' = LiveSessions \ some
         /\ \A s \in SessionIds : session'[s].origin = session[s].origin
BY DEF SsTypeOK, Ended, LiveSessions

\* Signing in, and looking for and deleting the sessions before.
LEMMA SignInSteps ==
  ASSUME SessionsInv, NEW d \in Devices,
         SignIn(d) \/ FindSessions(d) \/ DeleteSessions(d)
  PROVE  SessionsInv'
<1>0. SsTypeOK
  BY DEF SessionsInv
<1>1. CASE SignIn(d)
  BY <1>0, <1>1, QuietStep DEF SignIn, SsTypeOK, SsRequest, SsIdle, SsAt, SigningIn, LiveSessions
<1>2. CASE FindSessions(d)
  BY <1>0, <1>2, QuietStep DEF FindSessions, Goes, SsTypeOK, SsRequest, SsAt, SigningIn,
     LiveSessions
<1>3. CASE DeleteSessions(d)
  BY <1>0, <1>3, QuietStep, EndedRows DEF DeleteSessions, Goes, SsTypeOK, SsRequest, SsAt, SigningIn
<1> QED
  BY <1>1, <1>2, <1>3

\* The one step that adds a session.
LEMMA CreateSessionKeepsInv ==
  ASSUME SessionsInv, NEW d \in Devices, NEW s \in SessionIds, CreateSession(d, s)
  PROVE  SessionsInv'
<1>0. SsTypeOK
  BY DEF SessionsInv
<1>1. SsTypeOK'
  <2>1. session' \in [SessionIds -> [status : {"none", "live", "gone"}, token : Nat,
                                    origin : Nat]]
    BY <1>0 DEF CreateSession, SsTypeOK, SsRequest
  <2>2. \A o \in Devices :
          ssReq'[o] \in {SsIdle, [ssReq[o] EXCEPT !.metSignIn = TRUE], ssReq[o]}
    BY DEF CreateSession
  <2>3. SsIdle \in SsRequest
        /\ \A r \in SsRequest : [r EXCEPT !.metSignIn = TRUE] \in SsRequest
    BY DEF SsIdle, SsRequest
  <2>4. \A o \in Devices : ssReq'[o] \in SsRequest
    BY <1>0, <2>2, <2>3 DEF SsTypeOK
  <2>5. ssReq' \in [Devices -> SsRequest]
    BY <2>4 DEF CreateSession
  <2> QED
    BY <1>0, <2>1, <2>5 DEF CreateSession, SsTypeOK
<1>2. LiveSessions' = LiveSessions \cup {s}
  BY <1>0 DEF CreateSession, SsTypeOK, LiveSessions
<1>3. \A o \in Devices : SsAt(o, "create")' => o # d /\ ssReq'[o].metSignIn
  BY <1>0 DEF CreateSession, SsTypeOK, SsIdle, SsAt
<1>4. NoneBeside'
  BY <1>3 DEF NoneBeside
<1>5. OneSessionUnlessTwins'
  <2>1. CASE ssReq[d].metSignIn
    BY <1>2, <2>1 DEF SessionsInv, OneSessionUnlessTwins, CreateSession
  <2>2. CASE ~ssReq[d].metSignIn
    BY <1>2, <2>2 DEF SessionsInv, NoneBeside, OneSessionUnlessTwins, CreateSession
  <2> QED
    BY <2>1, <2>2
<1>6. /\ Purging => Purging'
      /\ \A o \in Devices : SigningIn(o)' => /\ SigningIn(o) /\ ssReq'[o].seen = ssReq[o].seen
                                             /\ ssReq'[o].metReset = ssReq[o].metReset
  BY <1>0 DEF CreateSession, SsTypeOK, SsRequest, SsIdle, SsAt, SigningIn, Purging
<1>7. ChecksPassword'
  BY <1>6 DEF SessionsInv, ChecksPassword, CreateSession
<1>8. SessionsKnowPassword'
  <2>1. \/ session'[s].origin = password' \/ s \in outlived' \/ Purging'
    BY <1>0, <1>6 DEF SessionsInv, ChecksPassword, CreateSession, SsTypeOK, SsAt, SigningIn
  <2>2. \A t \in LiveSessions \ {s} : session'[t] = session[t]
    BY <1>0 DEF CreateSession, SsTypeOK, LiveSessions
  <2> QED
    BY <1>2, <1>6, <2>1, <2>2 DEF SessionsInv, SessionsKnowPassword, CreateSession
<1> QED
  BY <1>1, <1>4, <1>5, <1>7, <1>8 DEF SessionsInv

\* Refreshing a session keeps it the one it was.
LEMMA RefreshSteps ==
  ASSUME SessionsInv, NEW d \in Devices, NEW s \in SessionIds, Resolve(d, s) \/ Rotate(d, s)
  PROVE  SessionsInv'
<1>0. SsTypeOK
  BY DEF SessionsInv
<1>1. CASE Resolve(d, s)
  BY <1>0, <1>1, QuietStep DEF Resolve, SsTypeOK, SsRequest, SsIdle, SsAt, SigningIn, LiveSessions
<1>2. CASE Rotate(d, s)
  BY <1>0, <1>2, QuietStep DEF Rotate, Rests, SsTypeOK, SsRequest, SsIdle, SsAt,
     SigningIn, LiveSessions
<1> QED
  BY <1>1, <1>2

\* Signing out, here or everywhere else.
LEMMA EndingSteps ==
  ASSUME SessionsInv, NEW s \in SessionIds, EndSession(s) \/ EndOthers(s)
  PROVE  SessionsInv'
<1>0. SsTypeOK
  BY DEF SessionsInv
<1>1. PICK some : session' = Ended(some)
  BY DEF EndSession, EndOthers
<1>2. UNCHANGED <<password, ssReq, twins, outlived>>
  BY DEF EndSession, EndOthers
<1>3. /\ LiveSessions' \subseteq LiveSessions /\ SsTypeOK'
      /\ \A t \in SessionIds : session'[t].origin = session[t].origin
  BY <1>0, <1>1, <1>2, EndedRows DEF SsTypeOK
<1>4. LiveSessions \subseteq SessionIds
  BY DEF LiveSessions
<1> QED
  BY <1>2, <1>3, <1>4, QuietStep DEF SsAt, SigningIn

\* Writing the password makes every session one of an earlier password, and
\* the request that has to delete them purges.
LEMMA PasswordKeepsInv ==
  ASSUME SessionsInv, NEW d \in Devices, WritePassword(d)
  PROVE  SessionsInv'
<1>0. SsTypeOK
  BY DEF SessionsInv
<1>1. SsTypeOK' /\ Purging'
  BY <1>0 DEF WritePassword, Goes, SsTypeOK, SsRequest, SsAt, Purging
<1>2. NoneBeside' /\ OneSessionUnlessTwins'
  BY <1>0 DEF SessionsInv, NoneBeside, OneSessionUnlessTwins, WritePassword, Goes, SsTypeOK,
     SsAt, LiveSessions
<1> QED
  BY <1>1, <1>2 DEF SessionsInv, ChecksPassword, SessionsKnowPassword

\* After a reset, whether it has deleted the sessions or failed to, the
\* sign-ins under way have met it.
LEMMA ResetOverMet ==
  ASSUME SsTypeOK, NEW d \in Devices, SsAt(d, "purge"), ResetOver(d)
  PROVE  /\ ssReq' \in [Devices -> SsRequest]
         /\ \A o \in Devices : SigningIn(o)' => ssReq'[o].metReset
         /\ \A o \in Devices : SsAt(o, "create")' =>
              SsAt(o, "create") /\ ssReq'[o].metSignIn = ssReq[o].metSignIn
<1>1. ssReq' \in [Devices -> SsRequest]
  <2>1. SsIdle \in SsRequest
    BY DEF SsIdle, SsRequest
  <2>2. \A r \in SsRequest : [r EXCEPT !.metReset = TRUE] \in SsRequest
                             /\ [r EXCEPT !.metReset = FALSE] \in SsRequest
    BY DEF SsRequest
  <2>3. ASSUME NEW o \in Devices
        PROVE  ssReq'[o] \in {SsIdle, [ssReq[o] EXCEPT !.metReset = TRUE],
                               [ssReq[o] EXCEPT !.metReset = FALSE]}
    BY DEF SsTypeOK, SsRequest, ResetOver
  <2>4. ASSUME NEW o \in Devices PROVE ssReq'[o] \in SsRequest
    <3>1. ssReq[o] \in SsRequest
      BY DEF SsTypeOK
    <3>2. /\ [ssReq[o] EXCEPT !.metReset = TRUE] \in SsRequest
          /\ [ssReq[o] EXCEPT !.metReset = FALSE] \in SsRequest
      BY <2>2, <3>1
    <3> QED
      BY <2>1, <2>3, <3>2
  <2> QED
    BY <2>4 DEF ResetOver
<1>2. ASSUME NEW o \in Devices
      PROVE  /\ ssReq'[o].op = (IF o = d THEN "idle" ELSE ssReq[o].op)
             /\ o # d => ssReq'[o].metSignIn = ssReq[o].metSignIn
             /\ o # d /\ SigningIn(o) => ssReq'[o].metReset
  BY DEF SsTypeOK, SsRequest, ResetOver, SsIdle, SigningIn
<1> QED
  BY <1>1, <1>2 DEF SsAt, SigningIn

\* A password reset, and a request that fails.
LEMMA ResetSteps ==
  ASSUME SessionsInv, NEW d \in Devices, OpenLink(d) \/ Purge(d) \/ SsFails(d)
  PROVE  SessionsInv'
<1>0. SsTypeOK
  BY DEF SessionsInv
<1>1. CASE OpenLink(d)
  BY <1>0, <1>1, QuietStep DEF OpenLink, SsTypeOK, SsRequest, SsIdle, SsAt, SigningIn, LiveSessions
<1>2. CASE Purge(d)
  <2>1. LiveSessions' = {}
    BY <1>0, <1>2, EndedRows DEF Purge
  <2>2. SsTypeOK'
    BY <1>0, <1>2, EndedRows, ResetOverMet DEF Purge, SsTypeOK
  <2>3. ChecksPassword'
    BY <1>0, <1>2, ResetOverMet DEF Purge, ChecksPassword
  <2> QED
    BY <2>1, <2>2, <2>3 DEF SessionsInv, NoneBeside, OneSessionUnlessTwins, SessionsKnowPassword
<1>3. CASE SsFails(d) /\ SsAt(d, "purge")
  <2>1. /\ ResetOver(d) /\ outlived' = outlived \cup LiveSessions
        /\ UNCHANGED <<password, session, twins>>
    BY <1>3 DEF SsFails
  <2>2. SsTypeOK' /\ LiveSessions' = LiveSessions
    BY <1>0, <1>3, <2>1, ResetOverMet DEF SsTypeOK, LiveSessions
  <2>3. NoneBeside' /\ OneSessionUnlessTwins'
    BY <1>0, <1>3, <2>1, <2>2, ResetOverMet DEF SessionsInv, NoneBeside, OneSessionUnlessTwins
  <2>4. ChecksPassword' /\ SessionsKnowPassword'
    BY <1>0, <1>3, <2>1, <2>2, ResetOverMet DEF ChecksPassword, SessionsKnowPassword
  <2> QED
    BY <2>2, <2>3, <2>4 DEF SessionsInv
<1>4. CASE SsFails(d) /\ ~SsAt(d, "purge")
  <2>1. Rests(d) /\ UNCHANGED <<password, session, twins, outlived>>
    BY <1>4 DEF SsFails
  <2>2. SsTypeOK' /\ LiveSessions' = LiveSessions
    BY <1>0, <2>1 DEF Rests, SsTypeOK, SsRequest, SsIdle, LiveSessions
  <2>3. \A o \in Devices : ssReq'[o] = IF o = d THEN SsIdle ELSE ssReq[o]
    BY <1>0, <2>1 DEF Rests, SsTypeOK
  <2> QED
    BY <1>4, <2>1, <2>2, <2>3, QuietStep DEF SsIdle, SsAt, SigningIn
<1> QED
  BY <1>1, <1>2, <1>3, <1>4

\* One case per endpoint.
LEMMA SsNextKeepsInv == SessionsInv /\ [SsNext]_ssVars => SessionsInv'
<1> SUFFICES ASSUME SessionsInv, [SsNext]_ssVars PROVE SessionsInv'
  OBVIOUS
<1>1. ASSUME NEW d \in Devices, SsStep(d) PROVE SessionsInv'
  BY <1>1, SignInSteps, CreateSessionKeepsInv, RefreshSteps, PasswordKeepsInv, ResetSteps DEF SsStep
<1>2. ASSUME NEW s \in SessionIds, EndSession(s) \/ EndOthers(s) PROVE SessionsInv'
  BY <1>2, EndingSteps
<1>3. CASE UNCHANGED ssVars
  BY <1>3 DEF ssVars, SessionsInv, SsTypeOK, NoneBeside, OneSessionUnlessTwins, ChecksPassword,
     SessionsKnowPassword, LiveSessions, SsAt, SigningIn, Purging
<1> QED
  BY <1>1, <1>2, <1>3 DEF SsNext

\* One session per user, unless two sign-ins met between their deletions and
\* their insertions.
THEOREM OneSession == SsSpec => []OneSessionUnlessTwins
<1>1. SessionsInv => OneSessionUnlessTwins
  BY DEF SessionsInv
<1> QED
  BY <1>1, SsInitInv, SsNextKeepsInv, PTL DEF SsSpec

\* A completed reset leaves no session of an earlier password but those it
\* could not see.
THEOREM ResetEndsThem == SsSpec => []ResetEndsSessions
<1>1. SessionsInv => ResetEndsSessions
  BY DEF SessionsInv, SessionsKnowPassword, ResetEndsSessions, Purging
<1> QED
  BY <1>1, SsInitInv, SsNextKeepsInv, PTL DEF SsSpec

\* No endpoint brings a session back.
LEMMA StepKeepsEnded ==
  SessionsInv /\ [SsNext]_ssVars =>
    \A s \in SessionIds : session[s].status = "gone" => session'[s].status = "gone"
<1> SUFFICES ASSUME SessionsInv, [SsNext]_ssVars PROVE
      \A s \in SessionIds : session[s].status = "gone" => session'[s].status = "gone"
  OBVIOUS
<1>0. SsTypeOK
  BY DEF SessionsInv
<1>1. CASE \E some : session' = Ended(some)
  BY <1>0, <1>1 DEF SsTypeOK, Ended
<1>2. ASSUME NEW d \in Devices, NEW t \in SessionIds, CreateSession(d, t) \/ Rotate(d, t)
      PROVE  \A s \in SessionIds : session[s].status = "gone" => session'[s].status = "gone"
  BY <1>0, <1>2 DEF SsTypeOK, CreateSession, Rotate, LiveSessions
<1>3. CASE UNCHANGED session
  BY <1>3
<1> QED
  BY <1>1, <1>2, <1>3 DEF SsNext, SsStep, ssVars, SignIn, FindSessions, DeleteSessions, Resolve,
     EndSession, EndOthers, OpenLink, WritePassword, Purge, SsFails

\* A refresh never revives a session that was ended.
THEOREM EndedSessionsStay == SsSpec => EndedStaysEnded
  BY SsInitInv, SsNextKeepsInv, StepKeepsEnded, PTL DEF SsSpec, EndedStaysEnded

-----------------------------------------------------------------------------
(* The cache of rights.                                                    *)

\* A change of u's rights has been written and not yet flushed.
Flushing(u) == \E c \in Calls : call[c].op = "flush" /\ u \in call[c].on

\* What is on its way to the cache is current as well, or known not to be.
FillsAreCurrent ==
  \A c \in Calls, u \in Users :
    call[c].op = "store" /\ call[c].on = {u} =>
      call[c].seen = rights[u] \/ call[c].crossed \/ Flushing(u)

CacheInv == CacheTypeOK /\ RightsAreCurrent /\ FillsAreCurrent

\* The cache starts empty.
LEMMA CacheInitInv == CacheInit => CacheInv
BY DEF CacheInit, CacheInv, CacheTypeOK, RightsAreCurrent, FillsAreCurrent, CallIdle

\* Storing, expiring, failing and restarting end no flush but with the cache.
LEMMA FillSteps ==
  ASSUME CacheInv, NEW c \in Calls, NEW u \in Users,
         Fill(c, u) \/ Store(c, u) \/ FillFails(c) \/ Expire(u)
  PROVE  CacheInv'
<1>0. CacheTypeOK
  BY DEF CacheInv
<1>1. CacheTypeOK'
  <2>1. CASE Fill(c, u)
    BY <1>0, <2>1 DEF CacheTypeOK, Fill, CallIdle
  <2>2. CASE Store(c, u)
    <3>1. [rights |-> call[c].seen, crossed |-> call[c].crossed] \in [rights : Nat, crossed : BOOLEAN]
      BY <1>0 DEF CacheTypeOK
    <3> DEFINE one == {[rights |-> call[c].seen, crossed |-> call[c].crossed]}
    <3>2. one \in SUBSET [rights : Nat, crossed : BOOLEAN]
      BY <3>1
    <3>3. cached' = [cached EXCEPT ![u] = one]
      BY <2>2 DEF Store
    <3>4. cached' \in [Users -> SUBSET [rights : Nat, crossed : BOOLEAN]]
      <4> HIDE DEF one
      <4> QED
        BY <1>0, <3>2, <3>3 DEF CacheTypeOK
    <3>5. call' \in [Calls -> [op : {"idle", "store", "flush"}, on : SUBSET Users,
                               seen : Nat, crossed : BOOLEAN]]
      BY <1>0, <2>2 DEF CacheTypeOK, Store, CallIdle
    <3> QED
      BY <1>0, <2>2, <3>4, <3>5 DEF CacheTypeOK, Store
  <2>3. CASE FillFails(c)
    BY <1>0, <2>3 DEF CacheTypeOK, FillFails, CallIdle
  <2>4. CASE Expire(u)
    <3>1. {} \in SUBSET [rights : Nat, crossed : BOOLEAN]
      OBVIOUS
    <3> QED
      BY <1>0, <2>4, <3>1 DEF CacheTypeOK, Expire
  <2> QED
    BY <2>1, <2>2, <2>3, <2>4
<1>2. \A v \in Users : Flushing(v) => Flushing(v)'
  BY <1>0 DEF CacheTypeOK, Fill, Store, FillFails, Expire, CallIdle, Flushing
<1>3. RightsAreCurrent'
  <2>1. CASE Store(c, u)
    <3>1. \A v \in Users : cached'[v] =
            IF v = u THEN {[rights |-> call[c].seen, crossed |-> call[c].crossed]} ELSE cached[v]
      BY <1>0, <2>1 DEF CacheTypeOK, Store
    <3>2. call[c].seen = rights[u] \/ call[c].crossed \/ Flushing(u)
      BY <2>1 DEF CacheInv, FillsAreCurrent, Store
    <3> QED
      BY <1>2, <2>1, <3>1, <3>2 DEF CacheInv, RightsAreCurrent, Store, Flushing
  <2>2. CASE Fill(c, u) \/ FillFails(c) \/ Expire(u)
    <3>1. rights' = rights /\ \A v \in Users : cached'[v] \subseteq cached[v]
      BY <1>0, <2>2 DEF CacheTypeOK, Fill, FillFails, Expire
    <3> QED
      BY <1>2, <3>1 DEF CacheInv, RightsAreCurrent, Flushing
  <2> QED
    BY <2>1, <2>2
<1>4. FillsAreCurrent'
  <2>1. CASE Fill(c, u)
    <3>1. \A b \in Calls : b # c => call'[b] = call[b]
      BY <1>0, <2>1 DEF CacheTypeOK, Fill
    <3>2. call'[c].on = {u} /\ call'[c].seen = rights[u]
      BY <1>0, <2>1 DEF CacheTypeOK, Fill, CallIdle
    <3>3. rights' = rights
      BY <2>1 DEF Fill
    <3> QED
      BY <1>2, <3>1, <3>2, <3>3 DEF CacheInv, FillsAreCurrent
  <2>2. CASE Store(c, u) \/ FillFails(c) \/ Expire(u)
    <3>1. rights' = rights /\ \A b \in Calls : call'[b] = call[b] \/ call'[b].op = "idle"
      BY <1>0, <2>2 DEF CacheTypeOK, Store, FillFails, Expire, CallIdle
    <3> QED
      BY <1>2, <3>1 DEF CacheInv, FillsAreCurrent
  <2> QED
    BY <2>1, <2>2
<1> QED
  BY <1>1, <1>3, <1>4 DEF CacheInv

\* While a change waits for its flush, nothing is promised of its users.
LEMMA ChangeKeepsInv ==
  ASSUME CacheInv, NEW c \in Calls, NEW some \in SUBSET Users, Change(c, some)
  PROVE  CacheInv'
<1>0. CacheTypeOK
  BY DEF CacheInv
<1>1. CacheTypeOK'
  <2>1. rights' \in [Users -> Nat]
    BY <1>0 DEF CacheTypeOK, Change
  <2>2. [CallIdle EXCEPT !.op = "flush", !.on = some] \in
          [op : {"idle", "store", "flush"}, on : SUBSET Users, seen : Nat, crossed : BOOLEAN]
    BY DEF CallIdle
  <2> QED
    BY <1>0, <2>1, <2>2 DEF CacheTypeOK, Change
<1>2. /\ \A v \in Users : Flushing(v) => Flushing(v)'
      /\ \A v \in some : Flushing(v)'
      /\ \A v \in Users \ some : rights'[v] = rights[v]
      /\ cached' = cached
      /\ \A b \in Calls : call'[b] = call[b] \/ call'[b].op = "flush"
  BY <1>0 DEF CacheTypeOK, Change, CallIdle, Flushing
<1>3. RightsAreCurrent'
  BY <1>2 DEF CacheInv, RightsAreCurrent, Flushing
<1>4. FillsAreCurrent'
  BY <1>2 DEF CacheInv, FillsAreCurrent
<1> QED
  BY <1>1, <1>3, <1>4 DEF CacheInv

\* The flush empties the entries it is about and crosses the fills under way.
LEMMA FlushKeepsInv ==
  ASSUME CacheInv, NEW c \in Calls, Flush(c)
  PROVE  CacheInv'
<1>0. CacheTypeOK
  BY DEF CacheInv
<1>1. CacheTypeOK'
  <2>1. \A o \in Calls : call'[o] \in {CallIdle, [call[o] EXCEPT !.crossed = TRUE], call[o]}
    BY DEF Flush, Crossing
  <2>2. DOMAIN call' = Calls /\ call' = [o \in Calls |-> call'[o]]
    BY DEF Flush, Crossing
  <2>3. \A u \in Users : cached'[u] \in {{}, cached[u]}
    BY DEF Flush
  <2>4. cached' = [u \in Users |-> cached'[u]] /\ rights' = rights
    BY DEF Flush
  <2> DEFINE CallRow == [op : {"idle", "store", "flush"}, on : SUBSET Users, seen : Nat,
                         crossed : BOOLEAN]
  <2>a. ASSUME NEW o \in Calls PROVE call'[o] \in CallRow
    <3>1. call[o] \in CallRow
      BY <1>0 DEF CacheTypeOK
    <3>2. CallIdle \in CallRow /\ [call[o] EXCEPT !.crossed = TRUE] \in CallRow
      BY <3>1 DEF CallIdle
    <3> QED
      BY <2>1, <3>1, <3>2
  <2> HIDE DEF CallRow
  <2>b. call' \in [Calls -> CallRow]
    BY <2>2, <2>a
  <2>5. call' \in [Calls -> [op : {"idle", "store", "flush"}, on : SUBSET Users, seen : Nat,
                            crossed : BOOLEAN]]
    BY <2>b DEF CallRow
  <2> QED
    BY <1>0, <2>3, <2>4, <2>5 DEF CacheTypeOK
<1>2. /\ \A v \in Users : Flushing(v) => v \in call[c].on \/ Flushing(v)'
      /\ \A v \in Users : cached'[v] = IF v \in call[c].on THEN {} ELSE cached[v]
      /\ \A b \in Calls : b # c /\ call[b].op = "store" /\ call[b].on \subseteq call[c].on =>
            call'[b].crossed
      /\ \A b \in Calls : \/ call'[b].op = "idle"
                           \/ /\ b # c /\ call'[b].op = call[b].op /\ call'[b].on = call[b].on
                              /\ call'[b].seen = call[b].seen
                              /\ call[b].crossed => call'[b].crossed
      /\ rights' = rights
  BY <1>0 DEF CacheTypeOK, Flush, Crossing, CallIdle, Flushing
<1>3. RightsAreCurrent'
  BY <1>2 DEF CacheInv, RightsAreCurrent, Flushing
<1>4. FillsAreCurrent'
  BY <1>2 DEF CacheInv, FillsAreCurrent
<1> QED
  BY <1>1, <1>3, <1>4 DEF CacheInv

\* A restart empties the cache.
LEMMA RestartKeepsInv == ASSUME CacheInv, Restart PROVE CacheInv'
BY DEF CacheInv, CacheTypeOK, RightsAreCurrent, FillsAreCurrent, Restart, CallIdle

\* One case per step of a call.
LEMMA CacheNextKeepsInv == CacheInv /\ [CacheNext]_cacheVars => CacheInv'
<1> SUFFICES ASSUME CacheInv, [CacheNext]_cacheVars PROVE CacheInv'
  OBVIOUS
<1>1. ASSUME NEW u \in Users, Expire(u) PROVE CacheInv'
  <2>1. CASE Calls = {}
    BY <1>1, <2>1 DEF CacheInv, CacheTypeOK, RightsAreCurrent, FillsAreCurrent, Expire
  <2>2. CASE Calls # {}
    BY <1>1, <2>2, FillSteps
  <2> QED
    BY <2>1, <2>2
<1>2. ASSUME NEW c \in Calls, NEW u \in Users, Fill(c, u) \/ Store(c, u) PROVE CacheInv'
  BY <1>2, FillSteps
<1>3. ASSUME NEW c \in Calls, FillFails(c) PROVE CacheInv'
  <2>2. CASE Users = {}
    BY <1>3, <2>2 DEF CacheInv, CacheTypeOK, RightsAreCurrent, FillsAreCurrent, FillFails, CallIdle
  <2>3. CASE Users # {}
    BY <1>3, <2>3, FillSteps
  <2> QED
    BY <2>2, <2>3
<1>4. ASSUME NEW c \in Calls, Flush(c) \/ Change(c, Users) \/ \E u \in Users : Change(c, {u})
      PROVE CacheInv'
  BY <1>4, FlushKeepsInv, ChangeKeepsInv
<1>5. CASE Restart
  BY <1>5, RestartKeepsInv
<1>6. CASE UNCHANGED cacheVars
  BY <1>6 DEF cacheVars, CacheInv, CacheTypeOK, RightsAreCurrent, FillsAreCurrent, Flushing
<1> QED
  BY <1>1, <1>2, <1>3, <1>4, <1>5, <1>6 DEF CacheNext

\* A change of rights is seen by the next request, unless a fill crossed it.
THEOREM CachedRightsAreCurrent == CacheSpec => []RightsAreCurrent
<1>1. CacheInv => RightsAreCurrent
  BY DEF CacheInv
<1> QED
  BY <1>1, CacheInitInv, CacheNextKeepsInv, PTL DEF CacheSpec

-----------------------------------------------------------------------------
(* The credential of a provider.                                           *)

CredTypeOK ==
  /\ cred \in [mode : {"none", "api_key", "oauth"},
               status : {"none", "ACTIVE", "DISABLED", "ERROR"},
               access : {"none", "key", "grant"}, refresh : Nat,
               expires : {"never", "later", "soon"}]
  /\ caller \in [Callers ->
       [op : {"idle", "exchange", "save", "lock", "read", "post", "write", "mark"},
        token : Nat, expires : {"never", "later", "soon"}]]
  /\ issued \in Nat /\ disturbed \in BOOLEAN

\* Every token is one the provider has issued: the next is new.
TokensIssued ==
  /\ honoured \subseteq 1..issued /\ ended \subseteq 1..issued
  /\ cred.refresh <= issued
  /\ \A c \in Callers : caller[c].token <= issued

UnderLock(c) == caller[c].op \in {"read", "post", "write", "mark"}
OneRefresh == \A c, d \in Callers : UnderLock(c) /\ UnderLock(d) => c = d

\* The token of a connection about to be stored is nobody else's.
SavesNewToken ==
  \A c \in Callers : AtOp(c, "save") /\ caller[c].token # NoToken =>
    /\ caller[c].token \in honoured \cup ended
    /\ cred.refresh # caller[c].token
    /\ \A d \in Callers \ {c} : caller[d].token # caller[c].token

\* An undisturbed refresh works on the row as it stands.
RefreshesTheRow ==
  ~disturbed => \A c \in Callers :
    /\ AtOp(c, "post") =>
         cred.mode = "oauth" /\ caller[c].token = cred.refresh /\ cred.refresh # NoToken
    /\ AtOp(c, "mark") =>
         cred.mode = "oauth" /\ caller[c].token = cred.refresh
         /\ cred.refresh \in ended \cup {NoToken}
    /\ AtOp(c, "write") => cred.mode = "oauth" /\ caller[c].token \in honoured \cup ended

CredInv ==
  /\ CredTypeOK /\ TokensIssued /\ OneRefresh
  /\ SavesNewToken /\ RefreshesTheRow /\ CredentialHolds

\* Before the first refresh.
LEMMA CredInitInv == CredInit => CredInv
<1> SUFFICES ASSUME CredInit PROVE CredInv
  OBVIOUS
<1>1. CredTypeOK
  BY DEF CredInit, CredTypeOK, NoRow, AskIdle, NoToken
<1>2. TokensIssued /\ OneRefresh /\ SavesNewToken
  BY DEF CredInit, TokensIssued, OneRefresh, SavesNewToken, NoRow, AskIdle, NoToken, UnderLock, AtOp
<1>3. RefreshesTheRow /\ CredentialHolds
  BY DEF CredInit, RefreshesTheRow, CredentialHolds, NoRow, AskIdle, NoToken, AtOp
<1> QED
  BY <1>1, <1>2, <1>3 DEF CredInv

USE DEF NoToken, AtOp, GoTo, Hangup, AskIdle, providerVars, UnderLock

\* Steps of the administrator and of the provider.
LEMMA RowStep ==
  ASSUME CredInv,
         UpsertApiKey \/ Disconnect \/ UpdateModel \/ CreateAuthorizeUrl
           \/ ComesToExpire \/ EndConnection
  PROVE  CredInv'
<1>1. CASE UpsertApiKey
  BY <1>1 DEF UpsertApiKey, CredInv, CredTypeOK, TokensIssued, OneRefresh, SavesNewToken,
     RefreshesTheRow, CredentialHolds, HoldsOldRow
<1>2. CASE Disconnect
  BY <1>2 DEF Disconnect, NoRow, CredInv, CredTypeOK, TokensIssued, OneRefresh, SavesNewToken,
     RefreshesTheRow, CredentialHolds, HoldsOldRow
<1>3. CASE UpdateModel
  BY <1>3 DEF UpdateModel, NoRow, CredInv, CredTypeOK, TokensIssued, OneRefresh, SavesNewToken,
     RefreshesTheRow, CredentialHolds
<1>4. CASE CreateAuthorizeUrl
  BY <1>4 DEF CreateAuthorizeUrl, CredInv, CredTypeOK, TokensIssued, OneRefresh, SavesNewToken,
     RefreshesTheRow, CredentialHolds
<1>5. CASE ComesToExpire
  BY <1>5 DEF ComesToExpire, CredInv, CredTypeOK, TokensIssued, OneRefresh, SavesNewToken,
     RefreshesTheRow, CredentialHolds
<1>6. CASE EndConnection
  <2> PICK t \in honoured : honoured' = honoured \ {t} /\ ended' = ended \cup {t}
    BY <1>6 DEF EndConnection
  <2>1. honoured' \cup ended' = honoured \cup ended
    OBVIOUS
  <2> QED
    BY <2>1, <1>6 DEF EndConnection, CredInv, CredTypeOK, TokensIssued, OneRefresh, SavesNewToken,
       RefreshesTheRow, CredentialHolds
<1> QED
  BY <1>1, <1>2, <1>3, <1>4, <1>5, <1>6

\* Steps of a connection.
LEMMA ConnectStep ==
  ASSUME CredInv, NEW c \in Callers,
         ConsumeState(c) \/ ExchangeCode(c) \/ SaveConnection(c)
  PROVE  CredInv'
<1>1. CASE ConsumeState(c)
  BY <1>1 DEF ConsumeState, CredInv, CredTypeOK, TokensIssued, OneRefresh, SavesNewToken,
     RefreshesTheRow, CredentialHolds
<1>2. CASE ExchangeCode(c)
  <2> PICK token \in {NoToken, issued + 1}, expires \in {"never", "later"} :
        Granted(c, token, expires)
    BY <1>2 DEF ExchangeCode
  <2>0. token \in Nat /\ issued' \in Nat /\ issued <= issued' /\ token <= issued'
        /\ honoured \subseteq honoured' /\ (token # NoToken => token \in honoured')
    BY DEF Granted, CredInv, CredTypeOK
  <2>1. CredTypeOK'
    BY <1>2, <2>0 DEF ExchangeCode, Granted, CredInv, CredTypeOK
  <2>2. TokensIssued'
    BY <1>2, <2>0 DEF ExchangeCode, Granted, CredInv, CredTypeOK, TokensIssued
  <2>3. OneRefresh'
    BY <1>2 DEF ExchangeCode, Granted, CredInv, CredTypeOK, OneRefresh
  <2>4. SavesNewToken'
    BY <1>2, <2>0 DEF ExchangeCode, Granted, CredInv, CredTypeOK, SavesNewToken, TokensIssued
  <2>5. RefreshesTheRow' /\ CredentialHolds'
    BY <1>2, <2>0 DEF ExchangeCode, Granted, CredInv, CredTypeOK, RefreshesTheRow, CredentialHolds
  <2> QED
    BY <2>1, <2>2, <2>3, <2>4, <2>5 DEF CredInv
<1>3. CASE SaveConnection(c)
  <2>1. CredTypeOK' /\ TokensIssued' /\ OneRefresh'
    BY <1>3 DEF SaveConnection, CredInv, CredTypeOK, TokensIssued, OneRefresh
  <2>2. SavesNewToken'
    BY <1>3 DEF SaveConnection, CredInv, CredTypeOK, SavesNewToken
  <2>3. RefreshesTheRow' /\ CredentialHolds'
    BY <1>3 DEF SaveConnection, CredInv, CredTypeOK, RefreshesTheRow, CredentialHolds,
       SavesNewToken, HoldsOldRow
  <2> QED
    BY <2>1, <2>2, <2>3 DEF CredInv
<1> QED
  BY <1>1, <1>2, <1>3

\* Steps of a refresh.
LEMMA RefreshStep ==
  ASSUME CredInv, NEW c \in Callers,
         \/ GetCredentialAccessToken(c) \/ RefreshCredentialWithLock(c)
         \/ RefreshExpiredCredential(c) \/ RefreshAccessToken(c) \/ RefuseRefresh(c)
         \/ WriteTokens(c) \/ MarkError(c) \/ HangsUp(c)
  PROVE  CredInv'
<1>1. CASE GetCredentialAccessToken(c)
  BY <1>1 DEF GetCredentialAccessToken, CredInv, CredTypeOK, TokensIssued, OneRefresh,
     SavesNewToken, RefreshesTheRow, CredentialHolds
<1>2. CASE RefreshCredentialWithLock(c)
  BY <1>2 DEF RefreshCredentialWithLock, Refreshing, CredInv, CredTypeOK, TokensIssued,
     OneRefresh, SavesNewToken, RefreshesTheRow, CredentialHolds
<1>3. CASE RefreshExpiredCredential(c)
  <2>1. CredTypeOK' /\ TokensIssued' /\ OneRefresh'
    BY <1>3 DEF RefreshExpiredCredential, CredInv, CredTypeOK, TokensIssued, OneRefresh
  <2>2. SavesNewToken'
    BY <1>3 DEF RefreshExpiredCredential, CredInv, CredTypeOK, SavesNewToken
  <2>3. RefreshesTheRow' /\ CredentialHolds'
    BY <1>3 DEF RefreshExpiredCredential, CredInv, CredTypeOK, RefreshesTheRow, CredentialHolds,
       ShouldRefresh
  <2> QED
    BY <2>1, <2>2, <2>3 DEF CredInv
<1>4. CASE RefreshAccessToken(c)
  <2>a. issued \in Nat /\ honoured \subseteq 1..issued /\ caller[c].token \in honoured
    BY <1>4 DEF RefreshAccessToken, CredInv, CredTypeOK, TokensIssued
  <2>b. \/ UNCHANGED <<issued, honoured>>
        \/ issued' = issued + 1 /\ honoured' = (honoured \ {caller[c].token}) \cup {issued'}
    BY <1>4 DEF RefreshAccessToken
  <2>c. issued' \in Nat /\ issued <= issued' /\ honoured \ {caller[c].token} \subseteq honoured'
    BY <2>a, <2>b
  <2>d. honoured' \subseteq 1..issued'
    <3>1. \A n \in 1..issued : n \in 1..issued'
      BY <2>a, <2>c
    <3>2. issued' = issued + 1 => issued' \in 1..issued'
      BY <2>a
    <3>3. \A n \in honoured' : n \in honoured \/ (n = issued' /\ issued' = issued + 1)
      BY <2>b
    <3> QED
      BY <2>a, <3>1, <3>2, <3>3
  <2>e. PICK token \in honoured' :
          Answer(c, token) /\ (token = caller[c].token \/ token = issued + 1)
    BY <1>4, <2>a DEF RefreshAccessToken
  <2>1. CredTypeOK'
    BY <1>4, <2>a, <2>c, <2>d, <2>e DEF RefreshAccessToken, Answer, CredInv, CredTypeOK
  <2>2. TokensIssued' /\ OneRefresh'
    BY <1>4, <2>a, <2>c, <2>d, <2>e DEF RefreshAccessToken, Answer, CredInv, CredTypeOK,
       TokensIssued, OneRefresh
  <2>3. SavesNewToken'
    BY <1>4, <2>a, <2>c, <2>d, <2>e DEF RefreshAccessToken, Answer, CredInv, CredTypeOK,
       TokensIssued, SavesNewToken
  <2>4. RefreshesTheRow' /\ CredentialHolds'
    BY <1>4, <2>a, <2>c, <2>d, <2>e DEF RefreshAccessToken, Answer, CredInv, CredTypeOK,
       RefreshesTheRow, CredentialHolds, OneRefresh
  <2> QED
    BY <2>1, <2>2, <2>3, <2>4 DEF CredInv
<1>5. CASE RefuseRefresh(c)
  <2>1. CredTypeOK' /\ TokensIssued' /\ OneRefresh' /\ SavesNewToken'
    BY <1>5 DEF RefuseRefresh, CredInv, CredTypeOK, TokensIssued, OneRefresh, SavesNewToken
  <2>2. ~disturbed' => ~disturbed /\ caller[c].token \notin honoured
    BY <1>5 DEF RefuseRefresh
  <2>3. RefreshesTheRow' /\ CredentialHolds'
    BY <1>5, <2>2 DEF RefuseRefresh, CredInv, CredTypeOK, RefreshesTheRow, CredentialHolds,
       OneRefresh
  <2> QED
    BY <2>1, <2>3 DEF CredInv
<1>6. CASE WriteTokens(c)
  <2>0. \/ cred' = [cred EXCEPT !.access = "grant", !.refresh = caller[c].token,
                              !.expires = caller[c].expires, !.status = "ACTIVE"]
        \/ cred' = cred
    BY <1>6 DEF WriteTokens, OnRow
  <2>1. CredTypeOK'
    BY <1>6, <2>0 DEF WriteTokens, CredInv, CredTypeOK
  <2>4. TokensIssued'
    <3>1. cred'.refresh \in {cred.refresh, caller[c].token}
      BY <2>0 DEF CredInv, CredTypeOK
    <3>2. \A d \in Callers : caller'[d].token \in {caller[d].token, 0}
      BY <1>6 DEF WriteTokens, CredInv, CredTypeOK
    <3> QED
      BY <1>6, <3>1, <3>2 DEF WriteTokens, CredInv, CredTypeOK, TokensIssued
  <2>5. OneRefresh'
    BY <1>6 DEF WriteTokens, CredInv, CredTypeOK, OneRefresh
  <2>2. SavesNewToken'
    BY <1>6 DEF WriteTokens, OnRow, NoRow, CredInv, CredTypeOK, SavesNewToken
  <2>3. RefreshesTheRow' /\ CredentialHolds'
    BY <1>6 DEF WriteTokens, OnRow, NoRow, CredInv, CredTypeOK, RefreshesTheRow,
       CredentialHolds, OneRefresh
  <2> QED
    BY <2>1, <2>2, <2>3, <2>4, <2>5 DEF CredInv
<1>7. CASE MarkError(c)
  BY <1>7 DEF MarkError, OnRow, NoRow, CredInv, CredTypeOK, TokensIssued, OneRefresh,
     SavesNewToken, RefreshesTheRow, CredentialHolds
<1>8. CASE HangsUp(c)
  <2>1. CredTypeOK' /\ TokensIssued' /\ OneRefresh' /\ SavesNewToken'
    BY <1>8 DEF HangsUp, CredInv, CredTypeOK, TokensIssued, OneRefresh, SavesNewToken
  <2>2. ~disturbed' => ~disturbed /\ caller[c].op # "write"
    BY <1>8 DEF HangsUp
  <2>3. RefreshesTheRow' /\ CredentialHolds'
    BY <1>8, <2>2 DEF HangsUp, CredInv, CredTypeOK, RefreshesTheRow, CredentialHolds
  <2> QED
    BY <2>1, <2>3 DEF CredInv
<1> QED
  BY <1>1, <1>2, <1>3, <1>4, <1>5, <1>6, <1>7, <1>8

\* One refresh at a time keeps the stored token the one the provider honours
\* (refreshCredentialWithLock), for any number of calls, connections and tokens.
THEOREM RefreshTokenHolds == CredSpec => []CredentialHolds
<1>1. CredInv /\ [CredNext]_credVars => CredInv'
  <2>1. ASSUME CredInv, UNCHANGED credVars PROVE CredInv'
    BY <2>1 DEF credVars, CredInv, CredTypeOK, TokensIssued, OneRefresh, SavesNewToken,
       RefreshesTheRow, CredentialHolds
  <2> QED
    BY <2>1, RowStep, ConnectStep, RefreshStep DEF CredNext, CredCall
<1>2. CredInv => CredentialHolds
  BY DEF CredInv
<1> QED
  BY CredInitInv, <1>1, <1>2, PTL DEF CredSpec

-----------------------------------------------------------------------------
(* The actions of agents, for any number of actions, customers and requests. *)

AgentTyped ==
  /\ action \in [ActionIds ->
       [status : {"none", "PENDING_REVIEW", "EXECUTED", "REJECTED", "FAILED"},
        customer : SUBSET Scanned, payload : Nat]]
  /\ made \in [ActionIds -> Seq(Nat)]
  /\ review \in [Reviewers ->
       [op : {"idle", "propose", "edit", "reject", "execute", "record", "fail"},
        on : SUBSET (ActionIds \cup Scanned), seen : Nat, met : BOOLEAN]]

\* The requests that have read the row of an action, and those that made its activity.
Reads(r, a) ==
  review[r].op \in {"edit", "reject", "execute", "record", "fail"} /\ review[r].on = {a}
Recording(a) == \E r \in Reviewers : Reviewing(r, "record", a)

\* A row that is not there has no activity and no reader.
NothingBeforeProposal ==
  \A a \in ActionIds : action[a].status = "none" =>
    made[a] = << >> /\ \A r \in Reviewers : ~Reads(r, a)

\* What a reader knows of a row that nobody wrote beside another reader.
ReadersKnow(a) ==
  /\ \A r \in Reviewers : Reads(r, a) =>
       action[a].status = "PENDING_REVIEW" /\ review[r].seen = action[a].payload
  /\ ~Recording(a) =>
       made[a] = IF action[a].status = "EXECUTED" THEN <<action[a].payload>> ELSE << >>
  /\ \A r \in Reviewers :
       Reviewing(r, "record", a) /\ (\A o \in Reviewers : Reviewing(o, "record", a) => o = r)
         => made[a] = <<action[a].payload>>

\* A scan that met no other knows that nothing of its customer is waiting.
ScansKnow ==
  \A r \in Reviewers, k \in Scanned :
    review[r].op = "propose" /\ review[r].on = {k} /\ ~review[r].met => NonePending(k)

AgentInv ==
  /\ AgentTyped /\ NothingBeforeProposal
  /\ \A a \in ActionIds : a \in crossed \cup unrecorded \/ ReadersKnow(a)
  /\ ScansKnow /\ OneProposalUnlessScansCrossed

\* Without actions there is nothing to know.
LEMMA AgentInitInv == AgentInit => AgentInv
<1> SUFFICES ASSUME AgentInit PROVE AgentInv
  OBVIOUS
<1>1. AgentTyped
  <2>1. << >> \in Seq(Nat)
    BY EmptySeq
  <2> QED BY <2>1 DEF AgentInit, AgentTyped, NoAction, ReviewIdle
<1>2. \A a \in ActionIds : /\ action[a].status = "none" /\ made[a] = << >>
                           /\ \A r \in Reviewers : ~Reads(r, a) /\ review[r].op = "idle"
  BY DEF AgentInit, NoAction, ReviewIdle, Reads
<1>3. \A a \in ActionIds : ReadersKnow(a)
  BY <1>2 DEF ReadersKnow, Reviewing, Recording
<1>4. ScansKnow
  BY DEF AgentInit, ScansKnow, ReviewIdle
<1>5. OneProposalUnlessScansCrossed
  BY <1>2 DEF OneProposalUnlessScansCrossed, Awaiting
<1> QED BY <1>1, <1>2, <1>3, <1>4, <1>5 DEF AgentInv, NothingBeforeProposal

\* A request that writes its row back, or ends, leaves the other requests alone.
Ends(r) ==
  /\ \A o \in Reviewers \ {r} : review'[o] = review[o]
  /\ review'[r] = ReviewIdle

\* A write of a row whose other readers are recorded as crossed: what the
\* request knows of an uncrossed action is what it writes.
LEMMA WritesKeepReaders ==
  ASSUME AgentInv, NEW r \in Reviewers, NEW a \in ActionIds,
         \/ EditAction(r, a) \/ RejectAction(r, a) \/ Record(r, a) \/ MarkFailed(r, a)
  PROVE  AgentInv'
<1> USE DEF AgentInv
<1>1. /\ Reads(r, a) /\ Ends(r) /\ made' = made /\ unrecorded' = unrecorded
      /\ doubled' = doubled /\ crossed \subseteq crossed'
      /\ \A b \in ActionIds : b # a => action'[b] = action[b]
      /\ action'[a].customer = action[a].customer
      /\ Reviewing(r, "record", a) <=> Record(r, a)
  BY DEF EditAction, RejectAction, Record, MarkFailed, Reads, Reviewing, Reviewed, Ends,
         Cross, AgentTyped
<1>2. action[a].status # "none"
  BY <1>1 DEF NothingBeforeProposal
<1>3. AgentTyped'
  <2>1. ReviewIdle \in [op : {"idle", "propose", "edit", "reject", "execute", "record", "fail"},
                        on : SUBSET (ActionIds \cup Scanned), seen : Nat, met : BOOLEAN]
    BY DEF ReviewIdle
  <2>2. review' \in [Reviewers ->
          [op : {"idle", "propose", "edit", "reject", "execute", "record", "fail"},
           on : SUBSET (ActionIds \cup Scanned), seen : Nat, met : BOOLEAN]]
    BY <2>1 DEF EditAction, RejectAction, Record, MarkFailed, Reviewed, AgentTyped
  <2>3. action' \in [ActionIds ->
          [status : {"none", "PENDING_REVIEW", "EXECUTED", "REJECTED", "FAILED"},
           customer : SUBSET Scanned, payload : Nat]]
    <3>1. CASE EditAction(r, a)
      <4> DEFINE n == action[a].payload + 1
                 row == [action[a] EXCEPT !.payload = n]
      <4>1. n \in Nat
        BY DEF AgentTyped
      <4>2. action' = [action EXCEPT ![a] = row]
        BY <3>1 DEF EditAction, AgentTyped
      <4> HIDE DEF n
      <4>3. row \in [status : {"none", "PENDING_REVIEW", "EXECUTED", "REJECTED", "FAILED"},
                    customer : SUBSET Scanned, payload : Nat]
        BY <4>1 DEF AgentTyped
      <4> HIDE DEF row
      <4> QED BY <4>2, <4>3 DEF AgentTyped
    <3>2. CASE RejectAction(r, a) \/ Record(r, a) \/ MarkFailed(r, a)
      <4>1. \E status \in {"REJECTED", "EXECUTED", "FAILED"} :
              action' = [action EXCEPT ![a].status = status]
        BY <3>2 DEF RejectAction, Record, MarkFailed
      <4> QED BY <4>1, ZenonT(30) DEF AgentTyped
    <3> QED BY <3>1, <3>2
  <2> QED BY <1>1, <2>2, <2>3 DEF AgentTyped
<1>4. \A o \in Reviewers, b \in ActionIds : Reads(o, b)' => o # r /\ Reads(o, b)
  BY <1>1 DEF Reads, Ends, ReviewIdle
<1>5. \A o \in Reviewers, b \in ActionIds :
        Reviewing(o, "record", b)' <=> o # r /\ Reviewing(o, "record", b)
  BY <1>1 DEF Reviewing, Ends, ReviewIdle
<1>6. NothingBeforeProposal'
  <2>1. action'[a].status # "none"
    BY <1>2 DEF EditAction, RejectAction, Record, MarkFailed, AgentTyped
  <2> QED BY <1>1, <1>4, <2>1 DEF NothingBeforeProposal
<1>7. ASSUME NEW b \in ActionIds, b \notin (crossed \cup unrecorded)'
      PROVE  ReadersKnow(b)'
  <2>1. ReadersKnow(b)
    BY <1>1, <1>7
  <2>2. CASE b # a
    <3>1. ~Reviewing(r, "record", b)
      BY <1>1, <2>2 DEF Reads, Reviewing
    <3>2. \A o \in Reviewers : /\ Reviewing(o, "record", b)' <=> Reviewing(o, "record", b)
                               /\ Reads(o, b)' => Reads(o, b) /\ review'[o] = review[o]
      BY <1>1, <1>4, <1>5, <3>1 DEF Ends
    <3> QED BY <1>1, <2>1, <2>2, <3>2 DEF ReadersKnow, Recording
  <2>3. CASE b = a
    <3>1. \A o \in Reviewers \ {r} : review[o].on # {a}
      BY <1>7, <2>3 DEF EditAction, RejectAction, Record, MarkFailed, Cross
    <3>2. \A o \in Reviewers : ~Reads(o, a)' /\ ~Reviewing(o, "record", a)'
      BY <1>4, <1>5, <3>1 DEF Reads, Reviewing
    <3>3. action[a].status = "PENDING_REVIEW" /\ review[r].seen = action[a].payload
      BY <1>1, <2>1, <2>3 DEF ReadersKnow
    <3>4. made'[a] = IF action'[a].status = "EXECUTED" THEN <<action'[a].payload>> ELSE << >>
      <4>1. CASE Record(r, a)
        <5>1. made[a] = <<action[a].payload>>
          BY <1>1, <2>1, <2>3, <3>1, <4>1 DEF ReadersKnow, Reviewing
        <5>2. action'[a].status = "EXECUTED" /\ action'[a].payload = action[a].payload
          BY <4>1 DEF Record, AgentTyped
        <5> QED BY <1>1, <5>1, <5>2
      <4>2. CASE ~Record(r, a)
        <5>1. ~Recording(a)
          BY <1>1, <3>1, <4>2 DEF Recording, Reviewing
        <5>2. made[a] = << >>
          BY <2>1, <2>3, <3>3, <5>1 DEF ReadersKnow
        <5>3. action'[a].status # "EXECUTED"
          BY <3>3, <4>2 DEF EditAction, RejectAction, MarkFailed, AgentTyped
        <5> QED BY <1>1, <5>2, <5>3
      <4> QED BY <4>1, <4>2
    <3> QED BY <2>3, <3>2, <3>4 DEF ReadersKnow
  <2> QED BY <2>2, <2>3
<1>8. \A b \in ActionIds : action'[b].status = "PENDING_REVIEW"
                             => action[b].status = "PENDING_REVIEW" \/ b = a
  BY <1>1
<1>9. action'[a].status = "PENDING_REVIEW" => action[a].status = "PENDING_REVIEW"
  BY DEF EditAction, RejectAction, Record, MarkFailed, AgentTyped
<1>10. ScansKnow'
  <2>1. ASSUME NEW o \in Reviewers, NEW k \in Scanned, review'[o].op = "propose",
               review'[o].on = {k}, ~review'[o].met
        PROVE  NonePending(k)'
    <3>1. o # r /\ review'[o] = review[o]
      BY <1>1, <2>1 DEF Ends, ReviewIdle
    <3>2. NonePending(k)
      BY <2>1, <3>1 DEF ScansKnow
    <3> QED BY <1>1, <1>8, <1>9, <3>2 DEF NonePending
  <2> QED BY <2>1 DEF ScansKnow
<1>11. OneProposalUnlessScansCrossed'
  BY <1>1, <1>8, <1>9 DEF OneProposalUnlessScansCrossed, Awaiting
<1> QED BY <1>3, <1>6, <1>7, <1>10, <1>11

\* The steps that write no row.
RowsStand == UNCHANGED <<action, crossed, doubled>>

\* What is waiting, and what was doubled, does not change.
LEMMA RowsStandKeepsScans ==
  ASSUME AgentInv, RowsStand, NEW r \in Reviewers,
         \A o \in Reviewers \ {r} : review'[o] = review[o],
         review'[r].op # "propose"
           \/ \A k \in Scanned : review'[r].on = {k} => NonePending(k)
  PROVE  ScansKnow' /\ OneProposalUnlessScansCrossed'
<1>1. \A k \in Scanned : NonePending(k)' <=> NonePending(k)
  BY DEF RowsStand, NonePending
<1>2. ScansKnow'
  BY <1>1 DEF AgentInv, ScansKnow
<1> QED BY <1>2 DEF AgentInv, OneProposalUnlessScansCrossed, Awaiting, RowsStand

\* A request reads a row, or looks for proposals.
LEMMA TakesKeepReaders ==
  ASSUME AgentInv, NEW r \in Reviewers,
         \/ \E a \in ActionIds, op \in {"edit", "reject", "execute"} : TakeUp(r, a, op)
         \/ \E k \in Scanned : Scan(r, k)
  PROVE  AgentInv'
<1> USE DEF AgentInv
<1>1. /\ review[r].op = "idle" /\ RowsStand /\ made' = made /\ unrecorded' = unrecorded
      /\ \A o \in Reviewers \ {r} : review'[o] = review[o]
      /\ review'[r].op \in {"propose", "edit", "reject", "execute"}
  BY ZenonT(30) DEF TakeUp, Scan, RowsStand, AgentTyped, ReviewIdle
<1>2. AgentTyped'
  <2>1. ASSUME NEW a \in ActionIds, NEW op \in {"edit", "reject", "execute"}, TakeUp(r, a, op)
        PROVE  review' \in [Reviewers ->
          [op : {"idle", "propose", "edit", "reject", "execute", "record", "fail"},
           on : SUBSET (ActionIds \cup Scanned), seen : Nat, met : BOOLEAN]]
    BY <2>1 DEF TakeUp, AgentTyped, ReviewIdle
  <2>2. ASSUME NEW k \in Scanned, Scan(r, k)
        PROVE  review' \in [Reviewers ->
          [op : {"idle", "propose", "edit", "reject", "execute", "record", "fail"},
           on : SUBSET (ActionIds \cup Scanned), seen : Nat, met : BOOLEAN]]
    BY <2>2 DEF Scan, AgentTyped, ReviewIdle
  <2> QED BY <1>1, <2>1, <2>2 DEF AgentTyped, RowsStand
<1>3. \A b \in ActionIds : Reads(r, b)' =>
        action[b].status = "PENDING_REVIEW" /\ review'[r].seen = action[b].payload
  <2>1. ASSUME NEW a \in ActionIds, NEW op \in {"edit", "reject", "execute"}, TakeUp(r, a, op),
               NEW b \in ActionIds, Reads(r, b)'
        PROVE  action[b].status = "PENDING_REVIEW" /\ review'[r].seen = action[b].payload
    BY <2>1 DEF TakeUp, Awaiting, Reads, AgentTyped, ReviewIdle
  <2>2. ASSUME NEW k \in Scanned, Scan(r, k), NEW b \in ActionIds
        PROVE  ~Reads(r, b)'
    BY <2>2 DEF Scan, Reads, AgentTyped, ReviewIdle
  <2> QED BY <2>1, <2>2
<1>4. \A o \in Reviewers, b \in ActionIds : Reviewing(o, "record", b)' <=> Reviewing(o, "record", b)
  BY <1>1 DEF Reviewing
<1>5. \A o \in Reviewers, b \in ActionIds : o # r => (Reads(o, b)' <=> Reads(o, b))
  BY <1>1 DEF Reads
<1>6. NothingBeforeProposal'
  BY <1>1, <1>3, <1>5 DEF NothingBeforeProposal, RowsStand
<1>7. ASSUME NEW b \in ActionIds, ReadersKnow(b) PROVE ReadersKnow(b)'
  BY <1>1, <1>3, <1>4, <1>5, <1>7 DEF ReadersKnow, Recording, RowsStand
<1>8. review'[r].op # "propose" \/ \A k \in Scanned : review'[r].on = {k} => NonePending(k)
  <2>1. ASSUME NEW k \in Scanned, Scan(r, k)
        PROVE  \A c \in Scanned : review'[r].on = {c} => NonePending(c)
    <3>1. review'[r].on = {k} /\ NonePending(k)
      BY <2>1 DEF Scan, AgentTyped, ReviewIdle
    <3> QED BY <3>1
  <2>2. ASSUME NEW a \in ActionIds, NEW op \in {"edit", "reject", "execute"}, TakeUp(r, a, op)
        PROVE  review'[r].op # "propose"
    BY <2>2 DEF TakeUp, AgentTyped, ReviewIdle
  <2> QED BY <2>1, <2>2
<1>9. ScansKnow' /\ OneProposalUnlessScansCrossed'
  BY <1>1, <1>8, RowsStandKeepsScans
<1> QED BY <1>1, <1>2, <1>6, <1>7, <1>9 DEF RowsStand

\* A request fails or ends: if it made the activity, that is recorded.
LEMMA LeavesKeepReaders ==
  ASSUME AgentInv, NEW r \in Reviewers,
         Drop(r) \/ \E a \in ActionIds : Throw(r, a)
  PROVE  AgentInv'
<1> USE DEF AgentInv
<1>1. /\ RowsStand /\ made' = made /\ unrecorded \subseteq unrecorded'
      /\ \A o \in Reviewers \ {r} : review'[o] = review[o]
      /\ \/ review'[r] = ReviewIdle
         \/ /\ review'[r] = [review[r] EXCEPT !.op = "fail"]
            /\ review[r].op \in {"execute", "record"}
  BY DEF Drop, Reviewed, Throw, Reviewing, RowsStand, AgentTyped
<1>2. \A b \in ActionIds : Reviewing(r, "record", b) => b \in unrecorded'
  <2>1. CASE Drop(r)
    BY <2>1 DEF Drop, Reviewing
  <2>2. ASSUME NEW a \in ActionIds, Throw(r, a)
        PROVE  \A b \in ActionIds : Reviewing(r, "record", b) => b \in unrecorded'
    <3>1. \A b \in ActionIds : Reviewing(r, "record", b) => b = a /\ Reviewing(r, "record", a)
      BY <2>2 DEF Throw, Reviewing
    <3> QED BY <2>2, <3>1 DEF Throw
  <2> QED BY <2>1, <2>2
<1>3. AgentTyped'
  <2>1. review'[r] \in [op : {"idle", "propose", "edit", "reject", "execute", "record", "fail"},
                        on : SUBSET (ActionIds \cup Scanned), seen : Nat, met : BOOLEAN]
    <3>1. CASE review'[r] = ReviewIdle
      BY <3>1 DEF ReviewIdle
    <3>2. CASE review'[r] = [review[r] EXCEPT !.op = "fail"]
      BY <3>2 DEF AgentTyped
    <3> QED BY <1>1, <3>1, <3>2
  <2>2. \E x : review' = [review EXCEPT ![r] = x]
    <3>1. CASE Drop(r)
      BY <3>1 DEF Drop, Reviewed
    <3>2. ASSUME NEW a \in ActionIds, Throw(r, a)
          PROVE  \E x : review' = [review EXCEPT ![r] = x]
      <4>1. review' = [review EXCEPT ![r] = [review[r] EXCEPT !.op = "fail"]]
        BY <3>2 DEF Throw, AgentTyped
      <4> QED BY <4>1
    <3> QED BY <3>1, <3>2
  <2> QED BY <1>1, <2>1, <2>2 DEF AgentTyped, RowsStand
<1>4. \A o \in Reviewers, b \in ActionIds :
        Reads(o, b)' => Reads(o, b) /\ review'[o].seen = review[o].seen
  <2>1. CASE review'[r] = ReviewIdle
    BY <1>1, <2>1 DEF Reads, ReviewIdle
  <2>2. CASE /\ review'[r] = [review[r] EXCEPT !.op = "fail"]
             /\ review[r].op \in {"execute", "record"}
    BY <1>1, <2>2, ZenonT(30) DEF Reads, AgentTyped
  <2> QED BY <1>1, <2>1, <2>2
<1>5. \A o \in Reviewers, b \in ActionIds : b \notin unrecorded' =>
        (Reviewing(o, "record", b)' <=> Reviewing(o, "record", b))
  <2>1. \A b \in ActionIds : ~Reviewing(r, "record", b)'
    BY <1>1 DEF Reviewing, ReviewIdle, AgentTyped
  <2>2. \A o \in Reviewers \ {r}, b \in ActionIds :
          Reviewing(o, "record", b)' <=> Reviewing(o, "record", b)
    BY <1>1 DEF Reviewing
  <2> QED BY <1>2, <2>1, <2>2
<1>6. NothingBeforeProposal'
  BY <1>1, <1>4 DEF NothingBeforeProposal, RowsStand
<1>7. ASSUME NEW b \in ActionIds, b \notin unrecorded', ReadersKnow(b) PROVE ReadersKnow(b)'
  BY <1>1, <1>4, <1>5, <1>7 DEF ReadersKnow, Recording, RowsStand
<1>8. review'[r].op # "propose"
  BY <1>1 DEF ReviewIdle, AgentTyped
<1>9. ScansKnow' /\ OneProposalUnlessScansCrossed'
  BY <1>1, <1>8, RowsStandKeepsScans
<1> QED BY <1>1, <1>3, <1>6, <1>7, <1>9 DEF RowsStand

\* The activity is created: by the only one to do so, or by one of several.
LEMMA PerformKeepsReaders ==
  ASSUME AgentInv, NEW r \in Reviewers, NEW a \in ActionIds, Perform(r, a)
  PROVE  AgentInv'
<1> USE DEF AgentInv
<1>1. /\ RowsStand /\ UNCHANGED unrecorded /\ Reads(r, a) /\ Reviewing(r, "execute", a)
      /\ review' = [review EXCEPT ![r].op = "record"]
      /\ made' = [made EXCEPT ![a] = Append(made[a], review[r].seen)]
  BY DEF Perform, RowsStand, Reviewing, Reads, AgentTyped
<1>2. /\ \A o \in Reviewers : /\ review'[o].on = review[o].on
                              /\ review'[o].seen = review[o].seen
      /\ \A o \in Reviewers \ {r} : review'[o] = review[o]
      /\ review'[r].op = "record"
  BY <1>1 DEF AgentTyped
<1>3. /\ \A b \in ActionIds : b # a => made'[b] = made[b]
      /\ made'[a] = Append(made[a], review[r].seen)
      /\ made'[a] \in Seq(Nat)
  <2>1. made[a] \in Seq(Nat) /\ review[r].seen \in Nat
    BY DEF AgentTyped
  <2>2. Append(made[a], review[r].seen) \in Seq(Nat)
    BY <2>1, AppendProperties
  <2> QED BY <1>1, <2>2 DEF AgentTyped
<1>4. AgentTyped'
  <2>1. review' \in [Reviewers ->
          [op : {"idle", "propose", "edit", "reject", "execute", "record", "fail"},
           on : SUBSET (ActionIds \cup Scanned), seen : Nat, met : BOOLEAN]]
    BY <1>1 DEF AgentTyped
  <2>2. made' \in [ActionIds -> Seq(Nat)]
    BY <1>1, <1>3 DEF AgentTyped
  <2> QED BY <1>1, <2>1, <2>2 DEF AgentTyped, RowsStand
<1>5. \A o \in Reviewers, b \in ActionIds : Reads(o, b)' <=> Reads(o, b)
  BY <1>1, <1>2 DEF Reads, Reviewing
<1>6. /\ Reviewing(r, "record", a)' /\ ~Reviewing(r, "record", a)
      /\ \A o \in Reviewers, b \in ActionIds : o # r \/ b # a =>
           (Reviewing(o, "record", b)' <=> Reviewing(o, "record", b))
  BY <1>1, <1>2 DEF Reviewing
<1>7. action[a].status # "none"
  BY <1>1 DEF NothingBeforeProposal
<1>8. NothingBeforeProposal'
  BY <1>1, <1>3, <1>5, <1>7 DEF NothingBeforeProposal, RowsStand
<1>9. ASSUME NEW b \in ActionIds, ReadersKnow(b) PROVE ReadersKnow(b)'
  <2>1. CASE b # a
    BY <1>1, <1>2, <1>3, <1>5, <1>6, <1>9, <2>1 DEF ReadersKnow, Recording, RowsStand
  <2>2. CASE b = a
    <3>1. action[a].status = "PENDING_REVIEW" /\ review[r].seen = action[a].payload
      BY <1>1, <1>9, <2>2 DEF ReadersKnow
    <3>2. \A o \in Reviewers : Reads(o, a)' =>
            action'[a].status = "PENDING_REVIEW" /\ review'[o].seen = action'[a].payload
      BY <1>1, <1>2, <1>5, <1>9, <2>2 DEF ReadersKnow, RowsStand
    <3>3. Recording(a)'
      BY <1>6 DEF Recording
    <3>4. CASE Recording(a)
      <4>1. \A x \in Reviewers : \E o \in Reviewers : Reviewing(o, "record", a)' /\ o # x
        BY <1>6, <3>4 DEF Recording
      <4> QED BY <2>2, <3>2, <3>3, <4>1 DEF ReadersKnow
    <3>5. CASE ~Recording(a)
      <4>1. made[a] = << >>
        BY <1>9, <2>2, <3>1, <3>5 DEF ReadersKnow
      <4>2. Append(<< >>, action[a].payload) = <<action[a].payload>>
        OBVIOUS
      <4>3. made'[a] = <<action'[a].payload>>
        BY <1>1, <1>3, <3>1, <4>1, <4>2 DEF RowsStand
      <4> QED BY <2>2, <3>2, <3>3, <4>3 DEF ReadersKnow
    <3> QED BY <3>4, <3>5
  <2> QED BY <2>1, <2>2
<1>10. ScansKnow' /\ OneProposalUnlessScansCrossed'
  BY <1>1, <1>2, RowsStandKeepsScans
<1> QED BY <1>1, <1>4, <1>8, <1>9, <1>10 DEF RowsStand

\* A proposal is created, and the other scans of its customer have met it.
LEMMA ProposeKeepsReaders ==
  ASSUME AgentInv, NEW r \in Reviewers, NEW k \in Scanned, NEW a \in ActionIds,
         Propose(r, k, a)
  PROVE  AgentInv'
<1> USE DEF AgentInv
<1> DEFINE row == [status |-> "PENDING_REVIEW", customer |-> {k}, payload |-> 0]
<1>1. /\ action[a].status = "none" /\ review[r].op = "propose" /\ review[r].on = {k}
      /\ action' = [action EXCEPT ![a] = row]
      /\ UNCHANGED <<made, crossed, unrecorded>>
      /\ doubled' = IF review[r].met THEN doubled \cup {a} ELSE doubled
  BY DEF Propose
<1>2. /\ review'[r] = ReviewIdle
      /\ \A o \in Reviewers \ {r} :
           review'[o] = IF review[o].op = "propose" /\ review[o].on = {k}
                        THEN [review[o] EXCEPT !.met = TRUE] ELSE review[o]
  BY DEF Propose
<1>3. \A o \in Reviewers \ {r} :
        /\ review'[o].op = review[o].op /\ review'[o].on = review[o].on
        /\ review'[o].seen = review[o].seen
        /\ review[o].met => review'[o].met
        /\ review[o].op = "propose" /\ review[o].on = {k} => review'[o].met
  BY <1>2 DEF AgentTyped
<1>4. AgentTyped'
  <2> DEFINE Rec == [op : {"idle", "propose", "edit", "reject", "execute", "record", "fail"},
                     on : SUBSET (ActionIds \cup Scanned), seen : Nat, met : BOOLEAN]
  <2>1. \A o \in Reviewers : review'[o] \in Rec
    <3>1. ReviewIdle \in Rec
      BY DEF ReviewIdle
    <3>2. \A o \in Reviewers : review[o] \in Rec /\ [review[o] EXCEPT !.met = TRUE] \in Rec
      BY DEF AgentTyped
    <3> HIDE DEF Rec
    <3> QED BY <1>2, <3>1, <3>2
  <2>2. \E f : review' = [o \in Reviewers |-> f[o]]
    <3>1. review' = [o \in Reviewers |->
            [p \in Reviewers |->
               IF p = r THEN ReviewIdle
               ELSE IF review[p].op = "propose" /\ review[p].on = {k}
                    THEN [review[p] EXCEPT !.met = TRUE] ELSE review[p]][o]]
      BY DEF Propose
    <3> QED BY <3>1
  <2> HIDE DEF Rec
  <2>3. review' \in [Reviewers -> Rec]
    BY <2>1, <2>2
  <2>4. action' \in [ActionIds ->
          [status : {"none", "PENDING_REVIEW", "EXECUTED", "REJECTED", "FAILED"},
           customer : SUBSET Scanned, payload : Nat]]
    BY <1>1 DEF AgentTyped
  <2> QED BY <1>1, <2>3, <2>4 DEF AgentTyped, Rec
<1>5. \A o \in Reviewers, b \in ActionIds :
        /\ Reads(o, b)' => Reads(o, b) /\ o # r
        /\ Reviewing(o, "record", b)' <=> Reviewing(o, "record", b)
  BY <1>1, <1>2, <1>3 DEF Reads, Reviewing, ReviewIdle
<1>6. /\ \A b \in ActionIds : b # a => action'[b] = action[b]
      /\ action'[a] = row /\ made[a] = << >> /\ \A o \in Reviewers : ~Reads(o, a)
  BY <1>1 DEF AgentTyped, NothingBeforeProposal
<1>7. NothingBeforeProposal'
  BY <1>1, <1>5, <1>6 DEF NothingBeforeProposal
<1>8. ASSUME NEW b \in ActionIds, ReadersKnow(b) \/ b = a PROVE ReadersKnow(b)'
  <2>1. CASE b # a
    <3>1. action'[b] = action[b] /\ made'[b] = made[b] /\ ReadersKnow(b)
      BY <1>1, <1>6, <1>8, <2>1
    <3>2. \A o \in Reviewers : /\ Reads(o, b)' => Reads(o, b) /\ review'[o].seen = review[o].seen
                               /\ Reviewing(o, "record", b)' <=> Reviewing(o, "record", b)
      BY <1>3, <1>5
    <3> HIDE DEF row
    <3> QED BY <3>1, <3>2 DEF ReadersKnow, Recording
  <2>2. CASE b = a
    <3>1. \A o \in Reviewers : ~Reads(o, a)' /\ ~Reviewing(o, "record", a)'
      BY <1>5, <1>6 DEF Reads, Reviewing
    <3> QED BY <1>1, <1>6, <2>2, <3>1 DEF ReadersKnow
  <2> QED BY <2>1, <2>2
<1>9. ScansKnow'
  <2>1. ASSUME NEW o \in Reviewers, NEW c \in Scanned, review'[o].op = "propose",
               review'[o].on = {c}, ~review'[o].met
        PROVE  NonePending(c)'
    <3>1. o # r
      BY <1>2, <2>1 DEF ReviewIdle
    <3>2. /\ review[o].op = "propose" /\ review[o].on = {c} /\ ~review[o].met
          /\ review[o].on # {k}
      BY <1>3, <2>1, <3>1
    <3>3. NonePending(c)
      BY <3>2 DEF ScansKnow
    <3>4. action'[a].customer # {c}
      BY <1>6, <3>2
    <3> HIDE DEF row
    <3> QED BY <1>6, <3>3, <3>4 DEF NonePending
  <2> QED BY <2>1 DEF ScansKnow
<1>10. OneProposalUnlessScansCrossed'
  <2>1. \/ a \in doubled'
        \/ \A b \in ActionIds : ~(action[b].customer = {k} /\ action[b].status = "PENDING_REVIEW")
    BY <1>1 DEF ScansKnow, NonePending
  <2>2. doubled \subseteq doubled'
    BY <1>1
  <2>3. \A b \in ActionIds : b # a => (Awaiting(b)' <=> Awaiting(b))
    BY <1>6 DEF Awaiting
  <2> QED BY <1>6, <2>1, <2>2, <2>3 DEF OneProposalUnlessScansCrossed, Awaiting
<1> QED BY <1>1, <1>4, <1>7, <1>8, <1>9, <1>10

\* Every step keeps what the requests know.
LEMMA AgentNextKeepsInv == AgentInv /\ [AgentNext]_agentVars => AgentInv'
<1> SUFFICES ASSUME AgentInv, [AgentNext]_agentVars PROVE AgentInv'
  OBVIOUS
<1>1. CASE AgentNext
  <2>1. PICK r \in Reviewers :
          \/ Drop(r)
          \/ \E a \in ActionIds : ReviewStep(r, a)
          \/ \E k \in Scanned : Scan(r, k) \/ \E a \in ActionIds : Propose(r, k, a)
    BY <1>1 DEF AgentNext
  <2> QED BY <2>1, WritesKeepReaders, TakesKeepReaders, LeavesKeepReaders,
             PerformKeepsReaders, ProposeKeepsReaders DEF ReviewStep
<1>2. CASE UNCHANGED agentVars
  <2> USE <1>2 DEF agentVars
  <2>1. AgentTyped' /\ NothingBeforeProposal'
    BY DEF AgentInv, AgentTyped, NothingBeforeProposal, Reads
  <2>2. \A a \in ActionIds : a \in (crossed \cup unrecorded)' \/ ReadersKnow(a)'
    BY SMTT(30) DEF AgentInv, ReadersKnow, Reads, Recording, Reviewing
  <2>3. ScansKnow' /\ OneProposalUnlessScansCrossed'
    BY DEF AgentInv, ScansKnow, NonePending, OneProposalUnlessScansCrossed, Awaiting
  <2> QED BY <2>1, <2>2, <2>3 DEF AgentInv
<1> QED BY <1>1, <1>2

\* What an action's row says is what was done, however many reviewers edit,
\* reject and execute it, unless they crossed or one was cut off.
THEOREM RowsTell == AgentSpec => []RowsTellWhatWasDone
<1>1. AgentInv => RowsTellWhatWasDone
  BY DEF AgentInv, ReadersKnow, Recording, RowsTellWhatWasDone
<1> QED BY <1>1, AgentInitInv, AgentNextKeepsInv, PTL DEF AgentSpec

\* A customer has one proposal waiting at most, unless two scans crossed.
THEOREM OneProposal == AgentSpec => []OneProposalUnlessScansCrossed
<1>1. AgentInv => OneProposalUnlessScansCrossed
  BY DEF AgentInv
<1> QED BY <1>1, AgentInitInv, AgentNextKeepsInv, PTL DEF AgentSpec

-----------------------------------------------------------------------------
(* Document numbers, for every base, padding, set of series and batch.     *)

\* The equation of the recursive function power, on the numbers of D.
IsPower(f, D) == f = [d \in D |-> IF d = 0 THEN 1 ELSE Base * f[d - 1]]

\* The recursion behind power can be followed up to any number.
LEMMA PowersUpTo ==
  \A n \in Nat : \E f : IsPower(f, 0..n) /\ \A d \in 0..n : f[d] \in Nat \ {0}
<1> DEFINE C == {n \in Nat : ~ \E f : IsPower(f, 0..n) /\ \A d \in 0..n : f[d] \in Nat \ {0}}
<1> SUFFICES ASSUME C # {} PROVE FALSE
  OBVIOUS
<1>1. PICK n \in C : \A k \in C : n <= k
  BY LeastNumber
<1>2. CASE n = 0
  <2>1. IsPower([d \in 0..0 |-> 1], 0..0)
    BY DEF IsPower
  <2> QED BY <1>1, <1>2, <2>1
<1>3. CASE n # 0
  <2>1. n \in Nat /\ n - 1 \in Nat /\ n - 1 \notin C
    BY <1>1, <1>3
  <2>2. PICK f : IsPower(f, 0..(n - 1)) /\ \A d \in 0..(n - 1) : f[d] \in Nat \ {0}
    BY <2>1
  <2> DEFINE g == [d \in 0..n |-> IF d = 0 THEN 1 ELSE Base * f[d - 1]]
  <2>3. \A d \in 0..(n - 1) : g[d] = f[d]
    BY <2>1, <2>2 DEF IsPower
  <2>4. \A d \in 0..n : d # 0 => d - 1 \in 0..(n - 1) /\ g[d] = Base * f[d - 1]
    BY <2>1
  <2>5. g = [d \in 0..n |-> IF d = 0 THEN 1 ELSE Base * g[d - 1]]
    BY <2>1, <2>3, <2>4
  <2>6. \A d \in 0..n : g[d] \in Nat \ {0}
    <3>1. \A x \in Nat \ {0} : Base * x \in Nat \ {0}
      BY DigitsAssumption
    <3> QED BY <3>1, <2>2, <2>4
  <2> HIDE DEF g
  <2>7. IsPower(g, 0..n)
    BY <2>5, Zenon DEF IsPower
  <2> QED BY <1>1, <2>6, <2>7
<1> QED BY <1>2, <1>3

\* Where two runs of it overlap they agree.
LEMMA PowersAgree ==
  ASSUME NEW m \in Nat, NEW n \in Nat, m <= n, NEW f, NEW g,
         IsPower(f, 0..m), IsPower(g, 0..n)
  PROVE  f[m] = g[m]
<1> DEFINE C == {d \in 0..m : f[d] # g[d]}
<1> SUFFICES ASSUME C # {} PROVE FALSE
  OBVIOUS
<1>1. PICK d \in C : \A k \in C : d <= k
  <2>1. C \in SUBSET Nat
    OBVIOUS
  <2> HIDE DEF C
  <2> QED BY <2>1, LeastNumber
<1>2. \A k \in 0..m : f[k] = IF k = 0 THEN 1 ELSE Base * f[k - 1]
  BY DEF IsPower
<1>3. \A k \in 0..m : g[k] = IF k = 0 THEN 1 ELSE Base * g[k - 1]
  BY DEF IsPower
<1>4. d # 0 /\ d \in 0..m
  BY <1>1, <1>2, <1>3
<1>5. d - 1 \in 0..m /\ f[d - 1] = g[d - 1]
  BY <1>1, <1>4
<1> QED BY <1>1, <1>2, <1>3, <1>4, <1>5

\* The recursion of power is well defined, and no power is zero.
LEMMA PowersExist == power \in [Nat -> Nat \ {0}]
<1> DEFINE h(n) == CHOOSE f : IsPower(f, 0..n) /\ \A d \in 0..n : f[d] \in Nat \ {0}
           F == [n \in Nat |-> h(n)[n]]
<1>1. \A n \in Nat : IsPower(h(n), 0..n) /\ \A d \in 0..n : h(n)[d] \in Nat \ {0}
  BY PowersUpTo, Zenon
<1> HIDE DEF h
<1>2. \A n \in Nat : F[n] \in Nat \ {0}
  BY <1>1
<1>3. ASSUME NEW n \in Nat
      PROVE  F[n] = IF n = 0 THEN 1 ELSE Base * F[n - 1]
  <2>1. h(n)[n] = IF n = 0 THEN 1 ELSE Base * h(n)[n - 1]
    BY <1>1 DEF IsPower
  <2>2. CASE n = 0
    BY <2>1, <2>2
  <2>3. CASE n # 0
    <3>1. n - 1 \in Nat
      BY <2>3
    <3>2. h(n - 1)[n - 1] = h(n)[n - 1]
      BY <3>1, <1>1, PowersAgree
    <3> QED BY <2>1, <2>3, <3>1, <3>2
  <2> QED BY <2>2, <2>3
<1>4. F = [n \in Nat |-> IF n = 0 THEN 1 ELSE Base * F[n - 1]]
  BY <1>3
<1> HIDE DEF F
<1>5. IsPower(F, Nat)
  BY <1>4, Zenon DEF IsPower
<1>6. IsPower(power, Nat)
  <2>1. power = CHOOSE f : IsPower(f, Nat)
    BY Zenon DEF power, IsPower
  <2> QED BY <2>1, <1>5, Zenon
<1> DEFINE C == {n \in Nat : power[n] \notin Nat \ {0}}
<1>7. \A n \in Nat : power[n] = IF n = 0 THEN 1 ELSE Base * power[n - 1]
  BY <1>6 DEF IsPower
<1>8. C = {}
  <2> SUFFICES ASSUME C # {} PROVE FALSE
    OBVIOUS
  <2>1. PICK n \in C : \A k \in C : n <= k
    BY LeastNumber
  <2>2. n \in Nat /\ n # 0
    BY <2>1, <1>7
  <2>3. n - 1 \in Nat /\ power[n - 1] \in Nat \ {0}
    BY <2>1, <2>2
  <2>4. \A x \in Nat \ {0} : Base * x \in Nat \ {0}
    BY DigitsAssumption
  <2>5. power[n] \in Nat \ {0}
    BY <2>2, <2>3, <2>4, <1>7
  <2> QED BY <2>1, <2>5
<1>9. power = [n \in Nat |-> power[n]]
  <2>1. power = [d \in Nat |-> IF d = 0 THEN 1 ELSE Base * power[d - 1]]
    BY <1>6, Zenon DEF IsPower
  <2> QED BY <2>1
<1> QED BY <1>8, <1>9

-----------------------------------------------------------------------------
(* The numbers of a table.                                                 *)

Tables(N) == Seq([no : N, deleted : BOOLEAN, at : Nat])

\* The row created i-th has number i, up to the padding where the column sorts.
InOrder(s, table) ==
  \A i \in 1..Len(table) : (s \notin ByNumber \/ i <= power[Width]) => table[i].no = i
Padded(s, n) == s \notin ByNumber \/ n < power[Width]

\* Before the padding is used up the text order is the order of the numbers.
LEMMA PaddedOrder ==
  ASSUME NEW a \in Nat, NEW b \in Nat, a < power[Width], b < power[Width]
  PROVE  SortsBefore(a, b) <=> a < b
<1>1. LengthOf(a) = Width /\ LengthOf(b) = Width
  BY DEF LengthOf
<1>2. (Width + Width) - Width = Width /\ Width \in Nat
  BY DigitsAssumption
<1>3. power[Width] \in Nat \ {0}
  BY <1>2, PowersExist
<1> DEFINE P == power[Width]
<1>4. SortsBefore(a, b) <=> (a * P < b * P \/ (a * P = b * P /\ Width < Width))
  BY <1>1, <1>2 DEF SortsBefore
<1> HIDE DEF P
<1>5. P \in Nat \ {0}
  BY <1>3 DEF P
<1>6. a * P < b * P <=> a < b
  BY <1>5
<1> QED BY <1>2, <1>4, <1>6

\* Within the padding the numbers of n rows are 1 to n.
LEMMA NumbersInOrder ==
  ASSUME NEW s, NEW N, NEW table \in Tables(N),
         InOrder(s, table), Padded(s, Len(table))
  PROVE  NumbersOf(table) = 1..Len(table)
<1>1. DOMAIN table = 1..Len(table) /\ Len(table) \in Nat
  BY LenProperties DEF Tables
<1>2. power[Width] \in Nat
  BY PowersExist, DigitsAssumption
<1>3. \A i \in 1..Len(table) : table[i].no = i
  BY <1>1, <1>2 DEF InOrder, Padded
<1> QED BY <1>1, <1>3 DEF NumbersOf

\* The latest number is then one of them, and the number of rows unless an earlier
\* row is dated as late as the last one.
LEMMA LatestIsLength ==
  ASSUME NEW s, NEW N, NEW table \in Tables(N),
         InOrder(s, table), Padded(s, Len(table)), NEW n, n \in Latest(s, table)
  PROVE  /\ n \in 0..Len(table)
         /\ s \in ByNumber \/ DatedLast(table) => n = Len(table)
<1>1. DOMAIN table = 1..Len(table) /\ Len(table) \in Nat
  BY LenProperties DEF Tables
<1>2. power[Width] \in Nat
  BY PowersExist, DigitsAssumption
<1>3. CASE table = <<>>
  BY <1>3 DEF Latest
<1>4. CASE table # <<>>
  <2>1. Len(table) # 0
    BY <1>4, EmptySeq
  <2>2. CASE s \in ByNumber
    <3> DEFINE L == Len(table)
               Last(m) == \A k \in 1..L : k = m \/ SortsBefore(k, m)
    <3>1. LastByNumber(table) = CHOOSE m \in 1..L : Last(m)
      BY NumbersInOrder, Zenon DEF LastByNumber
    <3>2. L \in Nat \ {0} /\ L < power[Width]
      BY <1>1, <2>1, <2>2 DEF Padded
    <3> HIDE DEF L
    <3>3. \A k, m \in 1..L : SortsBefore(k, m) <=> k < m
      BY <3>2, <1>2, PaddedOrder
    <3>4. \A m \in 1..L : Last(m) <=> m = L
      BY <3>2, <3>3
    <3>5. L \in 1..L
      BY <3>2
    <3> HIDE DEF Last
    <3>6. (CHOOSE m \in 1..L : Last(m)) = L
      BY <3>4, <3>5
    <3>7. Latest(s, table) = {L}
      BY <3>1, <3>6, <1>4, <2>2, Zenon DEF Latest
    <3>8. L = Len(table)
      BY DEF L
    <3> QED BY <3>2, <3>7, <3>8
  <2>3. CASE s \notin ByNumber
    <3>1. PICK i \in 1..Len(table) :
            /\ n = table[i].no
            /\ \A k \in 1..Len(table) : table[k].at <= table[i].at
      BY <1>1, <1>4, <2>3 DEF Latest, LastByCreation
    <3>2. n = i
      BY <3>1, <2>3, <1>1 DEF InOrder
    <3>3. ASSUME DatedLast(table) PROVE i = Len(table)
      <4>1. table[Len(table)].at <= table[i].at
        BY <3>1, <2>1, <1>1
      <4>2. table[i].at \in Nat /\ table[Len(table)].at \in Nat
        <5>1. \A k \in 1..Len(table) : table[k] \in [no : N, deleted : BOOLEAN, at : Nat]
          BY ElementOfSeq DEF Tables
        <5>2. Len(table) \in 1..Len(table)
          BY <1>1, <2>1
        <5> QED BY <5>1, <5>2
      <4>3. i \in 1..(Len(table) - 1) => table[i].at < table[Len(table)].at
        BY <3>3 DEF DatedLast
      <4>4. i # Len(table) => i \in 1..(Len(table) - 1)
        <5>1. \A L \in Nat : \A j \in 1..L : j # L => j \in 1..(L - 1)
          OBVIOUS
        <5> QED BY <1>1, <5>1
      <4> QED BY <4>1, <4>2, <4>3, <4>4
    <3>4. i \in 0..Len(table)
      BY <1>1
    <3> QED BY <3>2, <3>3, <3>4, <2>3
  <2> QED BY <2>2, <2>3
<1> QED BY <1>3, <1>4

-----------------------------------------------------------------------------
(* The invariant of the numbers.                                           *)

\* What the numbers are is left open: past the padding the text order decides.
NumbersTyped(N) ==
  /\ rows \in [Series -> Tables(N)]
  /\ own \in [Requests -> Tables(N)]
  /\ lock \in [Series -> Requests \cup {Free}]
  /\ req \in [Requests -> [pc : {"idle", "lock", "read", "insert", "commit"},
                           s : Series \cup {Free}, next : N, left : Int, began : Nat]]

\* A request that has read, or has inserted, holds the lock of its series.
NumbersLocked ==
  \A p \in Requests :
    /\ req[p].pc = "idle" => own[p] = <<>>
    /\ req[p].pc # "idle" => SeriesOf(p) \in Series
    /\ req[p].pc \in {"read", "insert", "commit"} \/ own[p] # <<>> => lock[SeriesOf(p)] = p

\* The rows of a series, and what a request sees of them, are in order.
NumbersOrdered ==
  /\ \A s \in Series : InOrder(s, rows[s])
  /\ \A p \in Requests : req[p].pc # "idle" => InOrder(SeriesOf(p), Seen(p))

\* The number a request is about to insert follows one of those there are: the
\* last of them, unless dates misled the request.
NextFollows ==
  \A p \in Requests :
    req[p].pc = "insert" /\ ~Exhausted(p) =>
      /\ req[p].next \in 1..(Len(Seen(p)) + 1)
      /\ ~Misled(p) => req[p].next = Len(Seen(p)) + 1

NumbersInv ==
  /\ \E N : NumbersTyped(N)
  /\ NumbersLocked
  /\ NumbersOrdered
  /\ NextFollows
  /\ clock \in Nat

\* Empty tables are in order.
LEMMA NumbersInitInv == Init => NumbersInv
<1> SUFFICES ASSUME Init PROVE NumbersInv
  OBVIOUS
<1>1. \A N : <<>> \in Tables(N)
  BY EmptySeq DEF Tables
<1>2. NumbersTyped({0})
  BY <1>1 DEF Init, NumbersTyped, Idle
<1>3. NumbersLocked /\ NextFollows
  BY DEF Init, NumbersLocked, NextFollows, Idle
<1>4. NumbersOrdered
  BY DEF Init, NumbersOrdered, InOrder, Idle
<1>5. clock \in Nat
  BY DEF Init
<1> QED BY <1>2, <1>3, <1>4, <1>5, Zenon DEF NumbersInv

\* The prover's view of Seen(p): rows, then the request's own.
LEMMA SeenIsTable ==
  ASSUME NEW N, NumbersTyped(N), NEW p \in Requests, SeriesOf(p) \in Series
  PROVE  /\ Seen(p) \in Tables(N)
         /\ Len(Seen(p)) = Len(rows[SeriesOf(p)]) + Len(own[p])
         /\ Len(Seen(p)) \in Nat
         /\ own[p] = <<>> => Seen(p) = rows[SeriesOf(p)]
<1>1. rows[SeriesOf(p)] \in Tables(N) /\ own[p] \in Tables(N)
  BY DEF NumbersTyped
<1>2. Seen(p) \in Tables(N) /\ Len(Seen(p)) = Len(rows[SeriesOf(p)]) + Len(own[p])
  BY <1>1, ConcatProperties DEF Seen, Tables
<1>3. Len(Seen(p)) \in Nat
  BY <1>2, LenProperties DEF Tables
<1>4. own[p] = <<>> => Seen(p) = rows[SeriesOf(p)]
  BY <1>1, ConcatEmptySeq DEF Seen, Tables
<1> QED BY <1>2, <1>3, <1>4

\* More numbers may be needed for the type; no table leaves it.
LEMMA TypeWidens ==
  ASSUME NEW N, NEW M, N \subseteq M
  PROVE  /\ Tables(N) \subseteq Tables(M)
         /\ NumbersTyped(N) => NumbersTyped(M)
<1>1. [no : N, deleted : BOOLEAN, at : Nat] \subseteq [no : M, deleted : BOOLEAN, at : Nat]
  OBVIOUS
<1>2. Tables(N) \subseteq Tables(M)
  BY <1>1, SeqMonotonic DEF Tables
<1> HIDE DEF Tables
<1>3. NumbersTyped(N) => NumbersTyped(M)
  BY <1>2 DEF NumbersTyped
<1> QED BY <1>2, <1>3

-----------------------------------------------------------------------------
(* The steps of a request.                                                 *)

\* A request that has no lock has inserted nothing.
LEMMA BeginKeepsNumbers ==
  ASSUME NumbersInv, NEW p \in Requests, NEW s \in Series, NEW n \in 1..MaxBatch, Begin(p, s, n)
  PROVE  NumbersInv'
<1> PICK N : NumbersTyped(N)
  BY Zenon DEF NumbersInv
<1> DEFINE M == N \cup {0}
           row == [pc |-> "lock", s |-> s, next |-> 0, left |-> n, began |-> clock]
<1>1. NumbersTyped(M)
  BY TypeWidens
<1>2. /\ req' = [req EXCEPT ![p] = row]
      /\ UNCHANGED <<rows, own, lock, clock>> /\ req[p].pc = "idle"
  BY DEF Begin
<1>3. n \in Int /\ clock \in Nat
  BY BoundsAssumption DEF NumbersInv
<1>4. NumbersTyped(M)'
  BY <1>1, <1>2, <1>3 DEF NumbersTyped, Tables
<1>5. /\ \A q \in Requests \ {p} : req'[q] = req[q]
      /\ req'[p] = row
  BY <1>1, <1>2 DEF NumbersTyped
<1>6. own[p] = <<>>
  BY <1>2 DEF NumbersInv, NumbersLocked
<1>7. NumbersLocked'
  BY <1>2, <1>5, <1>6 DEF NumbersInv, NumbersLocked, SeriesOf
<1>8. \A q \in Requests \ {p} :
       /\ (Seen(q))' = Seen(q)
       /\ (Exhausted(q))' = Exhausted(q) /\ (Misled(q))' = Misled(q)
  BY <1>2, <1>5 DEF Seen, SeriesOf, Exhausted, Misled, DatedLast
<1>9. rows[s] \o own[p] = rows[s]
  BY <1>1, <1>6, ConcatEmptySeq DEF NumbersTyped, Tables
<1>10. (Seen(p))' = rows[s] /\ (SeriesOf(p))' = s
  <2>1. (SeriesOf(p))' = s
    BY <1>5 DEF SeriesOf
  <2>2. rows' = rows /\ own' = own
    BY <1>2
  <2>3. (Seen(p))' = rows[s] \o own[p]
    BY <2>1, <2>2, Zenon DEF Seen
  <2> QED BY <2>1, <2>3, <1>9
<1>11. NumbersOrdered'
  BY <1>2, <1>5, <1>8, <1>10 DEF NumbersInv, NumbersOrdered, SeriesOf, InOrder
<1>12. NextFollows'
  BY <1>2, <1>5, <1>8 DEF NumbersInv, NextFollows
<1> QED BY <1>2, <1>3, <1>4, <1>7, <1>11, <1>12, Zenon DEF NumbersInv

\* The lock was free or was its own.
LEMMA TakeLockKeepsNumbers ==
  ASSUME NumbersInv, NEW p \in Requests, TakeLock(p)
  PROVE  NumbersInv'
<1> PICK N : NumbersTyped(N)
  BY Zenon DEF NumbersInv
<1>1. /\ req[p].pc = "lock" /\ lock[SeriesOf(p)] \in {Free, p}
      /\ lock' = [lock EXCEPT ![SeriesOf(p)] = p]
      /\ req' = [req EXCEPT ![p].pc = "read"]
      /\ rows' = rows /\ own' = own /\ clock' = clock
  BY DEF TakeLock
<1>2. SeriesOf(p) \in Series
  BY <1>1 DEF NumbersInv, NumbersLocked
<1>3. NumbersTyped(N)'
  BY <1>1, <1>2, ZenonT(30) DEF NumbersTyped, Tables
<1>4. /\ \A q \in Requests \ {p} : req'[q] = req[q]
      /\ req'[p].pc = "read"
      /\ \A q \in Requests : (SeriesOf(q))' = SeriesOf(q)
  BY <1>1 DEF NumbersTyped, SeriesOf
<1>5. \A q \in Requests :
       /\ (Seen(q))' = Seen(q)
       /\ (Exhausted(q))' = Exhausted(q) /\ (Misled(q))' = Misled(q)
  BY <1>1, <1>4 DEF Seen, Exhausted, Misled, DatedLast
<1>6. NumbersLocked'
  <2> SUFFICES ASSUME NEW q \in Requests
               PROVE  /\ req'[q].pc = "idle" => own'[q] = <<>>
                      /\ req'[q].pc # "idle" => (SeriesOf(q))' \in Series
                      /\ req'[q].pc \in {"read", "insert", "commit"} \/ own'[q] # <<>>
                           => lock'[(SeriesOf(q))'] = q
    BY DEF NumbersLocked
  <2>1. CASE q = p
    BY <2>1, <1>1, <1>2, <1>4 DEF NumbersTyped
  <2>2. CASE q # p
    <3>1. /\ req[q].pc = "idle" => own[q] = <<>>
          /\ req[q].pc # "idle" => SeriesOf(q) \in Series
          /\ req[q].pc \in {"read", "insert", "commit"} \/ own[q] # <<>> => lock[SeriesOf(q)] = q
      BY DEF NumbersInv, NumbersLocked
    <3>2. lock[SeriesOf(q)] = q => SeriesOf(q) # SeriesOf(p)
      BY <2>2, <1>1, FreeIsNoRequest
    <3>3. SeriesOf(q) \in Series /\ SeriesOf(q) # SeriesOf(p) => lock'[SeriesOf(q)] = lock[SeriesOf(q)]
      BY <1>1 DEF NumbersTyped
    <3> QED BY <2>2, <3>1, <3>2, <3>3, <1>1, <1>4
  <2> QED BY <2>1, <2>2
<1>7. NumbersOrdered'
  BY <1>1, <1>4, <1>5 DEF NumbersInv, NumbersOrdered, InOrder
<1>8. NextFollows'
  BY <1>1, <1>4, <1>5 DEF NumbersInv, NextFollows
<1> QED BY <1>1, <1>3, <1>6, <1>7, <1>8, Zenon DEF NumbersInv

\* What is read is a number there is, or the number of rows.
LEMMA ReadLatestKeepsNumbers ==
  ASSUME NumbersInv, NEW p \in Requests, ReadLatest(p)
  PROVE  NumbersInv'
<1> PICK N : NumbersTyped(N)
  BY Zenon DEF NumbersInv
<1> PICK n : /\ n \in Latest(SeriesOf(p), Seen(p))
             /\ req' = [req EXCEPT ![p].pc = "insert", ![p].next = n + 1]
  BY Zenon DEF ReadLatest
<1> DEFINE latest == n + 1
<1>1. /\ req[p].pc = "read"
      /\ req' = [req EXCEPT ![p].pc = "insert", ![p].next = latest]
      /\ rows' = rows /\ own' = own /\ lock' = lock /\ clock' = clock
  BY DEF ReadLatest
<1>2. SeriesOf(p) \in Series /\ InOrder(SeriesOf(p), Seen(p))
  BY <1>1 DEF NumbersInv, NumbersLocked, NumbersOrdered
<1>3. Seen(p) \in Tables(N) /\ Len(Seen(p)) \in Nat
  BY <1>2, SeenIsTable
<1>4. ~Exhausted(p) => /\ latest \in 1..(Len(Seen(p)) + 1)
                       /\ ~Misled(p) => latest = Len(Seen(p)) + 1
  <2>1. power[Width] \in Nat
    BY PowersExist, DigitsAssumption
  <2>2. ~Exhausted(p) => Padded(SeriesOf(p), Len(Seen(p)))
    BY <2>1, <1>3 DEF Exhausted, Padded
  <2>3. ~Exhausted(p) => /\ n \in 0..Len(Seen(p))
                         /\ ~Misled(p) => n = Len(Seen(p))
    <3>1. Padded(SeriesOf(p), Len(Seen(p))) =>
                 /\ n \in 0..Len(Seen(p))
                 /\ SeriesOf(p) \in ByNumber \/ DatedLast(Seen(p)) => n = Len(Seen(p))
      <4>1. ASSUME NEW x \in Tables(N), InOrder(SeriesOf(p), x), Padded(SeriesOf(p), Len(x)),
                   n \in Latest(SeriesOf(p), x)
            PROVE  /\ n \in 0..Len(x)
                   /\ SeriesOf(p) \in ByNumber \/ DatedLast(x) => n = Len(x)
        BY <4>1, LatestIsLength
      <4> QED BY <1>2, <1>3, <4>1
    <3> QED BY <3>1, <2>2 DEF Misled
  <2> QED BY <1>3, <2>3
<1>5. PICK M : NumbersTyped(M) /\ latest \in M
  <2>1. NumbersTyped(N \cup {latest}) /\ latest \in N \cup {latest}
    BY TypeWidens
  <2> QED BY <2>1, Zenon
<1> HIDE DEF latest
<1>6. NumbersTyped(M)'
  <2>1. req' \in [Requests -> [pc : {"idle", "lock", "read", "insert", "commit"},
                               s : Series \cup {Free}, next : M, left : Int, began : Nat]]
    <3> DEFINE Progress == [pc : {"idle", "lock", "read", "insert", "commit"},
                            s : Series \cup {Free}, next : M, left : Int, began : Nat]
    <3>1. req \in [Requests -> Progress] /\ req[p] \in Progress
      BY <1>5 DEF NumbersTyped
    <3>2. [req[p] EXCEPT !.pc = "insert", !.next = latest] \in Progress
      <4>1. \A r \in Progress, n1 \in M : [r EXCEPT !.pc = "insert", !.next = n1] \in Progress
        OBVIOUS
      <4> QED BY <3>1, <4>1, <1>5
    <3>3. req' = [req EXCEPT ![p] = [req[p] EXCEPT !.pc = "insert", !.next = latest]]
      BY <1>1, <3>1
    <3> HIDE DEF Progress
    <3>4. req' \in [Requests -> Progress]
      BY <3>1, <3>2, <3>3
    <3> QED BY <3>4 DEF Progress
  <2>2. /\ rows' \in [Series -> Tables(M)]
        /\ own' \in [Requests -> Tables(M)]
        /\ lock' \in [Series -> Requests \cup {Free}]
    BY <1>1, <1>5, Zenon DEF NumbersTyped
  <2> QED BY <2>1, <2>2, Zenon DEF NumbersTyped, Tables
<1>7. /\ \A q \in Requests \ {p} : req'[q] = req[q]
      /\ req'[p].pc = "insert" /\ req'[p].next = latest
      /\ \A q \in Requests : (SeriesOf(q))' = SeriesOf(q)
  BY <1>1 DEF NumbersTyped, SeriesOf
<1>8. \A q \in Requests :
       /\ (Seen(q))' = Seen(q)
       /\ (Exhausted(q))' = Exhausted(q) /\ (Misled(q))' = Misled(q)
  BY <1>1, <1>7 DEF Seen, Exhausted, Misled, DatedLast
<1>9. NumbersLocked'
  BY <1>1, <1>7 DEF NumbersInv, NumbersLocked
<1>10. NumbersOrdered'
  <2>1. \A s \in Series : InOrder(s, rows[s])'
    BY <1>1 DEF NumbersInv, NumbersOrdered, InOrder
  <2>2. ASSUME NEW q \in Requests, req'[q].pc # "idle"
        PROVE  InOrder((SeriesOf(q))', (Seen(q))')
    <3>1. req[q].pc # "idle"
      BY <1>1, <1>7, <2>2
    <3>2. InOrder(SeriesOf(q), Seen(q))
      BY <3>1 DEF NumbersInv, NumbersOrdered
    <3>3. (SeriesOf(q))' = SeriesOf(q) /\ (Seen(q))' = Seen(q)
      BY <1>7, <1>8
    <3> QED BY <3>2, <3>3
  <2> QED BY <2>1, <2>2, Zenon DEF NumbersOrdered, InOrder
<1>11. NextFollows'
  BY <1>4, <1>7, <1>8 DEF NumbersInv, NextFollows
<1> QED BY <1>1, <1>6, <1>9, <1>10, <1>11, Zenon DEF NumbersInv

\* A row more, with the number that follows, leaves a table in order.
LEMMA AppendInOrder ==
  ASSUME NEW s, NEW N, NEW table \in Tables(N), NEW row \in [no : N, deleted : BOOLEAN, at : Nat],
         InOrder(s, table), Padded(s, Len(table)) => row.no = Len(table) + 1
  PROVE  InOrder(s, Append(table, row))
<1>1. /\ Len(Append(table, row)) = Len(table) + 1 /\ Len(table) \in Nat
      /\ \A i \in 1..Len(table) : Append(table, row)[i] = table[i]
      /\ Append(table, row)[Len(table) + 1] = row
  BY AppendProperties, LenProperties DEF Tables
<1>2. power[Width] \in Nat
  BY PowersExist, DigitsAssumption
<1>3. \A i \in 1..(Len(table) + 1) : i \in 1..Len(table) \/ i = Len(table) + 1
  BY <1>1
<1>4. (s \notin ByNumber \/ Len(table) + 1 <= power[Width]) => Padded(s, Len(table))
  BY <1>1, <1>2 DEF Padded
<1> QED BY <1>1, <1>3, <1>4 DEF InOrder

\* What is inserted follows.
LEMMA InsertKeepsNumbers ==
  ASSUME NumbersInv, NEW p \in Requests, Insert(p)
  PROVE  NumbersInv'
<1> PICK N : NumbersTyped(N)
  BY Zenon DEF NumbersInv
<1> PICK at \in {req[p].began, clock} :
           own' = [own EXCEPT ![p] = Append(@, [no |-> req[p].next, deleted |-> FALSE, at |-> at])]
  BY Zenon DEF Insert
<1> DEFINE row == [no |-> req[p].next, deleted |-> FALSE, at |-> at]
           pcNow == IF req[p].left > 1 THEN "lock" ELSE "commit"
<1>1. /\ req[p].pc = "insert" /\ req[p].next \notin Taken(p)
      /\ own' = [own EXCEPT ![p] = Append(@, row)]
      /\ req' = [req EXCEPT ![p].left = @ - 1, ![p].pc = pcNow]
      /\ rows' = rows /\ lock' = lock /\ clock' = clock
  BY DEF Insert
<1>2. /\ SeriesOf(p) \in Series /\ InOrder(SeriesOf(p), Seen(p))
      /\ lock[SeriesOf(p)] = p
  BY <1>1 DEF NumbersInv, NumbersLocked, NumbersOrdered
<1>3. Seen(p) \in Tables(N) /\ Len(Seen(p)) \in Nat
  BY <1>2, SeenIsTable
<1>4. row \in [no : N, deleted : BOOLEAN, at : Nat]
  <2>1. req[p].next \in N /\ req[p].began \in Nat /\ clock \in Nat
    BY DEF NumbersTyped, NumbersInv
  <2> QED BY <2>1
<1>5. Padded(SeriesOf(p), Len(Seen(p))) => row.no = Len(Seen(p)) + 1
  <2>1. power[Width] \in Nat
    BY PowersExist, DigitsAssumption
  <2>2. Padded(SeriesOf(p), Len(Seen(p))) => ~Exhausted(p)
    BY <2>1, <1>3 DEF Exhausted, Padded
  <2>3. Padded(SeriesOf(p), Len(Seen(p))) => Taken(p) = 1..Len(Seen(p))
    BY <1>2, <1>3, NumbersInOrder DEF Taken
  <2>4. ~Exhausted(p) => req[p].next \in 1..(Len(Seen(p)) + 1)
    BY <1>1 DEF NumbersInv, NextFollows
  <2> QED BY <2>2, <2>3, <2>4, <1>1, <1>3
<1> HIDE DEF row
<1>6. rows[SeriesOf(p)] \in Tables(N) /\ own[p] \in Tables(N)
  BY <1>2 DEF NumbersTyped
<1>7. Append(own[p], row) \in Tables(N)
  BY <1>4, <1>6, AppendProperties DEF Tables
<1>8. pcNow \in {"lock", "commit"}
  OBVIOUS
<1> HIDE DEF pcNow
<1>9. NumbersTyped(N)'
  <2>1. own' \in [Requests -> Tables(N)]
    BY <1>1, <1>7 DEF NumbersTyped
  <2>2. req' \in [Requests -> [pc : {"idle", "lock", "read", "insert", "commit"},
                               s : Series \cup {Free}, next : N, left : Int, began : Nat]]
    <3> DEFINE Progress == [pc : {"idle", "lock", "read", "insert", "commit"},
                            s : Series \cup {Free}, next : N, left : Int, began : Nat]
    <3>1. req \in [Requests -> Progress] /\ req[p] \in Progress
      BY DEF NumbersTyped
    <3>2. [req[p] EXCEPT !.left = @ - 1, !.pc = pcNow] \in Progress
      <4>1. req[p].left - 1 \in Int
        BY <3>1
      <4>2. \A r \in Progress, l \in Int, pc \in {"lock", "commit"} :
              [r EXCEPT !.left = l, !.pc = pc] \in Progress
        OBVIOUS
      <4> QED BY <3>1, <4>1, <4>2, <1>8
    <3>3. req' = [req EXCEPT ![p] = [req[p] EXCEPT !.left = @ - 1, !.pc = pcNow]]
      BY <1>1, <3>1
    <3> HIDE DEF Progress
    <3>4. req' \in [Requests -> Progress]
      BY <3>1, <3>2, <3>3
    <3> QED BY <3>4 DEF Progress
  <2> QED BY <2>1, <2>2, <1>1, Zenon DEF NumbersTyped, Tables
<1>10. /\ \A q \in Requests \ {p} : req'[q] = req[q] /\ own'[q] = own[q]
       /\ req'[p].pc \in {"lock", "commit"} /\ own'[p] = Append(own[p], row)
       /\ \A q \in Requests : (SeriesOf(q))' = SeriesOf(q)
  BY <1>1, <1>8 DEF NumbersTyped, SeriesOf
<1>11. \A q \in Requests \ {p} :
       /\ (Seen(q))' = Seen(q)
       /\ (Exhausted(q))' = Exhausted(q) /\ (Misled(q))' = Misled(q)
  BY <1>1, <1>10 DEF Seen, Exhausted, Misled, DatedLast
<1>12. (Seen(p))' = Append(Seen(p), row)
  <2>1. (Seen(p))' = rows[SeriesOf(p)] \o Append(own[p], row)
    BY <1>1, <1>10, Zenon DEF Seen
  <2> DEFINE R == [no : N, deleted : BOOLEAN, at : Nat]
             one == <<row>>
  <2>2. rows[SeriesOf(p)] \in Seq(R) /\ own[p] \in Seq(R) /\ row \in R /\ one \in Seq(R)
    BY <1>4, <1>6 DEF Tables
  <2>3. Append(own[p], row) = own[p] \o one /\ Append(Seen(p), row) = Seen(p) \o one
    <3>1. Seen(p) \in Seq(R)
      BY <1>3 DEF Tables
    <3> HIDE DEF R
    <3> QED BY <2>2, <3>1, AppendIsConcat
  <2> HIDE DEF R, one
  <2>4. rows[SeriesOf(p)] \o (own[p] \o one) = (rows[SeriesOf(p)] \o own[p]) \o one
    <3>1. \A x, y, z \in Seq(R) : x \o (y \o z) = (x \o y) \o z
      BY ConcatAssociative
    <3> QED BY <2>2, <3>1, Zenon
  <2> QED BY <2>1, <2>3, <2>4, Zenon DEF Seen
<1>13. InOrder(SeriesOf(p), Append(Seen(p), row))
  BY <1>2, <1>3, <1>4, <1>5, AppendInOrder
<1>14. NumbersLocked'
  <2> SUFFICES ASSUME NEW q \in Requests
               PROVE  /\ req'[q].pc = "idle" => own'[q] = <<>>
                      /\ req'[q].pc # "idle" => (SeriesOf(q))' \in Series
                      /\ req'[q].pc \in {"read", "insert", "commit"} \/ own'[q] # <<>>
                           => lock'[(SeriesOf(q))'] = q
    BY DEF NumbersLocked
  <2>1. CASE q = p
    BY <2>1, <1>1, <1>2, <1>8, <1>10
  <2>2. CASE q # p
    <3>1. /\ req[q].pc = "idle" => own[q] = <<>>
          /\ req[q].pc # "idle" => SeriesOf(q) \in Series
          /\ req[q].pc \in {"read", "insert", "commit"} \/ own[q] # <<>> => lock[SeriesOf(q)] = q
      BY DEF NumbersInv, NumbersLocked
    <3> QED BY <2>2, <3>1, <1>1, <1>10
  <2> QED BY <2>1, <2>2
<1>15. NumbersOrdered'
  <2>1. \A s \in Series : InOrder(s, rows[s])'
    BY <1>1 DEF NumbersInv, NumbersOrdered, InOrder
  <2>2. InOrder(SeriesOf(p), Seen(p))'
    BY <1>10, <1>12, <1>13 DEF InOrder
  <2>3. ASSUME NEW q \in Requests \ {p}, req'[q].pc # "idle"
        PROVE  InOrder(SeriesOf(q), Seen(q))'
    <3>1. InOrder(SeriesOf(q), Seen(q))
      BY <2>3, <1>10 DEF NumbersInv, NumbersOrdered
    <3> QED BY <3>1, <1>10, <1>11 DEF InOrder
  <2> QED BY <2>1, <2>2, <2>3 DEF NumbersOrdered
<1>16. NextFollows'
  BY <1>10, <1>11 DEF NumbersInv, NextFollows
<1> QED BY <1>1, <1>9, <1>14, <1>15, <1>16, Zenon DEF NumbersInv

\* The end of a transaction, whatever it did to the rows.
LEMMA EndKeepsLocks ==
  ASSUME NumbersInv, NEW p \in Requests, End(p), NEW N, NumbersTyped(N), 0 \in N
  PROVE  /\ own' \in [Requests -> Tables(N)]
         /\ lock' \in [Series -> Requests \cup {Free}]
         /\ req' \in [Requests -> [pc : {"idle", "lock", "read", "insert", "commit"},
                                   s : Series \cup {Free}, next : N, left : Int, began : Nat]]
         /\ NumbersLocked'
         /\ clock' \in Nat
         /\ req'[p].pc = "idle"
         /\ \A q \in Requests \ {p} : /\ req'[q] = req[q] /\ own'[q] = own[q]
                                      /\ (SeriesOf(q))' = SeriesOf(q)
<1>1. /\ own' = [own EXCEPT ![p] = <<>>]
      /\ lock' = [s \in Series |-> IF lock[s] = p THEN Free ELSE lock[s]]
      /\ req' = [req EXCEPT ![p] = Idle]
  BY DEF End
<1>2. <<>> \in Tables(N)
  BY EmptySeq DEF Tables
<1>3. Idle \in [pc : {"idle", "lock", "read", "insert", "commit"},
                s : Series \cup {Free}, next : N, left : Int, began : Nat] /\ Idle.pc = "idle"
  BY DEF Idle
<1>4. own' \in [Requests -> Tables(N)]
  BY <1>1, <1>2 DEF NumbersTyped
<1>5. lock' \in [Series -> Requests \cup {Free}]
  BY <1>1 DEF NumbersTyped
<1> HIDE DEF Idle
<1>6. req' \in [Requests -> [pc : {"idle", "lock", "read", "insert", "commit"},
                             s : Series \cup {Free}, next : N, left : Int, began : Nat]]
  BY <1>1, <1>3 DEF NumbersTyped
<1>7. /\ req'[p].pc = "idle" /\ own'[p] = <<>>
      /\ \A q \in Requests \ {p} : req'[q] = req[q] /\ own'[q] = own[q]
  BY <1>1, <1>3 DEF NumbersTyped
<1>8. \A q \in Requests \ {p} : (SeriesOf(q))' = SeriesOf(q)
  BY <1>7 DEF SeriesOf
<1>9. \A q \in Requests \ {p}, s \in Series : lock[s] = q => lock'[s] = q
  BY <1>1
<1>10. NumbersLocked'
  <2>1. ASSUME NEW q \in Requests \ {p}
        PROVE  /\ req'[q].pc = "idle" => own'[q] = <<>>
               /\ req'[q].pc # "idle" => (SeriesOf(q))' \in Series
               /\ req'[q].pc \in {"read", "insert", "commit"} \/ own'[q] # <<>>
                    => lock'[(SeriesOf(q))'] = q
    <3>1. /\ req[q].pc = "idle" => own[q] = <<>>
          /\ req[q].pc # "idle" => SeriesOf(q) \in Series
          /\ req[q].pc \in {"read", "insert", "commit"} \/ own[q] # <<>> => lock[SeriesOf(q)] = q
      BY DEF NumbersInv, NumbersLocked
    <3> QED BY <3>1, <1>7, <1>8, <1>9
  <2> QED BY <2>1, <1>7 DEF NumbersLocked
<1>11. clock' \in Nat
  BY DEF End, NumbersInv
<1> QED BY <1>4, <1>5, <1>6, <1>7, <1>8, <1>10, <1>11

\* A transaction that fails takes its own rows with it.
LEMMA FailKeepsNumbers ==
  ASSUME NumbersInv, NEW p \in Requests, End(p), rows' = rows
  PROVE  NumbersInv'
<1>1. PICK N : NumbersTyped(N) /\ 0 \in N
  <2>1. PICK N : NumbersTyped(N)
    BY Zenon DEF NumbersInv
  <2>2. NumbersTyped(N \cup {0}) /\ 0 \in N \cup {0}
    BY <2>1, TypeWidens
  <2> QED BY <2>2, Zenon
<1>2. NumbersTyped(N)'
  BY <1>1, EndKeepsLocks DEF NumbersTyped, Tables
<1>3. /\ NumbersLocked' /\ req'[p].pc = "idle" /\ clock' \in Nat
      /\ \A q \in Requests \ {p} : /\ req'[q] = req[q] /\ own'[q] = own[q]
                                   /\ (SeriesOf(q))' = SeriesOf(q)
  BY <1>1, EndKeepsLocks
<1>4. \A q \in Requests \ {p} :
       /\ (Seen(q))' = Seen(q)
       /\ (Exhausted(q))' = Exhausted(q) /\ (Misled(q))' = Misled(q)
  BY <1>3 DEF Seen, Exhausted, Misled, DatedLast
<1>5. NumbersOrdered'
  BY <1>3, <1>4 DEF NumbersInv, NumbersOrdered, InOrder
<1>6. NextFollows'
  BY <1>3, <1>4 DEF NumbersInv, NextFollows
<1> QED BY <1>2, <1>3, <1>5, <1>6, Zenon DEF NumbersInv

\* Whoever else is in the series waits for its lock and has inserted nothing:
\* it will see what the transaction committed.
LEMMA CommitKeepsNumbers ==
  ASSUME NumbersInv, NEW p \in Requests, Commit(p)
  PROVE  NumbersInv'
<1>1. PICK N : NumbersTyped(N) /\ 0 \in N
  <2>1. PICK N : NumbersTyped(N)
    BY Zenon DEF NumbersInv
  <2>2. NumbersTyped(N \cup {0}) /\ 0 \in N \cup {0}
    BY <2>1, TypeWidens
  <2> QED BY <2>2, Zenon
<1>2. /\ req[p].pc = "commit" /\ End(p)
      /\ rows' = [rows EXCEPT ![SeriesOf(p)] = Seen(p)]
  BY DEF Commit
<1>3. /\ SeriesOf(p) \in Series /\ InOrder(SeriesOf(p), Seen(p))
      /\ lock[SeriesOf(p)] = p
  BY <1>2 DEF NumbersInv, NumbersLocked, NumbersOrdered
<1>4. Seen(p) \in Tables(N)
  BY <1>1, <1>3, SeenIsTable
<1>5. /\ rows' \in [Series -> Tables(N)]
      /\ rows'[SeriesOf(p)] = Seen(p)
      /\ \A s \in Series : s # SeriesOf(p) => rows'[s] = rows[s]
  BY <1>1, <1>2, <1>3, <1>4 DEF NumbersTyped
<1>6. NumbersTyped(N)'
  BY <1>1, <1>2, <1>5, EndKeepsLocks DEF NumbersTyped, Tables
<1>7. /\ NumbersLocked' /\ req'[p].pc = "idle" /\ clock' \in Nat
      /\ \A q \in Requests \ {p} : /\ req'[q] = req[q] /\ own'[q] = own[q]
                                   /\ (SeriesOf(q))' = SeriesOf(q)
  BY <1>1, <1>2, EndKeepsLocks
<1>8. \A s \in Series : InOrder(s, rows[s])'
  <2>1. \A s \in Series : InOrder(s, rows'[s])
    BY <1>3, <1>5 DEF NumbersInv, NumbersOrdered
  <2> QED BY <2>1 DEF InOrder
<1>9. ASSUME NEW q \in Requests \ {p}, req[q].pc # "idle"
      PROVE  /\ InOrder(SeriesOf(q), Seen(q))'
             /\ req[q].pc = "insert" => (Seen(q))' = Seen(q)
  <2>1. SeriesOf(q) \in Series
    BY <1>9 DEF NumbersInv, NumbersLocked
  <2>2. CASE SeriesOf(q) = SeriesOf(p)
    <3>1. own[q] = <<>> /\ req[q].pc # "insert"
      BY <1>3, <2>2 DEF NumbersInv, NumbersLocked
    <3>2. rows'[SeriesOf(p)] \o <<>> = rows'[SeriesOf(p)]
      BY <1>4, <1>5, ConcatEmptySeq DEF Tables
    <3>3. (Seen(q))' = rows'[SeriesOf(p)]
      <4>1. own'[q] = <<>> /\ (SeriesOf(q))' = SeriesOf(p)
        BY <3>1, <1>7, <2>2
      <4> QED BY <4>1, <3>2, Zenon DEF Seen
    <3>4. InOrder(SeriesOf(p), rows'[SeriesOf(p)])
      BY <1>3, <1>5
    <3> QED BY <3>1, <3>3, <3>4, <1>7, <2>2 DEF InOrder
  <2>3. CASE SeriesOf(q) # SeriesOf(p)
    <3>1. rows'[SeriesOf(q)] = rows[SeriesOf(q)]
      BY <2>1, <2>3, <1>5
    <3>2. (Seen(q))' = Seen(q)
      BY <3>1, <1>7, Zenon DEF Seen
    <3>3. InOrder(SeriesOf(q), Seen(q))
      BY <1>9 DEF NumbersInv, NumbersOrdered
    <3> QED BY <3>2, <3>3, <1>7 DEF InOrder
  <2> QED BY <2>2, <2>3
<1>10. NumbersOrdered'
  BY <1>7, <1>8, <1>9 DEF NumbersOrdered
<1>11. NextFollows'
  <2> SUFFICES ASSUME NEW q \in Requests, req'[q].pc = "insert", ~(Exhausted(q))'
               PROVE  /\ req'[q].next \in 1..(Len((Seen(q))') + 1)
                      /\ ~(Misled(q))' => req'[q].next = Len((Seen(q))') + 1
    BY DEF NextFollows
  <2>1. q # p /\ req'[q] = req[q] /\ (SeriesOf(q))' = SeriesOf(q)
    BY <1>7
  <2>2. (Seen(q))' = Seen(q)
    BY <2>1, <1>9
  <2>3. ~Exhausted(q) /\ (Misled(q))' = Misled(q)
    BY <2>1, <2>2 DEF Exhausted, Misled, DatedLast
  <2> QED BY <2>1, <2>2, <2>3 DEF NumbersInv, NextFollows
<1> QED BY <1>6, <1>7, <1>10, <1>11, Zenon DEF NumbersInv

SameRow(r, x) == r.no = x.no /\ r.at = x.at

\* A deleted row keeps its number, its date and its place.
LEMMA DeleteKeepsNumbers ==
  ASSUME NumbersInv, NEW s \in Series, NEW i \in 1..MaxRows, Delete(s, i)
  PROVE  NumbersInv'
<1> PICK N : NumbersTyped(N)
  BY Zenon DEF NumbersInv
<1>1. /\ i \in DOMAIN rows[s]
      /\ rows' = [rows EXCEPT ![s][i].deleted = TRUE]
      /\ own' = own /\ lock' = lock /\ req' = req /\ clock' = clock
  BY DEF Delete
<1>2. rows[s] \in Tables(N)
  BY DEF NumbersTyped
<1> DEFINE row == [rows[s][i] EXCEPT !.deleted = TRUE]
           table == [rows[s] EXCEPT ![i] = row]
<1>3. rows' = [rows EXCEPT ![s] = table]
  BY <1>1
<1>4. rows[s][i] \in [no : N, deleted : BOOLEAN, at : Nat]
  BY <1>1, <1>2, ElementOfSeq, LenProperties DEF Tables
<1>5. /\ row \in [no : N, deleted : BOOLEAN, at : Nat]
      /\ row.no = rows[s][i].no /\ row.at = rows[s][i].at
  BY <1>4
<1> HIDE DEF row
<1>6. /\ table \in Tables(N) /\ Len(table) = Len(rows[s])
      /\ \A k \in 1..Len(rows[s]) : SameRow(table[k], rows[s][k])
  <2>1. DOMAIN rows[s] = 1..Len(rows[s])
    BY <1>2, LenProperties DEF Tables
  <2>2. table \in Tables(N) /\ Len(table) = Len(rows[s])
    BY <1>1, <1>2, <1>5, <2>1, ExceptSeq DEF Tables
  <2>3. \A k \in 1..Len(rows[s]) : table[k] = IF k = i THEN row ELSE rows[s][k]
    BY <2>1
  <2> QED BY <2>2, <2>3, <1>5 DEF SameRow
<1> HIDE DEF table
<1>7. /\ rows' \in [Series -> Tables(N)]
      /\ \A z \in Series : /\ Len(rows'[z]) = Len(rows[z])
                           /\ \A k \in 1..Len(rows[z]) : SameRow(rows'[z][k], rows[z][k])
  BY <1>3, <1>6 DEF NumbersTyped, SameRow
<1>8. NumbersTyped(N)'
  BY <1>1, <1>7 DEF NumbersTyped, Tables
<1>9. NumbersLocked' /\ \A p \in Requests : (SeriesOf(p))' = SeriesOf(p)
  BY <1>1 DEF NumbersInv, NumbersLocked, SeriesOf
<1>10. ASSUME NEW p \in Requests, req[p].pc # "idle"
       PROVE  /\ Len((Seen(p))') = Len(Seen(p))
              /\ \A k \in 1..Len(Seen(p)) : SameRow((Seen(p))'[k], Seen(p)[k])
  <2>1. SeriesOf(p) \in Series
    BY <1>10 DEF NumbersInv, NumbersLocked
  <2> DEFINE T == rows[SeriesOf(p)]
             U == rows'[SeriesOf(p)]
             W == own[p]
  <2>2. T \in Tables(N) /\ U \in Tables(N) /\ W \in Tables(N)
    BY <2>1, <1>7 DEF NumbersTyped
  <2>3. Len(U) = Len(T) /\ \A k \in 1..Len(T) : SameRow(U[k], T[k])
    BY <2>1, <1>7
  <2>4. Seen(p) = T \o W /\ (Seen(p))' = U \o W
    BY <1>1, <1>9, Zenon DEF Seen
  <2> HIDE DEF T, U, W
  <2>5. /\ Len(T \o W) = Len(T) + Len(W) /\ Len(U \o W) = Len(U) + Len(W)
        /\ \A k \in 1..(Len(T) + Len(W)) :
             (T \o W)[k] = IF k <= Len(T) THEN T[k] ELSE W[k - Len(T)]
        /\ \A k \in 1..(Len(U) + Len(W)) :
             (U \o W)[k] = IF k <= Len(U) THEN U[k] ELSE W[k - Len(U)]
        /\ Len(T) \in Nat /\ Len(W) \in Nat
    BY <2>2, ConcatProperties, LenProperties DEF Tables
  <2>6. \A k \in 1..(Len(T) + Len(W)) : SameRow((U \o W)[k], (T \o W)[k])
    BY <2>3, <2>5 DEF SameRow
  <2> QED BY <2>3, <2>4, <2>5, <2>6
<1>11. NumbersOrdered'
  <2>1. \A z \in Series : InOrder(z, rows[z])'
    BY <1>7 DEF NumbersInv, NumbersOrdered, InOrder, SameRow
  <2>2. ASSUME NEW p \in Requests, req'[p].pc # "idle"
        PROVE  InOrder(SeriesOf(p), Seen(p))'
    <3>1. InOrder(SeriesOf(p), Seen(p)) /\ req[p].pc # "idle"
      BY <2>2, <1>1 DEF NumbersInv, NumbersOrdered
    <3> QED BY <3>1, <1>9, <1>10 DEF InOrder, SameRow
  <2> QED BY <2>1, <2>2 DEF NumbersOrdered
<1>12. NextFollows'
  <2> SUFFICES ASSUME NEW p \in Requests, req'[p].pc = "insert", ~(Exhausted(p))'
               PROVE  /\ req'[p].next \in 1..(Len((Seen(p))') + 1)
                      /\ ~(Misled(p))' => req'[p].next = Len((Seen(p))') + 1
    BY DEF NextFollows
  <2>1. req[p].pc = "insert" /\ req'[p] = req[p] /\ Len((Seen(p))') = Len(Seen(p))
    BY <1>1, <1>10
  <2>2. ~Exhausted(p) /\ (SeriesOf(p))' = SeriesOf(p)
    BY <2>1, <1>9 DEF Exhausted
  <2>3. (DatedLast(Seen(p)))' <=> DatedLast(Seen(p))
    <3>1. SeriesOf(p) \in Series
      BY <2>1 DEF NumbersInv, NumbersLocked
    <3>2. Len(Seen(p)) \in Nat
      BY <3>1, SeenIsTable
    <3>3. \A k \in 1..Len(Seen(p)) : (Seen(p))'[k].at = Seen(p)[k].at
      BY <2>1, <1>10 DEF SameRow
    <3> QED BY <3>2, <3>3, <2>1 DEF DatedLast
  <2> QED BY <2>1, <2>2, <2>3 DEF NumbersInv, NextFollows, Misled
<1> QED BY <1>1, <1>8, <1>9, <1>11, <1>12, Zenon DEF NumbersInv

\* Time passes, or nothing happens.
LEMMA RestKeepsNumbers ==
  ASSUME NumbersInv, UNCHANGED <<rows, own, lock, req>>, clock' \in Nat
  PROVE  NumbersInv'
<1>1. \A N : NumbersTyped(N) => NumbersTyped(N)'
  BY DEF NumbersTyped, Tables
<1>2. \E N : NumbersTyped(N)'
  BY <1>1, Zenon DEF NumbersInv
<1>3. NumbersLocked' /\ NumbersOrdered' /\ NextFollows'
  BY DEF NumbersInv, NumbersLocked, NumbersOrdered, NextFollows, SeriesOf, Seen,
         InOrder, Exhausted, Misled, DatedLast
<1> QED BY <1>2, <1>3, Zenon DEF NumbersInv

\* One case per step of a transaction.
LEMMA NumbersNextKeepsInv == NumbersInv /\ [Next]_vars => NumbersInv'
<1> SUFFICES ASSUME NumbersInv, [Next]_vars PROVE NumbersInv'
  OBVIOUS
<1>1. ASSUME NEW p \in Requests, Step(p) PROVE NumbersInv'
  <2>1. CASE \E s \in Series, n \in 1..MaxBatch : Begin(p, s, n)
    BY <2>1, BeginKeepsNumbers
  <2>2. CASE TakeLock(p)
    BY <2>2, TakeLockKeepsNumbers
  <2>3. CASE ReadLatest(p)
    BY <2>3, ReadLatestKeepsNumbers
  <2>4. CASE Insert(p)
    BY <2>4, InsertKeepsNumbers
  <2>5. CASE Commit(p)
    BY <2>5, CommitKeepsNumbers
  <2>6. CASE Collide(p) \/ Abort(p)
    BY <2>6, FailKeepsNumbers DEF Collide, Abort
  <2> QED BY <1>1, <2>1, <2>2, <2>3, <2>4, <2>5, <2>6 DEF Step
<1>2. ASSUME NEW s \in Series, NEW i \in 1..MaxRows, Delete(s, i) PROVE NumbersInv'
  BY <1>2, DeleteKeepsNumbers
<1>3. ASSUME Tick PROVE NumbersInv'
  <2>1. clock' = clock + 1 /\ UNCHANGED <<rows, own, lock, req>>
    BY <1>3 DEF Tick
  <2>2. clock' \in Nat
    BY <2>1 DEF NumbersInv
  <2> QED BY <2>1, <2>2, RestKeepsNumbers
<1>4. CASE UNCHANGED vars
  BY <1>4, RestKeepsNumbers DEF vars, NumbersInv
<1> QED BY <1>1, <1>2, <1>3, <1>4 DEF Next

\* Until the padding is used up, and while no earlier row is dated as late as the
\* last one where dates decide, a generated number is new: no row has it, nor one
\* that another transaction is about to commit.
THEOREM NumbersStayNew == Spec => []NumbersAreNewUnlessMisled
<1>1. NumbersInv => NumbersAreNewUnlessMisled
  <2> SUFFICES ASSUME NumbersInv, NEW p \in Requests, req[p].pc = "insert",
                      ~Exhausted(p), ~Misled(p)
               PROVE  req[p].next \notin Taken(p) /\ ~Waits(p)
    BY DEF NumbersAreNewUnlessMisled
  <2> PICK N : NumbersTyped(N)
    BY Zenon DEF NumbersInv
  <2>1. /\ SeriesOf(p) \in Series /\ InOrder(SeriesOf(p), Seen(p))
        /\ lock[SeriesOf(p)] = p /\ req[p].next = Len(Seen(p)) + 1
    BY DEF NumbersInv, NumbersLocked, NumbersOrdered, NextFollows
  <2>2. Seen(p) \in Tables(N) /\ Len(Seen(p)) \in Nat
    BY <2>1, SeenIsTable
  <2>3. Padded(SeriesOf(p), Len(Seen(p)))
    <3>1. power[Width] \in Nat
      BY PowersExist, DigitsAssumption
    <3> QED BY <3>1, <2>2 DEF Exhausted, Padded
  <2>4. Taken(p) = 1..Len(Seen(p))
    BY <2>1, <2>2, <2>3, NumbersInOrder DEF Taken
  <2>5. \A q \in Requests \ {p} : SeriesOf(q) = SeriesOf(p) => own[q] = <<>>
    BY <2>1 DEF NumbersInv, NumbersLocked
  <2>6. NumbersOf(<<>>) = {}
    BY DEF NumbersOf
  <2> QED BY <2>1, <2>2, <2>4, <2>5, <2>6 DEF Waits
<1> QED BY <1>1, NumbersInitInv, NumbersNextKeepsInv, PTL DEF Spec

=============================================================================
