------------------------- MODULE MaterialAllocation -------------------------
(***************************************************************************)
(* Allocating received lots to a finished project                          *)
(* (projects.service.ts, saveAllocation .. confirmAllocationRecord), next  *)
(* to the stock documents that compete for the same lots.  Every writer of *)
(* an allocation first takes the project's advisory lock and only then     *)
(* reads the allocation's status.                                          *)
(***************************************************************************)
EXTENDS StockDocuments

CONSTANTS
  Allocs,         \* allocation ids
  ProjectOf,      \* the project of each allocation
  Clerks,         \* the requests that work on allocations
  AllocPayloads   \* what clients send: invoice date and [lot, quantity] items

ASSUME ClerksAreRequests == Clerks \subseteq Requests
ASSUME AllocsAreFinite == IsFiniteSet(Allocs)
ASSUME AllocationsHaveProjects == ProjectOf \in [Allocs -> Projects]

VARIABLES
  alloc,          \* ProjectMaterialAllocation rows
  posted,         \* batches of CONFIRMED StockIssue rows created per allocation
  areq            \* progress of the clerks' requests

allocVars == <<vars, alloc, posted, areq>>

Wish == [l : LotIds, q : Nat]                   \* an item as the client sends it
Item == [l : LotIds, cell : Cells, q : Nat]     \* and as it is stored
AllocBody == [date : Nat, items : Seq(Item)]
WishedBody == [date : Nat, items : Seq(Wish)]
ASSUME WishesAreDtos == AllocPayloads \subseteq WishedBody
NoItems == [date |-> 0, items |-> <<>>]
AllocIdle == [pc |-> "idle", op |-> "none", a |-> NoDoc, body |-> NoItems, i |-> 1]

AllocTypeOK ==
  /\ alloc \in [Allocs -> [status : {"none", "DRAFT", "CONFIRMED", "CANCELLED"},
                           body : AllocBody]]
  /\ posted \in [Allocs -> Nat]
  /\ areq \in [Clerks ->
       [pc : {"idle", "lock", "locked", "check", "take", "debit", "finish"},
        op : {"none", "save", "cancel", "confirm"}, a : Allocs \cup {NoDoc},
        body : AllocBody \cup WishedBody, i : Nat]]

AllocInit ==
  /\ Init
  /\ alloc = [a \in Allocs |-> [status |-> "none", body |-> NoItems]]
  /\ posted = [a \in Allocs |-> 0]
  /\ areq = [p \in Clerks |-> AllocIdle]

-----------------------------------------------------------------------------
ItemOf(p) == areq[p].body.items[areq[p].i]
CellOf(p) == ItemOf(p).cell
ProjectRow(p) == <<"project", ProjectOf[areq[p].a]>>

AfterItem(r, here, next) ==
  IF r.i < Len(r.body.items) THEN [r EXCEPT !.i = @ + 1, !.pc = here]
                             ELSE [r EXCEPT !.i = 1, !.pc = next]
Sets(p, r) == areq' = [areq EXCEPT ![p] = r]

\* A rollback or commit of a clerk's transaction, and the end of its request.
EndOf(p, tx) == tx /\ Sets(p, AllocIdle) /\ UNCHANGED <<doc, req, costRead, raced>>
AllocRollBack(p) == EndOf(p, RollbackTx(p)) /\ UNCHANGED <<alloc, posted>>
AllocCommit(p) == EndOf(p, CommitTx(p))

-----------------------------------------------------------------------------
\* The request arrives.  Outside the transaction only cancel looks at the
\* status; the others need the row to exist (a save may also create it).
Arrive(p, op, a, body) ==
  /\ areq[p].pc = "idle"
  /\ CASE op = "save" -> body \in AllocPayloads
       [] op = "cancel" -> alloc[a].status = "DRAFT" /\ body = NoItems
       [] op = "confirm" -> alloc[a].status # "none" /\ body = NoItems
  /\ Sets(p, [AllocIdle EXCEPT !.pc = "lock", !.op = op, !.a = a, !.body = body])
  /\ UNCHANGED <<vars, alloc, posted>>

\* Faulty variant: no lock, confirms of a project run side by side.
LockNothing(p) ==
  /\ areq[p].pc = "lock"
  /\ Sets(p, [areq[p] EXCEPT !.pc = "locked"])
  /\ UNCHANGED <<vars, alloc, posted>>

\* lockProjectFinance: pg_advisory_xact_lock, held until the transaction ends.
LockProject(p) ==
  /\ areq[p].pc = "lock"
  /\ Unlocked(p, ProjectRow(p))
  /\ Hold(p, ProjectRow(p))
  /\ Sets(p, [areq[p] EXCEPT !.pc = "locked"])
  /\ UNCHANGED <<tables, dBalance, dLot, dCost, doc, req, costRead, raced, alloc, posted>>

\* validateAllocationItems: distinct existing lots, bought by the invoice date,
\* with enough left.
ValidItems(p, body) ==
  /\ \A j, k \in DOMAIN body.items : body.items[j].l = body.items[k].l => j = k
  /\ \A j \in DOMAIN body.items :
       LET it == body.items[j] IN
       Exists(p, it.l) /\ lot[it.l].date <= body.date /\ LotSeen(p, it.l) >= it.q

\* The item rows keep the warehouse and the material of their lot.
Located(items) == [j \in DOMAIN items |->
  [l |-> items[j].l, cell |-> lot[items[j].l].cell, q |-> items[j].q]]

\* Faulty variant: a save does not look at the status.
MaySaveAnything(p) == ValidItems(p, areq[p].body)

\* saveAllocation under the lock: create the draft, or replace its items.
MaySave(p) == /\ ValidItems(p, areq[p].body)
              /\ alloc[areq[p].a].status \in {"none", "DRAFT"}
Save(p) ==
  /\ areq[p].pc = "locked" /\ areq[p].op = "save"
  /\ MaySave(p)
  /\ alloc' = [alloc EXCEPT ![areq[p].a] = [status |-> "DRAFT",
       body |-> [date |-> areq[p].body.date, items |-> Located(areq[p].body.items)]]]
  /\ AllocCommit(p)
  /\ UNCHANGED posted

IsDraft(p) == alloc[areq[p].a].status = "DRAFT"

\* Faulty variant: the status seen before the lock is trusted.
CancelUnchecked(p) ==
  /\ areq[p].pc = "locked" /\ areq[p].op = "cancel"
  /\ alloc' = [alloc EXCEPT ![areq[p].a].status = "CANCELLED"]
  /\ AllocCommit(p)
  /\ UNCHANGED posted

\* cancelMaterialAllocation, after the status is read again under the lock.
CancelDraft(p) ==
  /\ areq[p].pc = "locked" /\ areq[p].op = "cancel"
  /\ IsDraft(p)
  /\ alloc' = [alloc EXCEPT ![areq[p].a].status = "CANCELLED"]
  /\ AllocCommit(p)
  /\ UNCHANGED posted

\* confirmAllocationRecord: findFirst where status DRAFT, with its items.
ReadDraft(p) ==
  /\ areq[p].pc = "locked" /\ areq[p].op = "confirm"
  /\ IsDraft(p) /\ alloc[areq[p].a].body.items # <<>>
  /\ Sets(p, [areq[p] EXCEPT !.pc = "check", !.body = alloc[areq[p].a].body])
  /\ UNCHANGED <<vars, alloc, posted>>

\* Pass 1: ensureSufficientStock for every item.
CheckItem(p) ==
  /\ areq[p].pc = "check"
  /\ Sufficient(p, CellOf(p), ItemOf(p).q)
  /\ Sets(p, AfterItem(areq[p], "check", "take"))
  /\ UNCHANGED <<vars, alloc, posted>>

\* Pass 2: decrement the chosen lot where it still suffices, then the balance.
InTime(p) == lot[ItemOf(p).l].date <= areq[p].body.date
TakeItem(p) ==
  /\ areq[p].pc = "take"
  /\ InTime(p)
  /\ DecrementLot(p, ItemOf(p).l, ItemOf(p).q)
  /\ Sets(p, [areq[p] EXCEPT !.pc = "debit"])
  /\ UNCHANGED <<tables, dBalance, dCost, doc, req, costRead, raced, alloc, posted>>

DebitItem(p) ==
  /\ areq[p].pc = "debit"
  /\ DebitBalance(p, CellOf(p), ItemOf(p).q)
  /\ Sets(p, AfterItem(areq[p], "take", "finish"))
  /\ UNCHANGED <<tables, dLot, dCost, doc, req, costRead, raced, alloc, posted>>

\* The issues of the allocation are created CONFIRMED with it.
FinishAlloc(p) ==
  /\ areq[p].pc = "finish"
  /\ alloc' = [alloc EXCEPT ![areq[p].a].status = "CONFIRMED"]
  /\ posted' = [posted EXCEPT ![areq[p].a] = @ + 1]
  /\ AllocCommit(p)

AllocRefused(p) ==
  \/ /\ areq[p].pc = "locked"
     /\ CASE areq[p].op = "save" -> ~MaySave(p)
          [] areq[p].op = "cancel" -> ~IsDraft(p)
          [] areq[p].op = "confirm" -> ~IsDraft(p) \/ alloc[areq[p].a].body.items = <<>>
  \/ areq[p].pc = "check" /\ ~Sufficient(p, CellOf(p), ItemOf(p).q)
  \/ /\ areq[p].pc = "take"
     /\ ~InTime(p) \/ DecrementRefused(p, ItemOf(p).l, ItemOf(p).q)
  \/ areq[p].pc = "debit" /\ DebitRefused(p, CellOf(p), ItemOf(p).q)
AllocReject(p) == AllocRefused(p) /\ AllocRollBack(p)
AllocAbort(p) == areq[p].pc # "idle" /\ AllocRollBack(p)

-----------------------------------------------------------------------------
\* What each transaction waits for, documents and allocations together.
AllWants ==
  [p \in Requests |->
     IF p \notin Clerks THEN Wanted(p)
     ELSE CASE areq[p].pc = "lock" -> {ProjectRow(p)}
            [] areq[p].pc = "take" -> {<<"lot", ItemOf(p).l>>}
            [] areq[p].pc = "debit" -> {<<"balance", CellOf(p)>>}
            [] OTHER -> {}]
AllocVictim(p) == Deadlocked(p, AllWants) /\ AllocRollBack(p)
DocumentVictim(p) == Deadlocked(p, AllWants) /\ RollBack(p)

AllocProceed(p) ==
  \/ LockProject(p) \/ Save(p) \/ CancelDraft(p) \/ ReadDraft(p)
  \/ CheckItem(p) \/ TakeItem(p) \/ DebitItem(p) \/ FinishAlloc(p)
  \/ AllocReject(p) \/ AllocVictim(p)

ArriveAny(p) ==
  \E a \in Allocs : \/ \E body \in AllocPayloads : Arrive(p, "save", a, body)
                    \/ Arrive(p, "cancel", a, NoItems)
                    \/ Arrive(p, "confirm", a, NoItems)

DocumentStep ==
  /\ \/ \E d \in Docs : Create(d)
     \/ \E p \in Requests \ Clerks : RequestStep(p) \/ DocumentVictim(p)
  /\ UNCHANGED <<alloc, posted, areq>>

AllocNext ==
  \/ DocumentStep
  \/ \E p \in Clerks : ArriveAny(p) \/ AllocProceed(p) \/ AllocAbort(p)

AllocSpec == AllocInit /\ [][AllocNext]_allocVars

\* A handler goes on as long as it can.  Strong fairness because a lock is
\* granted in the order the transactions queued for it.  Nobody has to abort.
AllocFairSpec ==
  /\ AllocSpec
  /\ \A p \in Clerks : SF_allocVars(AllocProceed(p))
  /\ \A p \in Requests \ Clerks :
       SF_allocVars((Proceed(p) \/ DocumentVictim(p)) /\ UNCHANGED <<alloc, posted, areq>>)

-----------------------------------------------------------------------------
\* "Serialize concurrent confirms for the same project to prevent double-
\* deduction": an allocation's issues are created once, and only when it is
\* CONFIRMED; edits and cancels racing the confirm do not undo it.
AllocationsPostOnce ==
  \A a \in Allocs : posted[a] = IF alloc[a].status = "CONFIRMED" THEN 1 ELSE 0

\* The stock is the opening stock, less what the CONFIRMED allocations say they
\* took, plus the confirmed documents (as long as no document was raced).
TakenFrom(body, c) ==
  SumFunction([j \in {k \in DOMAIN body.items : body.items[k].cell = c} |->
                 body.items[j].q])
Allocated(c) ==
  SumFunction([a \in {b \in Allocs : alloc[b].status = "CONFIRMED"} |->
                 TakenFrom(alloc[a].body, c)])
StockMatchesAllocations ==
  raced = {} =>
    \A c \in Cells :
      balance[c] = OpeningBalance[c] - Allocated(c) + Documented(c)

\* The endpoints implement the book of allocations.
Book == INSTANCE AllocationBook
          WITH stock <- balance, book <- alloc, Taken <- TakenFrom
ImplementsBook == Book!Spec

\* Every request ends: a transaction that waits for a row, for the project's
\* lock or for a transaction that waits for it in turn does not wait for ever.
AllRequestsEnd ==
  /\ RequestsEnd
  /\ \A p \in Clerks : areq[p].pc # "idle" ~> areq[p].pc = "idle"
=============================================================================
