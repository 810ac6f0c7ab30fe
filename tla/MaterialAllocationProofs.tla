---------------------- MODULE MaterialAllocationProofs ----------------------
(***************************************************************************)
(* An allocation posts its issues once, for any number of clerks, projects *)
(* and documents.  What makes it true is the project's lock: while a clerk *)
(* is past it, nobody else writes the allocations of that project, so the  *)
(* draft that was read is still the draft when it is confirmed.            *)
(***************************************************************************)
EXTENDS MaterialAllocation, StockLedgerProofs

AllocRow == [status : {"none", "DRAFT", "CONFIRMED", "CANCELLED"}, body : AllocBody]
AllocRequest ==
  [pc : {"idle", "lock", "locked", "check", "take", "debit", "finish"},
   op : {"none", "save", "cancel", "confirm"}, a : Allocs \cup {NoDoc},
   body : AllocBody \cup WishedBody, i : Nat]

AtItems == {"check", "take", "debit"}
Posting == AtItems \cup {"finish"}
Inside == Posting \cup {"locked"}

\* A clerk is no request on a document; inside the lock it holds the project's
\* row, and once it has read a draft that draft is still what is stored.
ClerkOK(p) ==
  /\ req[p] = Idle
  /\ areq[p].pc # "idle" => areq[p].a \in Allocs
  /\ areq[p].pc \in {"lock", "locked"} => areq[p].i = 1
  /\ areq[p].op = "save" => areq[p].body \in WishedBody
  /\ areq[p].pc \in Inside => ProjectRow(p) \in holds[p]
  /\ areq[p].pc \in Posting => /\ alloc[areq[p].a].status = "DRAFT"
                               /\ areq[p].body = alloc[areq[p].a].body
  /\ areq[p].pc \in AtItems => areq[p].i \in 1..Len(areq[p].body.items)

AllocRowsInv ==
  /\ alloc \in [Allocs -> AllocRow]
  /\ posted \in [Allocs -> Nat]

\* The lots of the stored items are committed rows, and lie where the items say.
ItemsKnown ==
  \A a \in Allocs : \A j \in 1..Len(alloc[a].body.items) :
    LET it == alloc[a].body.items[j]
    IN  lot[it.l].by = "committed" /\ lot[it.l].cell = it.cell

ClerksInv == areq \in [Clerks -> AllocRequest] /\ \A p \in Clerks : ClerkOK(p)

AllocInv == StockInv /\ AllocRowsInv /\ ItemsKnown /\ ClerksInv /\ AllocationsPostOnce

\* Committed lots stay committed rows, where they are.
CommittedStay ==
  \A l \in LotIds : lot[l].by = "committed" =>
    lot'[l].by = "committed" /\ lot'[l].cell = lot[l].cell

-----------------------------------------------------------------------------
\* An idle clerk is well formed.
LEMMA IdleClerk == AllocIdle \in AllocRequest /\ NoItems \in AllocBody
<1>1. <<>> \in Seq(Item)
  BY EmptySeq
<1>2. NoItems \in AllocBody
  BY <1>1 DEF NoItems, AllocBody
<1> QED BY <1>2 DEF AllocIdle, AllocRequest

\* Without allocations the invariant holds.
LEMMA AllocInitEstablishesInv == AllocInit => AllocInv
<1> SUFFICES ASSUME AllocInit PROVE AllocInv
  OBVIOUS
<1>1. StockInv
  BY InitEstablishesInv DEF AllocInit
<1>2. AllocRowsInv /\ AllocationsPostOnce
  BY IdleClerk DEF AllocInit, AllocRowsInv, AllocRow, AllocationsPostOnce
<1>3. ItemsKnown
  <2>1. \A a \in Allocs : alloc[a].body.items = <<>>
    BY DEF AllocInit, NoItems
  <2> QED BY <2>1 DEF ItemsKnown
<1>4. ClerksInv
  <2>1. areq \in [Clerks -> AllocRequest] /\ \A p \in Clerks : areq[p] = AllocIdle
    BY IdleClerk DEF AllocInit
  <2>2. \A p \in Clerks : req[p] = Idle
    BY ClerksAreRequests DEF AllocInit, Init
  <2> QED BY <2>1, <2>2 DEF ClerksInv, ClerkOK, AllocIdle, Inside, Posting, AtItems
<1> QED BY <1>1, <1>2, <1>3, <1>4 DEF AllocInv

-----------------------------------------------------------------------------
(* Steps of the documents.                                                 *)

\* A transaction that creates a lot takes an unused id.
LEMMA CreateKeepsCommitted ==
  ASSUME LotsInv, NEW p \in Requests, NEW c \in Cells, NEW d \in Nat, NEW q \in Nat,
         CreateLot(p, c, d, q)
  PROVE  CommittedStay
<1>1. PICK n \in LotIds :
        /\ lot' = [lot EXCEPT ![n] = [cell |-> c, date |-> d, rem |-> q, by |-> p]]
        /\ \A r \in Requests : dLot[r][n] = 0 /\ ~Exists(r, n)
  BY NewLotIsUnknown
<1>2. lot[n].by # "committed"
  BY <1>1 DEF Exists
<1> QED BY <1>1, <1>2 DEF CommittedStay, LotsInv

\* The end of a transaction.
LEMMA EndKeepsCommitted ==
  ASSUME LotsInv, NEW p \in Requests, CommitTx(p) \/ RollbackTx(p)
  PROVE  CommittedStay
<1>1. CASE CommitTx(p)
  BY <1>1, RequestsAreNotMarks DEF CommittedStay, LotsInv, CommitTx
<1>2. CASE RollbackTx(p)
  BY <1>2, RequestsAreNotMarks DEF CommittedStay, LotsInv, RollbackTx
<1> QED BY <1>1, <1>2

\* Others keep their locks.
OthersHold(p) == \A q \in Requests \ {p} : holds'[q] = holds[q]

\* A lock that is taken, or given back, is the request's own.
LEMMA HoldIsOwn ==
  ASSUME LocksInv, NEW p \in Requests, NEW row, Hold(p, row)
  PROVE  OthersHold(p)
BY DEF LocksInv, Hold, OthersHold

\* The same of the rows that the end of a transaction frees.
LEMMA DropIsOwn ==
  ASSUME LocksInv, NEW p \in Requests, DropPending(p)
  PROVE  OthersHold(p)
BY DEF LocksInv, DropPending, OthersHold

\* What a step of a document's request leaves to the clerks: their locks, their
\* lots, and the fact that they work on no document.
LEMMA DocumentStepLeavesRest ==
  ASSUME StockInv, NEW p \in Requests, RequestStep(p) \/ RollBack(p)
  PROVE  /\ OthersHold(p) /\ CommittedStay
         /\ \A q \in Requests \ {p} : req'[q] = req[q]
<1> USE DEF StockInv, TablesInv
<1>1. CASE \E d \in Docs : BeginOn(p, d)
  <2>1. PICK op, body : \E d \in Docs : Begin(p, op, d, body)
    BY <1>1 DEF BeginOn, BeginConfirm, BeginUpdate, BeginCancel, BeginRemove
  <2> QED BY <2>1 DEF Begin, tables, pending, OthersHold, CommittedStay, RequestsInv
<1>2. CASE Write(p)
  BY <1>2 DEF Write, tables, pending, OthersHold, CommittedStay, RequestsInv
<1>3. CASE Finish(p) \/ RollBack(p)
  <2>1. (CommitTx(p) \/ RollbackTx(p)) /\ req' = [req EXCEPT ![p] = Idle]
    BY <1>3 DEF Finish, RollBack
  <2>2. DropPending(p)
    BY <2>1 DEF CommitTx, RollbackTx
  <2> QED BY <2>1, <2>2, DropIsOwn, EndKeepsCommitted DEF RequestsInv
<1>4. CASE CheckStock(p) \/ ReadLots(p) \/ ReadCost(p) \/ ReadStock(p)
  <2>1. UNCHANGED <<lot, holds>>
    BY <1>4 DEF CheckStock, ReadLots, ReadCost, ReadStock, tables, pending
  <2>2. \A q \in Requests \ {p} : req'[q] = req[q]
    BY <1>4 DEF CheckStock, ReadLots, ReadCost, ReadStock, Goto, RequestsInv
  <2> QED BY <2>1, <2>2 DEF OthersHold, CommittedStay
<1>5. CASE Debit(p) \/ CreditTarget(p) \/ CreditSurplus(p) \/ CreditReceipt(p)
           \/ WriteAverage(p) \/ (\E l \in LotIds : TakeLot(p, l))
  <2>1. /\ req[p] \in Request /\ OnItsLine(req[p]) /\ Current(p) \in Line
        /\ Source(p) \in Cells /\ Target(p) \in Cells /\ Current(p).q \in Nat
        /\ Diff(Current(p)) \in Int /\ req[p].body.date \in Nat
    <3>1. req[p].pc # "idle"
      BY <1>5 DEF Debit, CreditTarget, CreditSurplus, CreditReceipt, WriteAverage, TakeLot
    <3> QED BY <3>1, CurrentIsLine
  <2>2. OthersHold(p)
    <3>1. \E row : Hold(p, row)
      BY <1>5 DEF Debit, CreditTarget, CreditSurplus, CreditReceipt, WriteAverage, TakeLot,
                  DebitBalance, CreditBalance, WriteCostPrice, DecrementLot
    <3> QED BY <3>1, HoldIsOwn
  <2>3. \A q \in Requests \ {p} : req'[q] = req[q]
    BY <1>5 DEF Debit, CreditTarget, CreditSurplus, CreditReceipt, WriteAverage, TakeLot,
                NextLine, Goto, RequestsInv
  <2>4. CommittedStay
    <3>1. \/ lot' = lot
          \/ \E c \in Cells, d \in Nat, q \in Nat : CreateLot(p, c, d, q)
      <4>1. CASE Debit(p) \/ CreditTarget(p) \/ CreditReceipt(p)
        BY <4>1 DEF Debit, CreditTarget, CreditReceipt, tables
      <4>2. CASE CreditSurplus(p)
        BY <4>2, <2>1 DEF CreditSurplus
      <4>3. CASE WriteAverage(p)
        BY <4>3, <2>1 DEF WriteAverage
      <4>4. ASSUME NEW l \in LotIds, TakeLot(p, l)
            PROVE  lot' = lot \/ \E c \in Cells, d \in Nat, q \in Nat : CreateLot(p, c, d, q)
        <5>1. req[p].need \in Int /\ req[p].read[l] \in Nat
          BY <2>1 DEF Request
        <5>2. Take(p, l) \in Nat
          BY <4>4, <5>1 DEF TakeLot, Take
        <5>3. lot[l].date \in Nat
          BY DEF LotsInv
        <5> QED BY <4>4, <5>2, <5>3, <2>1 DEF TakeLot
      <4> QED BY <1>5, <4>1, <4>2, <4>3, <4>4
    <3> QED BY <3>1, CreateKeepsCommitted DEF CommittedStay
  <2> QED BY <2>2, <2>3, <2>4
<1> QED BY <1>1, <1>2, <1>3, <1>4, <1>5
        DEF RequestStep, Proceed, Confirming, Reject, DeadlockVictim, Abort

\* A stored item names a lot, a cell and a quantity.
LEMMA StoredItems ==
  ASSUME AllocRowsInv, NEW a \in Allocs
  PROVE  /\ alloc[a].body \in AllocBody /\ alloc[a].body.items \in Seq(Item)
         /\ \A j \in 1..Len(alloc[a].body.items) :
              LET it == alloc[a].body.items[j]
              IN  it \in Item /\ it.l \in LotIds /\ it.cell \in Cells /\ it.q \in Nat
<1>1. alloc[a].body \in AllocBody /\ alloc[a].body.items \in Seq(Item)
  BY DEF AllocRowsInv, AllocRow, AllocBody
<1>2. \A j \in 1..Len(alloc[a].body.items) : alloc[a].body.items[j] \in Item
  BY <1>1, ElementOfSeq
<1> QED BY <1>1, <1>2 DEF Item

\* The allocations do not notice a step of the documents.
LEMMA DocumentStepKeepsAllocInv ==
  ASSUME AllocInv, DocumentStep
  PROVE  AllocInv'
<1> USE DEF AllocInv
<1>1. UNCHANGED <<alloc, posted, areq>>
  BY DEF DocumentStep
<1>2. CASE \E d \in Docs : Create(d)
  <2>1. StockInv'
    BY <1>2, CreateKeepsInv
  <2>2. UNCHANGED <<lot, holds, req>>
    BY <1>2 DEF Create, tables, pending
  <2> QED BY <1>1, <2>1, <2>2 DEF AllocRowsInv, ItemsKnown, ClerksInv, ClerkOK, ProjectRow,
                                  AllocationsPostOnce
<1>3. ASSUME NEW p \in Requests \ Clerks, RequestStep(p) \/ DocumentVictim(p)
      PROVE  AllocInv'
  <2>1. StockInv'
    <3>1. CASE RequestStep(p)
      BY <3>1, NextKeepsInv DEF Next
    <3>2. CASE DocumentVictim(p)
      BY <3>2, EndsKeepInv DEF DocumentVictim
    <3> QED BY <1>3, <3>1, <3>2
  <2>2. OthersHold(p) /\ CommittedStay /\ \A q \in Requests \ {p} : req'[q] = req[q]
    BY <1>3, DocumentStepLeavesRest DEF DocumentVictim
  <2>3. \A q \in Clerks : holds'[q] = holds[q] /\ req'[q] = req[q]
    BY <2>2, ClerksAreRequests DEF OthersHold
  <2>4. ClerksInv'
    BY <1>1, <2>3 DEF ClerksInv, ClerkOK, ProjectRow
  <2>5. ItemsKnown'
    BY <1>1, <2>2, StoredItems DEF ItemsKnown, CommittedStay
  <2> QED BY <1>1, <2>1, <2>4, <2>5 DEF AllocRowsInv, AllocationsPostOnce
<1> QED BY <1>2, <1>3 DEF DocumentStep
-----------------------------------------------------------------------------
(* Steps of the clerks.                                                    *)

\* Who is inside the lock of a project is alone with its allocations.
LEMMA OthersElsewhere ==
  ASSUME StockInv, ClerksInv, NEW p \in Clerks, NEW q \in Clerks \ {p},
         areq[p].pc \in Inside, areq[q].pc \in Inside
  PROVE  areq[p].a # areq[q].a
<1>1. ProjectRow(p) \in holds[p] /\ ProjectRow(q) \in holds[q]
  BY DEF ClerksInv, ClerkOK
<1>2. holds[p] \cap holds[q] = {}
  BY ClerksAreRequests DEF StockInv, TablesInv, LocksInv
<1>3. ProjectRow(p) # ProjectRow(q)
  BY <1>1, <1>2
<1> QED BY <1>3 DEF ProjectRow

\* One clerk moves on; nobody else who has read a draft sees it change.
LEMMA ClerkMoves ==
  ASSUME AllocInv, NEW p \in Clerks, NEW r \in AllocRequest,
         areq' = [areq EXCEPT ![p] = r], req' = req,
         \A q \in Requests \ {p} : holds[q] \subseteq holds'[q],
         \A a \in Allocs : alloc'[a] = alloc[a] \/ (areq[p].a = a /\ areq[p].pc \in Inside),
         ClerkOK(p)'
  PROVE  ClerksInv'
<1> USE DEF AllocInv
<1>1. areq' \in [Clerks -> AllocRequest] /\ areq'[p] = r
  BY DEF ClerksInv
<1>2. ASSUME NEW q \in Clerks \ {p}
      PROVE  ClerkOK(q)'
  <2>1. areq'[q] = areq[q] /\ req'[q] = req[q] /\ holds[q] \subseteq holds'[q] /\ ClerkOK(q)
    BY ClerksAreRequests DEF ClerksInv
  <2>2. ASSUME areq[q].pc \in Posting
        PROVE  alloc'[areq[q].a] = alloc[areq[q].a]
    <3>1. areq[q].a \in Allocs /\ areq[q].pc \in Inside
      BY <2>1, <2>2 DEF ClerkOK, Inside, Posting, AtItems
    <3> QED BY <3>1, OthersElsewhere
  <2>3. areq[q].pc \in Inside => ProjectRow(q)' \in holds'[q]
    BY <2>1 DEF ClerkOK, ProjectRow
  <2> QED BY <2>1, <2>2, <2>3 DEF ClerkOK
<1> QED BY <1>1, <1>2 DEF ClerksInv

\* A step inside the transaction: locks and pending changes by the book, the
\* rows and the allocations untouched.
LEMMA StatementKeepsAllocInv ==
  ASSUME AllocInv, NEW p \in Clerks, NEW r \in AllocRequest,
         areq' = [areq EXCEPT ![p] = r], TablesInv', HoldsGrow,
         UNCHANGED <<lot, doc, req, raced, alloc, posted>>,
         ClerkOK(p)'
  PROVE  AllocInv'
<1> USE DEF AllocInv
<1>1. StockInv'
  <2>1. RequestsInv'
    BY DEF StockInv, RequestsInv, Exists
  <2> QED BY <2>1 DEF StockInv, DocsInv
<1>2. ClerksInv'
  BY ClerkMoves DEF HoldsGrow
<1> QED BY <1>1, <1>2 DEF AllocRowsInv, ItemsKnown, AllocationsPostOnce

\* The tables of a step that does not touch them.
LEMMA TablesUntouched ==
  ASSUME TablesInv, UNCHANGED <<balance, lot, holds, dBalance, dLot>>
  PROVE  TablesInv' /\ HoldsGrow
BY DEF TablesInv, LocksInv, BalancesInv, LotsInv, BalanceSeen, LotSeen, Exists, HoldsGrow

\* A request arrives.
LEMMA ArriveKeepsAllocInv ==
  ASSUME AllocInv, NEW p \in Clerks, ArriveAny(p)
  PROVE  AllocInv'
<1>1. PICK a \in Allocs, op \in {"save", "cancel", "confirm"},
           body \in AllocPayloads \cup {NoItems} :
        Arrive(p, op, a, body) /\ (op = "save" => body \in AllocPayloads)
  <2>1. PICK a \in Allocs : \/ \E body \in AllocPayloads : Arrive(p, "save", a, body)
                            \/ Arrive(p, "cancel", a, NoItems)
                            \/ Arrive(p, "confirm", a, NoItems)
    BY DEF ArriveAny
  <2> QED BY <2>1
<1> DEFINE r == [AllocIdle EXCEPT !.pc = "lock", !.op = op, !.a = a, !.body = body]
<1>2. body \in AllocBody \cup WishedBody /\ (op = "save" => body \in WishedBody)
  BY <1>1, IdleClerk, WishesAreDtos
<1>3. /\ r \in AllocRequest /\ r.pc = "lock" /\ r.op = op /\ r.a = a
      /\ r.body = body /\ r.i = 1
  BY <1>2 DEF AllocRequest, AllocIdle
<1>4. areq' = [areq EXCEPT ![p] = r] /\ UNCHANGED <<vars, alloc, posted>>
  BY <1>1 DEF Arrive, Sets
<1> HIDE DEF r
<1>5. areq'[p] = r
  BY <1>4 DEF AllocInv, ClerksInv
<1>6. ClerkOK(p)'
  <2>1. req'[p] = Idle
    BY <1>4 DEF AllocInv, ClerksInv, ClerkOK, vars
  <2> QED BY <2>1, <1>2, <1>3, <1>5 DEF ClerkOK, Inside, Posting, AtItems
<1>7. TablesInv' /\ HoldsGrow
  BY <1>4, TablesUntouched DEF AllocInv, StockInv, vars, tables, pending
<1> QED BY <1>3, <1>4, <1>6, <1>7, StatementKeepsAllocInv DEF vars, tables

\* lockProjectFinance.
LEMMA LockProjectKeepsAllocInv ==
  ASSUME AllocInv, NEW p \in Clerks, LockProject(p)
  PROVE  AllocInv'
<1> USE DEF AllocInv
<1> DEFINE r == [areq[p] EXCEPT !.pc = "locked"]
<1>1. areq[p] \in AllocRequest /\ areq[p].pc = "lock" /\ ClerkOK(p) /\ areq[p].a \in Allocs
  BY DEF ClerksInv, ClerkOK, LockProject
<1>2. /\ r \in AllocRequest /\ r.pc = "locked" /\ r.op = areq[p].op /\ r.a = areq[p].a
      /\ r.body = areq[p].body /\ r.i = areq[p].i
  BY <1>1 DEF AllocRequest
<1>3. /\ areq' = [areq EXCEPT ![p] = r]
      /\ UNCHANGED <<tables, dBalance, dLot, doc, req, raced, alloc, posted>>
  BY DEF LockProject, Sets
<1> HIDE DEF r
<1>4. areq'[p] = r
  BY <1>3 DEF ClerksInv
<1>5. ProjectRow(p) \in Rows
  <2>1. ProjectOf[areq[p].a] \in Projects
    BY <1>1, AllocationsHaveProjects
  <2> QED BY <2>1 DEF Rows, ProjectRow
<1>6. LocksInv' /\ HoldsGrow /\ ProjectRow(p) \in holds'[p]
  BY <1>5, ClerksAreRequests, HoldKeepsLocks DEF LockProject, StockInv, TablesInv
<1>7. TablesInv'
  BY <1>3, <1>6, BalancesUntouched, LotsUntouched DEF StockInv, TablesInv, tables
<1>8. ProjectRow(p)' = ProjectRow(p)
  BY <1>2, <1>4 DEF ProjectRow
<1>9. ClerkOK(p)'
  <2>1. req'[p] = Idle
    BY <1>1, <1>3 DEF ClerkOK
  <2> QED BY <2>1, <1>1, <1>2, <1>4, <1>6, <1>8 DEF ClerkOK, Inside, Posting, AtItems
<1> QED BY <1>2, <1>3, <1>6, <1>7, <1>9, StatementKeepsAllocInv DEF tables

\* confirmAllocationRecord reads the draft.
LEMMA ReadDraftKeepsAllocInv ==
  ASSUME AllocInv, NEW p \in Clerks, ReadDraft(p)
  PROVE  AllocInv'
<1> USE DEF AllocInv
<1> DEFINE body == alloc[areq[p].a].body
           r == [areq[p] EXCEPT !.pc = "check", !.body = body]
<1>1. /\ areq[p] \in AllocRequest /\ areq[p].pc = "locked" /\ areq[p].op = "confirm"
      /\ ClerkOK(p) /\ areq[p].a \in Allocs /\ areq[p].i = 1
      /\ alloc[areq[p].a].status = "DRAFT" /\ body.items # <<>>
      /\ ProjectRow(p) \in holds[p]
  BY DEF ClerksInv, ClerkOK, ReadDraft, IsDraft, Inside
<1>2. body \in AllocBody /\ body.items \in Seq(Item)
  BY <1>1, StoredItems
<1>3. 1 \in 1..Len(body.items)
  BY <1>1, <1>2, EmptySeq, LenProperties
<1> HIDE DEF body
<1>4. /\ r \in AllocRequest /\ r.pc = "check" /\ r.op = "confirm" /\ r.a = areq[p].a
      /\ r.body = body /\ r.i = 1
  BY <1>1, <1>2 DEF AllocRequest
<1>5. areq' = [areq EXCEPT ![p] = r] /\ UNCHANGED <<vars, alloc, posted>>
  BY DEF ReadDraft, Sets, body
<1> HIDE DEF r
<1>6. areq'[p] = r
  BY <1>5 DEF ClerksInv
<1>7. TablesInv' /\ HoldsGrow
  BY <1>5, TablesUntouched DEF StockInv, vars, tables, pending
<1>8. ClerkOK(p)'
  <2>1. req'[p] = Idle /\ ProjectRow(p)' \in holds'[p]
    BY <1>1, <1>4, <1>5, <1>6, <1>7 DEF ClerkOK, vars, pending, ProjectRow
  <2>2. alloc'[r.a].status = "DRAFT" /\ alloc'[r.a].body = r.body
    BY <1>1, <1>4, <1>5 DEF body
  <2> QED BY <2>1, <2>2, <1>1, <1>3, <1>4, <1>6 DEF ClerkOK, Inside, Posting, AtItems
<1> QED BY <1>4, <1>5, <1>7, <1>8, StatementKeepsAllocInv DEF vars, tables

\* The item a clerk is on is a stored item, its lot a committed row.
LEMMA CurrentIsItem ==
  ASSUME AllocInv, NEW p \in Clerks, areq[p].pc \in AtItems
  PROVE  /\ areq[p] \in AllocRequest /\ areq[p].a \in Allocs /\ ClerkOK(p)
         /\ areq[p].body.items \in Seq(Item)
         /\ ItemOf(p).l \in LotIds /\ CellOf(p) \in Cells /\ ItemOf(p).q \in Nat
         /\ Exists(p, ItemOf(p).l) /\ lot[ItemOf(p).l].cell = CellOf(p)
<1> USE DEF AllocInv
<1>1. /\ areq[p] \in AllocRequest /\ ClerkOK(p) /\ areq[p].a \in Allocs
      /\ areq[p].body = alloc[areq[p].a].body
      /\ areq[p].i \in 1..Len(areq[p].body.items)
  BY DEF ClerksInv, ClerkOK, AtItems, Posting
<1>2. /\ areq[p].body.items \in Seq(Item)
      /\ ItemOf(p).l \in LotIds /\ ItemOf(p).cell \in Cells /\ ItemOf(p).q \in Nat
  BY <1>1, StoredItems DEF ItemOf
<1>3. lot[ItemOf(p).l].by = "committed" /\ lot[ItemOf(p).l].cell = CellOf(p)
  <2>1. \A j \in 1..Len(alloc[areq[p].a].body.items) :
          LET it == alloc[areq[p].a].body.items[j]
          IN  lot[it.l].by = "committed" /\ lot[it.l].cell = it.cell
    BY <1>1 DEF ItemsKnown
  <2>2. ItemOf(p) = alloc[areq[p].a].body.items[areq[p].i]
        /\ areq[p].i \in 1..Len(alloc[areq[p].a].body.items)
    BY <1>1 DEF ItemOf
  <2> QED BY <2>1, <2>2 DEF CellOf
<1> QED BY <1>1, <1>2, <1>3 DEF CellOf, Exists

\* The loop over the items stays on the items.
LEMMA AfterItemStaysOnItems ==
  ASSUME NEW r \in AllocRequest, r.body.items \in Seq(Item), r.i \in 1..Len(r.body.items),
         NEW here \in AtItems, NEW next \in AtItems \cup {"finish"}
  PROVE  LET s == AfterItem(r, here, next)
         IN  /\ s \in AllocRequest /\ s.pc \in {here, next}
             /\ s.op = r.op /\ s.a = r.a /\ s.body = r.body
             /\ s.i \in 1..Len(s.body.items)
<1>1. Len(r.body.items) \in Nat
  BY LenProperties
<1>2. ASSUME NEW i \in 1..Len(r.body.items), NEW pc \in AtItems \cup {"finish"}
      PROVE  \E s \in AllocRequest :
               /\ s = [r EXCEPT !.i = i, !.pc = pc] /\ s.pc = pc
               /\ s.op = r.op /\ s.a = r.a /\ s.body = r.body
               /\ s.i \in 1..Len(s.body.items)
  <2> DEFINE s == [r EXCEPT !.i = i, !.pc = pc]
  <2>1. i \in Nat
    BY <1>1
  <2>2. /\ s \in AllocRequest /\ s.pc = pc /\ s.i = i
        /\ s.op = r.op /\ s.a = r.a /\ s.body = r.body
    BY <2>1 DEF AllocRequest, AtItems
  <2>3. s = [r EXCEPT !.i = i, !.pc = pc]
    OBVIOUS
  <2> HIDE DEF s
  <2>4. s.i \in 1..Len(s.body.items)
    BY <2>2
  <2> QED BY <2>2, <2>3, <2>4
<1>3. PICK s \in AllocRequest :
        /\ s = AfterItem(r, here, next) /\ s.pc \in {here, next}
        /\ s.op = r.op /\ s.a = r.a /\ s.body = r.body
        /\ s.i \in 1..Len(s.body.items)
  <2>1. CASE r.i < Len(r.body.items)
    <3>1. r.i + 1 \in 1..Len(r.body.items)
      BY <1>1, <2>1
    <3>2. here \in AtItems \cup {"finish"}
      OBVIOUS
    <3>3. PICK s \in AllocRequest :
            /\ s = [r EXCEPT !.i = r.i + 1, !.pc = here] /\ s.pc = here
            /\ s.op = r.op /\ s.a = r.a /\ s.body = r.body
            /\ s.i \in 1..Len(s.body.items)
      BY <1>2, <3>1, <3>2
    <3>4. s = AfterItem(r, here, next)
      BY <2>1, <3>3 DEF AfterItem
    <3> QED BY <3>3, <3>4
  <2>2. CASE ~(r.i < Len(r.body.items))
    <3>1. 1 \in 1..Len(r.body.items)
      BY <1>1
    <3> QED BY <1>2, <2>2, <3>1 DEF AfterItem
  <2> QED BY <2>1, <2>2
<1> QED BY <1>3

\* Checking, taking and debiting an item: the conditional decrements keep the
\* tables, the clerk goes on with the draft it has read.
LEMMA ItemStepsKeepAllocInv ==
  ASSUME AllocInv, NEW p \in Clerks, CheckItem(p) \/ TakeItem(p) \/ DebitItem(p)
  PROVE  AllocInv'
<1> USE DEF AllocInv
<1>1. areq[p].pc \in AtItems
  BY DEF CheckItem, TakeItem, DebitItem, AtItems
<1>2. /\ areq[p] \in AllocRequest /\ areq[p].a \in Allocs /\ ClerkOK(p)
      /\ areq[p].body.items \in Seq(Item)
      /\ ItemOf(p).l \in LotIds /\ CellOf(p) \in Cells /\ ItemOf(p).q \in Int
      /\ Exists(p, ItemOf(p).l) /\ p \in Requests
  BY <1>1, CurrentIsItem, ClerksAreRequests
<1>3. areq[p].i \in 1..Len(areq[p].body.items)
  BY <1>1, <1>2 DEF ClerkOK
<1>4. UNCHANGED <<lot, doc, req, raced, alloc, posted>>
  BY DEF CheckItem, TakeItem, DebitItem, vars, tables
<1>5. TablesInv' /\ HoldsGrow
  <2>1. CASE CheckItem(p)
    BY <2>1, TablesUntouched DEF CheckItem, StockInv, vars, tables, pending
  <2>2. CASE TakeItem(p)
    BY <2>2, <1>2, DecrementKeepsLots, BalancesUntouched
       DEF TakeItem, StockInv, TablesInv, tables
  <2>3. CASE DebitItem(p)
    BY <2>3, <1>2, DebitKeepsBalances, LotsUntouched
       DEF DebitItem, StockInv, TablesInv, tables
  <2> QED BY <2>1, <2>2, <2>3
<1>6. PICK r \in AllocRequest :
        /\ areq' = [areq EXCEPT ![p] = r]
        /\ r.pc \in Posting /\ r.op = areq[p].op /\ r.a = areq[p].a
        /\ r.body = areq[p].body /\ r.i \in 1..Len(r.body.items)
  <2>1. CASE CheckItem(p)
    BY <2>1, <1>2, <1>3, AfterItemStaysOnItems DEF CheckItem, Sets, AtItems, Posting
  <2>2. CASE TakeItem(p)
    <3>1. LET s == [areq[p] EXCEPT !.pc = "debit"]
          IN  /\ s \in AllocRequest /\ s.pc = "debit" /\ s.op = areq[p].op
              /\ s.a = areq[p].a /\ s.body = areq[p].body /\ s.i = areq[p].i
      BY <1>2 DEF AllocRequest
    <3> QED BY <2>2, <3>1, <1>3 DEF TakeItem, Sets, AtItems, Posting
  <2>3. CASE DebitItem(p)
    BY <2>3, <1>2, <1>3, AfterItemStaysOnItems DEF DebitItem, Sets, AtItems, Posting
  <2> QED BY <2>1, <2>2, <2>3
<1>7. areq'[p] = r
  BY <1>6 DEF ClerksInv
<1>8. ClerkOK(p)'
  <2>1. req'[p] = Idle /\ ProjectRow(p)' = ProjectRow(p) /\ ProjectRow(p) \in holds[p]
    BY <1>1, <1>2, <1>4, <1>6, <1>7 DEF ClerkOK, ProjectRow, Inside, Posting
  <2>2. ProjectRow(p)' \in holds'[p]
    BY <2>1, <1>2, <1>5 DEF HoldsGrow
  <2>3. alloc'[r.a].status = "DRAFT" /\ r.body = alloc'[r.a].body
    BY <1>1, <1>2, <1>4, <1>6 DEF ClerkOK, Posting
  <2> QED BY <2>1, <2>2, <2>3, <1>2, <1>6, <1>7 DEF ClerkOK, Inside, Posting, AtItems
<1> QED BY <1>4, <1>5, <1>6, <1>8, StatementKeepsAllocInv

\* The end of a clerk's transaction: its locks go, the tables stay in order.
LEMMA EndKeepsStock ==
  ASSUME AllocInv, NEW p \in Clerks, CommitTx(p) \/ RollbackTx(p),
         UNCHANGED <<doc, req, raced>>
  PROVE  StockInv' /\ CommittedStay /\ OthersHold(p)
<1> USE DEF AllocInv
<1>1. p \in Requests /\ req[p] = Idle
  BY ClerksAreRequests DEF ClerksInv, ClerkOK
<1>2. TablesInv' /\ \A q \in Requests \ {p}, l \in LotIds : Exists(q, l) => Exists(q, l)'
  BY <1>1, CommitKeepsTables, RollbackKeepsTables DEF StockInv
<1>3. req' = [req EXCEPT ![p] = Idle]
  BY <1>1 DEF StockInv, RequestsInv
<1>4. RequestsInv'
  BY <1>1, <1>2, <1>3, IdleIsRequest, RequestMoves DEF StockInv
<1>5. CommittedStay
  BY <1>1, EndKeepsCommitted DEF StockInv, TablesInv
<1>6. OthersHold(p)
  BY <1>1, DropIsOwn DEF StockInv, TablesInv, CommitTx, RollbackTx
<1> QED BY <1>2, <1>4, <1>5, <1>6 DEF StockInv, DocsInv

\* A request that ends leaves an invariant state, if what it wrote is in order.
LEMMA EndKeepsAllocInv ==
  ASSUME AllocInv, NEW p \in Clerks, CommitTx(p) \/ RollbackTx(p),
         Sets(p, AllocIdle), UNCHANGED <<doc, req, raced>>,
         \A a \in Allocs : alloc'[a] = alloc[a] \/ (areq[p].a = a /\ areq[p].pc \in Inside),
         AllocRowsInv', ItemsKnown', AllocationsPostOnce'
  PROVE  AllocInv'
<1>1. StockInv' /\ OthersHold(p)
  BY EndKeepsStock
<1>2. areq' = [areq EXCEPT ![p] = AllocIdle] /\ areq'[p] = AllocIdle
  BY DEF Sets, AllocInv, ClerksInv
<1>3. ClerkOK(p)'
  <2>1. req'[p] = Idle
    BY DEF AllocInv, ClerksInv, ClerkOK
  <2> QED BY <2>1, <1>2 DEF ClerkOK, AllocIdle, Inside, Posting, AtItems
<1>4. ClerksInv'
  BY <1>1, <1>2, <1>3, IdleClerk, ClerkMoves DEF OthersHold
<1> QED BY <1>1, <1>4 DEF AllocInv

\* Stored items stay known while they are not replaced.
LEMMA ItemsStayKnown ==
  ASSUME AllocRowsInv, ItemsKnown, CommittedStay, NEW a \in Allocs,
         alloc'[a].body = alloc[a].body
  PROVE  \A j \in 1..Len(alloc'[a].body.items) :
           LET it == alloc'[a].body.items[j]
           IN  lot'[it.l].by = "committed" /\ lot'[it.l].cell = it.cell
BY StoredItems DEF ItemsKnown, CommittedStay

\* A refusal, a deadlock or a crash.
LEMMA AllocRollBackKeepsAllocInv ==
  ASSUME AllocInv, NEW p \in Clerks, AllocRollBack(p)
  PROVE  AllocInv'
<1>1. RollbackTx(p) /\ Sets(p, AllocIdle) /\ UNCHANGED <<doc, req, raced, alloc, posted>>
  BY DEF AllocRollBack, EndOf
<1>2. AllocRowsInv' /\ AllocationsPostOnce'
  BY <1>1 DEF AllocInv, AllocRowsInv, AllocationsPostOnce
<1>3. ItemsKnown'
  BY <1>1, EndKeepsStock, ItemsStayKnown DEF AllocInv, ItemsKnown
<1> QED BY <1>1, <1>2, <1>3, EndKeepsAllocInv

\* cancel and the end of confirm write the status of a DRAFT.
LEMMA StatusKeepsAllocInv ==
  ASSUME AllocInv, NEW p \in Clerks, CancelDraft(p) \/ FinishAlloc(p)
  PROVE  AllocInv'
<1> USE DEF AllocInv
<1> DEFINE a == areq[p].a
           status == IF areq[p].pc = "finish" THEN "CONFIRMED" ELSE "CANCELLED"
           row == [alloc[a] EXCEPT !.status = status]
<1>1. areq[p].pc \in Inside /\ a \in Allocs /\ alloc[a].status = "DRAFT"
  BY DEF CancelDraft, FinishAlloc, IsDraft, ClerksInv, ClerkOK, Inside, Posting
<1>2. /\ CommitTx(p) /\ Sets(p, AllocIdle) /\ UNCHANGED <<doc, req, raced>>
      /\ alloc' = [alloc EXCEPT ![a] = row]
      /\ posted' = [posted EXCEPT ![a] = IF status = "CONFIRMED" THEN @ + 1 ELSE @]
  <2>1. CASE CancelDraft(p)
    <3>1. posted' = posted /\ posted = [posted EXCEPT ![a] = posted[a]]
      BY <2>1, <1>1 DEF CancelDraft, AllocRowsInv
    <3> QED BY <2>1, <3>1 DEF CancelDraft, AllocCommit, EndOf
  <2>2. CASE FinishAlloc(p)
    BY <2>2 DEF FinishAlloc, AllocCommit, EndOf
  <2> QED BY <2>1, <2>2
<1>3. row \in AllocRow /\ row.status = status /\ row.body = alloc[a].body
  BY <1>1 DEF AllocRowsInv, AllocRow
<1> HIDE DEF row
<1>4. /\ AllocRowsInv' /\ alloc'[a] = row
      /\ \A b \in Allocs \ {a} : alloc'[b] = alloc[b] /\ posted'[b] = posted[b]
      /\ posted'[a] = IF status = "CONFIRMED" THEN posted[a] + 1 ELSE posted[a]
  BY <1>1, <1>2, <1>3 DEF AllocRowsInv
<1>5. AllocationsPostOnce'
  <2>1. posted[a] = 0
    BY <1>1 DEF AllocationsPostOnce
  <2> QED BY <2>1, <1>3, <1>4 DEF AllocationsPostOnce
<1>6. ItemsKnown'
  <2>1. CommittedStay
    BY <1>2, EndKeepsStock
  <2>2. \A b \in Allocs : alloc'[b].body = alloc[b].body
    BY <1>3, <1>4
  <2> QED BY <2>1, <2>2, ItemsStayKnown DEF ItemsKnown
<1> QED BY <1>1, <1>2, <1>4, <1>5, <1>6, EndKeepsAllocInv

\* What is stored of the items a client sent.
LEMMA LocatedItems ==
  ASSUME LotsInv, NEW items \in Seq(Wish)
  PROVE  /\ Located(items) \in Seq(Item) /\ Len(Located(items)) = Len(items)
         /\ \A j \in 1..Len(items) : /\ Located(items)[j].l = items[j].l
                                     /\ Located(items)[j].cell = lot[items[j].l].cell
<1>1. Len(items) \in Nat /\ DOMAIN items = 1..Len(items)
  BY LenProperties
<1>2. \A j \in 1..Len(items) : items[j] \in Wish
  BY ElementOfSeq
<1> DEFINE item(j) == [l |-> items[j].l, cell |-> lot[items[j].l].cell, q |-> items[j].q]
<1>3. \A j \in 1..Len(items) : item(j) \in Item
  BY <1>2 DEF LotsInv, Wish, Item
<1>4. Located(items) = [j \in 1..Len(items) |-> item(j)]
  BY <1>1 DEF Located
<1>5. \A j \in 1..Len(items) :
        item(j).l = items[j].l /\ item(j).cell = lot[items[j].l].cell
  OBVIOUS
<1> HIDE DEF item
<1>6. Located(items) \in Seq(Item)
  BY <1>1, <1>3, <1>4, IsASeq
<1>7. Len(Located(items)) = Len(items)
  BY <1>1, <1>4, <1>6, LenProperties
<1> QED BY <1>4, <1>5, <1>6, <1>7

\* saveAllocation creates the draft or replaces its items.
LEMMA SaveKeepsAllocInv ==
  ASSUME AllocInv, NEW p \in Clerks, Save(p)
  PROVE  AllocInv'
<1> USE DEF AllocInv
<1> DEFINE a == areq[p].a
           wish == areq[p].body
           stored == [date |-> wish.date, items |-> Located(wish.items)]
           row == [status |-> "DRAFT", body |-> stored]
<1>1. /\ areq[p].pc \in Inside /\ a \in Allocs /\ wish \in WishedBody
      /\ ValidItems(p, wish) /\ alloc[a].status \in {"none", "DRAFT"}
  BY DEF Save, MaySave, ClerksInv, ClerkOK, Inside
<1>2. /\ CommitTx(p) /\ Sets(p, AllocIdle) /\ UNCHANGED <<doc, req, raced, posted>>
      /\ alloc' = [alloc EXCEPT ![a] = row]
  BY DEF Save, AllocCommit, EndOf
<1>3. wish.items \in Seq(Wish) /\ wish.date \in Nat
  BY <1>1 DEF WishedBody
<1>4. /\ Located(wish.items) \in Seq(Item)
      /\ Len(Located(wish.items)) = Len(wish.items)
      /\ \A j \in 1..Len(wish.items) :
           /\ Located(wish.items)[j].l = wish.items[j].l
           /\ Located(wish.items)[j].cell = lot[wish.items[j].l].cell
  BY <1>3, LocatedItems DEF StockInv, TablesInv
<1>5. row \in AllocRow /\ row.status = "DRAFT" /\ row.body.items = Located(wish.items)
  BY <1>3, <1>4 DEF AllocRow, AllocBody
<1>6. \A j \in 1..Len(wish.items) :
        /\ lot'[wish.items[j].l].by = "committed"
        /\ lot'[wish.items[j].l].cell = lot[wish.items[j].l].cell
  <2>1. \A j \in 1..Len(wish.items) : wish.items[j].l \in LotIds /\ Exists(p, wish.items[j].l)
    <3>1. DOMAIN wish.items = 1..Len(wish.items)
      BY <1>3, LenProperties
    <3>2. \A j \in 1..Len(wish.items) : wish.items[j] \in Wish
      BY <1>3, ElementOfSeq
    <3>3. \A j \in DOMAIN wish.items : Exists(p, wish.items[j].l)
      BY <1>1 DEF ValidItems
    <3> QED BY <3>1, <3>2, <3>3 DEF Wish
  <2>2. \A l \in LotIds : /\ lot'[l].by = IF lot[l].by = p THEN "committed" ELSE lot[l].by
                          /\ lot'[l].cell = lot[l].cell
    BY <1>2 DEF CommitTx, StockInv, TablesInv, LotsInv
  <2> QED BY <2>1, <2>2 DEF Exists
<1> HIDE DEF row
<1>7. /\ AllocRowsInv' /\ alloc'[a] = row
      /\ \A b \in Allocs \ {a} : alloc'[b] = alloc[b]
  BY <1>1, <1>2, <1>5 DEF AllocRowsInv
<1>8. AllocationsPostOnce'
  BY <1>1, <1>2, <1>5, <1>7 DEF AllocationsPostOnce
<1>9. ItemsKnown'
  <2>1. ASSUME NEW b \in Allocs
        PROVE  \A j \in 1..Len(alloc'[b].body.items) :
                 LET it == alloc'[b].body.items[j]
                 IN  lot'[it.l].by = "committed" /\ lot'[it.l].cell = it.cell
    <3>1. CASE b = a
      <4>1. alloc'[b].body.items = Located(wish.items)
        BY <3>1, <1>5, <1>7
      <4> HIDE DEF wish, a
      <4>2. ASSUME NEW j \in 1..Len(wish.items)
            PROVE  /\ lot'[Located(wish.items)[j].l].by = "committed"
                   /\ lot'[Located(wish.items)[j].l].cell = Located(wish.items)[j].cell
        BY <1>4, <1>6
      <4> QED BY <1>4, <4>1, <4>2
    <3>2. CASE b # a
      BY <3>2, <1>2, <1>7, EndKeepsStock, ItemsStayKnown, ZenonT(30)
    <3> QED BY <3>1, <3>2
  <2> QED BY <2>1 DEF ItemsKnown
<1> QED BY <1>1, <1>2, <1>7, <1>8, <1>9, EndKeepsAllocInv

-----------------------------------------------------------------------------
\* Every step keeps the invariant.
LEMMA AllocNextKeepsInv == AllocInv /\ [AllocNext]_allocVars => AllocInv'
<1> SUFFICES ASSUME AllocInv, [AllocNext]_allocVars PROVE AllocInv'
  OBVIOUS
<1>1. CASE DocumentStep
  BY <1>1, DocumentStepKeepsAllocInv
<1>2. ASSUME NEW p \in Clerks, ArriveAny(p) \/ AllocProceed(p) \/ AllocAbort(p)
      PROVE  AllocInv'
  <2>1. CASE ArriveAny(p)
    BY <2>1, ArriveKeepsAllocInv
  <2>2. CASE LockProject(p) \/ ReadDraft(p)
    BY <2>2, LockProjectKeepsAllocInv, ReadDraftKeepsAllocInv
  <2>3. CASE CheckItem(p) \/ TakeItem(p) \/ DebitItem(p)
    BY <2>3, ItemStepsKeepAllocInv
  <2>4. CASE Save(p) \/ CancelDraft(p) \/ FinishAlloc(p)
    BY <2>4, SaveKeepsAllocInv, StatusKeepsAllocInv
  <2>5. CASE AllocReject(p) \/ AllocVictim(p) \/ AllocAbort(p)
    BY <2>5, AllocRollBackKeepsAllocInv DEF AllocReject, AllocVictim, AllocAbort
  <2> QED BY <1>2, <2>1, <2>2, <2>3, <2>4, <2>5 DEF AllocProceed
<1>3. CASE UNCHANGED allocVars
  <2>1. UNCHANGED <<balance, lot, holds, dBalance, dLot, doc, req, raced, alloc, posted, areq>>
    BY <1>3 DEF allocVars, vars, tables, pending
  <2>2. StockInv'
    BY <2>1 DEF AllocInv, StockInv, TablesInv, LocksInv, BalancesInv, LotsInv, DocsInv,
                RequestsInv, BalanceSeen, LotSeen, Exists
  <2> QED BY <2>1, <2>2 DEF AllocInv, AllocRowsInv, ItemsKnown, ClerksInv, ClerkOK,
                            ProjectRow, AllocationsPostOnce
<1> QED BY <1>1, <1>2, <1>3 DEF AllocNext

\* The invariant holds throughout.
THEOREM AllocationsInvariant == AllocSpec => []AllocInv
<1>1. AllocInit => AllocInv
  BY AllocInitEstablishesInv
<1>2. AllocInv /\ [AllocNext]_allocVars => AllocInv'
  BY AllocNextKeepsInv
<1> QED BY <1>1, <1>2, PTL DEF AllocSpec

\* Allocations, their batches of issues and the clerks keep their types.
THEOREM AllocationTypes == AllocSpec => []AllocTypeOK
<1>1. AllocInv => AllocTypeOK
  BY DEF AllocInv, AllocRowsInv, ClerksInv, AllocTypeOK, AllocRow, AllocRequest
<1> QED BY <1>1, AllocationsInvariant, PTL

\* "Serialize concurrent confirms for the same project to prevent double-
\* deduction": the issues of an allocation are created once, and exactly when it
\* is CONFIRMED, whoever edits, cancels or confirms it at the same time.
THEOREM IssuesPostedOnce == AllocSpec => []AllocationsPostOnce
<1>1. AllocInv => AllocationsPostOnce
  BY DEF AllocInv
<1> QED BY <1>1, AllocationsInvariant, PTL

\* The conditional decrements keep the stock from going negative also when
\* allocations and documents take from the same lots, each under its own locks.
THEOREM SharedStockNeverNegative == AllocSpec => []NoNegativeStock
<1>1. AllocInv => NoNegativeStock
  BY DEF AllocInv, StockInv, TablesInv, BalancesInv, LotsInv, NoNegativeStock
<1> QED BY <1>1, AllocationsInvariant, PTL

-----------------------------------------------------------------------------
(* What a clerk's transaction adds up to.                                  *)

\* What the first items of an allocation take from a cell.
ItemTerms(body, c) ==
  [j \in DOMAIN body.items |-> IF body.items[j].cell = c THEN body.items[j].q ELSE 0]
ItemsUpTo(body, i, c) == SumFunctionOnSet(ItemTerms(body, c), 1..i)

\* What a clerk has debited, and the item whose lot is taken but whose balance
\* is not.
Spent(r, c) ==
  IF r.pc \in {"take", "debit"} THEN ItemsUpTo(r.body, r.i - 1, c)
  ELSE IF r.pc = "finish" THEN TakenFrom(r.body, c) ELSE 0
Owed(r, c) ==
  IF r.pc = "debit" /\ c = r.body.items[r.i].cell THEN r.body.items[r.i].q ELSE 0

ClerkLedger(p) ==
  \A c \in Cells :
    /\ Spent(areq[p], c) \in Int
    /\ dBalance[p][c] = -Spent(areq[p], c)
    /\ NetIn(p, CellRegion(c)) = -Spent(areq[p], c) - Owed(areq[p], c)

\* Item by item, from nothing to all that is taken.
LEMMA ItemsGrow ==
  ASSUME NEW body \in AllocBody, NEW c \in Cells
  PROVE  /\ ItemsUpTo(body, 0, c) = 0
         /\ \A i \in 0..Len(body.items) : ItemsUpTo(body, i, c) \in Int
         /\ \A i \in 1..Len(body.items) :
              ItemsUpTo(body, i, c) = ItemsUpTo(body, i - 1, c)
                + (IF body.items[i].cell = c THEN body.items[i].q ELSE 0)
         /\ ItemsUpTo(body, Len(body.items), c) = TakenFrom(body, c)
<1> DEFINE n == Len(body.items)
           f == ItemTerms(body, c)
<1>1. DOMAIN body.items = 1..n /\ n \in Nat
  BY LenProperties DEF AllocBody
<1>2. \A j \in 1..n : body.items[j].q \in Nat
  <2>1. \A j \in 1..n : body.items[j] \in Item
    BY ElementOfSeq DEF AllocBody
  <2> QED BY <2>1 DEF Item
<1>3. /\ \A j \in 1..n : f[j] \in Int
      /\ \A j \in 1..n : f[j] = IF body.items[j].cell = c THEN body.items[j].q ELSE 0
  BY <1>1, <1>2 DEF ItemTerms
<1> DEFINE T == {k \in DOMAIN body.items : body.items[k].cell = c}
           g == [j \in T |-> body.items[j].q]
<1>4. /\ T \in SUBSET (1..n)
      /\ \A x \in T : g[x] \in Int /\ f[x] = g[x]
      /\ \A x \in (1..n) \ T : f[x] = 0
  BY <1>1, <1>2, <1>3
<1>5. TakenFrom(body, c) = SumFunction(g) /\ DOMAIN g = T
  BY DEF TakenFrom
<1>6. IsFiniteSet(1..n)
  BY <1>1, FS_Interval
<1> HIDE DEF f, g, n, T
<1>7. SumFunctionOnSet(g, T) = SumFunctionOnSet(f, 1..n)
  <2> DEFINE S == 1..n
  <2>1. /\ IsFiniteSet(S) /\ T \in SUBSET S
        /\ \A x \in T : g[x] \in Int /\ f[x] = g[x]
        /\ \A x \in S \ T : f[x] = 0
    BY <1>4, <1>6
  <2> HIDE DEF S
  <2>2. SumFunctionOnSet(g, T) = SumFunctionOnSet(f, S)
    BY <2>1, SumOfPart
  <2> QED BY <2>2 DEF S
<1>8. /\ SumFunctionOnSet(f, 1..0) = 0
      /\ \A i \in 0..n : SumFunctionOnSet(f, 1..i) \in Int
      /\ \A i \in 1..n :
           SumFunctionOnSet(f, 1..i) = SumFunctionOnSet(f, 1..(i - 1)) + f[i]
  BY <1>1, <1>3, SumOfFirst
<1>9. ItemsUpTo(body, 0, c) = 0 /\ \A i \in 0..n : ItemsUpTo(body, i, c) \in Int
  BY <1>8 DEF ItemsUpTo, f
<1>10. \A i \in 1..n : ItemsUpTo(body, i, c) = ItemsUpTo(body, i - 1, c) + f[i]
  BY <1>8 DEF ItemsUpTo, f
<1>11. ItemsUpTo(body, n, c) = TakenFrom(body, c)
  BY <1>5, <1>7 DEF SumFunction, ItemsUpTo, f
<1>12. \A i \in 1..n : ItemsUpTo(body, i, c) = ItemsUpTo(body, i - 1, c)
                         + (IF body.items[i].cell = c THEN body.items[i].q ELSE 0)
  BY <1>3, <1>10
<1> QED BY <1>9, <1>11, <1>12 DEF n

\* What is taken is a number of units.
LEMMA TakenIsInt ==
  ASSUME NEW body \in AllocBody, NEW c \in Cells
  PROVE  TakenFrom(body, c) \in Int
<1>1. Len(body.items) \in 0..Len(body.items)
  BY LenProperties DEF AllocBody
<1> QED BY <1>1, ItemsGrow

\* What the steps of others do to a clerk's ledger: nothing.
LEMMA AloneKeepsClerkLedger ==
  ASSUME NEW q \in Clerks, ClerkLedger(q), areq'[q] = areq[q],
         dBalance'[q] = dBalance[q], \A R : NetIn(q, R)' = NetIn(q, R)
  PROVE  ClerkLedger(q)'
<1> SUFFICES ASSUME NEW c \in Cells
             PROVE  /\ Spent(areq'[q], c) \in Int
                    /\ dBalance'[q][c] = -Spent(areq'[q], c)
                    /\ NetIn(q, CellRegion(c))' = -Spent(areq'[q], c) - Owed(areq'[q], c)
  BY DEF ClerkLedger
<1> QED BY DEF ClerkLedger

\* A clerk that has spent nothing yet.
Unspent(r) == \A c \in Cells : Spent(r, c) = 0 /\ Owed(r, c) = 0

\* So is one that has not come to its items.
LEMMA NothingSpentYet ==
  ASSUME NEW r, r.pc \in {"idle", "lock", "locked", "check"}
  PROVE  Unspent(r)
BY DEF Unspent, Spent, Owed

\* Nor has one that comes to the first of them.
LEMMA FirstItemUnspent ==
  ASSUME NEW r, r.body \in AllocBody, r.pc = "take", r.i = 1
  PROVE  Unspent(r)
<1> SUFFICES ASSUME NEW c \in Cells PROVE Spent(r, c) = 0 /\ Owed(r, c) = 0
  BY DEF Unspent
<1>1. ItemsUpTo(r.body, 0, c) = 0
  BY ItemsGrow
<1>2. r.i - 1 = 0
  OBVIOUS
<1> QED BY <1>1, <1>2 DEF Spent, Owed

\* A step that writes nothing to the stock, of a clerk that has spent nothing.
LEMMA ClerkStandsStill ==
  ASSUME StockInv, NEW p \in Clerks, ClerkLedger(p), Unspent(areq[p]), Unspent(areq'[p]),
         UNCHANGED <<balance, lot, dBalance, dLot, req>>
  PROVE  /\ ClerkLedger(p)' /\ \A q \in Requests \ {p} : Alone(q)
         /\ \A R : CommittedIn(R)' = CommittedIn(R)
<1>1. /\ \A R : CommittedIn(R)' = CommittedIn(R)
      /\ \A q \in Requests : /\ \A R : NetIn(q, R)' = NetIn(q, R)
                             /\ dBalance'[q] = dBalance[q] /\ KnownLotsStay(q)
  BY StandingStill DEF StockInv, TablesInv
<1>2. \A q \in Requests \ {p} : Alone(q)
  BY <1>1 DEF Alone
<1>3. ASSUME NEW c \in Cells
      PROVE  /\ Spent(areq'[p], c) \in Int
             /\ dBalance'[p][c] = -Spent(areq'[p], c)
             /\ NetIn(p, CellRegion(c))' = -Spent(areq'[p], c) - Owed(areq'[p], c)
  <2>1. dBalance[p][c] = 0 /\ NetIn(p, CellRegion(c)) = 0
    BY DEF ClerkLedger, Unspent
  <2>2. dBalance'[p][c] = 0 /\ NetIn(p, CellRegion(c))' = 0
    BY <1>1, <2>1, ClerksAreRequests
  <2> QED BY <2>2 DEF Unspent
<1> QED BY <1>1, <1>2, <1>3 DEF ClerkLedger

\* Where the loop over the items goes next.
LEMMA AfterItemFields ==
  ASSUME NEW r \in AllocRequest, r.body.items \in Seq(Item), r.i \in 1..Len(r.body.items),
         NEW here \in AtItems, NEW next \in AtItems \cup {"finish"},
         NEW s, s = AfterItem(r, here, next)
  PROVE  /\ s.body = r.body
         /\ \/ r.i < Len(r.body.items) /\ s.pc = here /\ s.i = r.i + 1
            \/ r.i = Len(r.body.items) /\ s.pc = next /\ s.i = 1
<1>1. Len(r.body.items) \in Nat /\ s.body = r.body
  BY LenProperties, AfterItemStaysOnItems
<1>2. CASE r.i < Len(r.body.items)
  <2>1. s = [r EXCEPT !.i = @ + 1, !.pc = here]
    BY <1>2 DEF AfterItem
  <2> QED BY <1>1, <1>2, <2>1 DEF AllocRequest
<1>3. CASE ~(r.i < Len(r.body.items))
  <2>1. s = [r EXCEPT !.i = 1, !.pc = next]
    BY <1>3 DEF AfterItem
  <2> QED BY <1>1, <1>3, <2>1 DEF AllocRequest
<1> QED BY <1>2, <1>3

\* Arriving, locking, reading the draft and the pre-checks.
LEMMA QuietStepsLedger ==
  ASSUME AllocInv, NEW p \in Clerks, ClerkLedger(p),
         ArriveAny(p) \/ LockProject(p) \/ ReadDraft(p) \/ CheckItem(p)
  PROVE  /\ ClerkLedger(p)' /\ \A q \in Requests \ {p} : Alone(q)
         /\ \A R : CommittedIn(R)' = CommittedIn(R)
<1>1. UNCHANGED <<balance, lot, dBalance, dLot, req>>
  BY DEF ArriveAny, Arrive, LockProject, ReadDraft, CheckItem, vars, tables, pending
<1>2. areq \in [Clerks -> AllocRequest]
  BY DEF AllocInv, ClerksInv
<1>3. Unspent(areq[p])
  <2>1. areq[p].pc \in {"idle", "lock", "locked", "check"}
    BY DEF ArriveAny, Arrive, LockProject, ReadDraft, CheckItem
  <2> QED BY <2>1, NothingSpentYet
<1>4. Unspent(areq'[p])
  <2>1. CASE ArriveAny(p) \/ LockProject(p) \/ ReadDraft(p)
    <3>1. \/ \E op, a, body : areq'[p] =
               [AllocIdle EXCEPT !.pc = "lock", !.op = op, !.a = a, !.body = body]
          \/ areq'[p] = [areq[p] EXCEPT !.pc = "locked"]
          \/ \E body : areq'[p] = [areq[p] EXCEPT !.pc = "check", !.body = body]
      <4>1. CASE ArriveAny(p)
        <5>1. PICK op, a, body : Arrive(p, op, a, body)
          BY <4>1 DEF ArriveAny
        <5>2. areq'[p] = [AllocIdle EXCEPT !.pc = "lock", !.op = op, !.a = a, !.body = body]
          BY <1>2, <5>1 DEF Arrive, Sets
        <5> QED BY <5>2
      <4>2. CASE LockProject(p)
        BY <1>2, <4>2 DEF LockProject, Sets
      <4>3. CASE ReadDraft(p)
        BY <1>2, <4>3 DEF ReadDraft, Sets
      <4> QED BY <2>1, <4>1, <4>2, <4>3
    <3>2. areq'[p].pc \in {"lock", "locked", "check"}
      BY <1>2, <3>1 DEF AllocIdle, AllocRequest
    <3> QED BY <3>2, NothingSpentYet
  <2>2. CASE CheckItem(p)
    <3>1. areq[p].pc = "check" /\ areq[p].pc \in AtItems /\ "take" \in AtItems
      BY <2>2 DEF CheckItem, AtItems
    <3>2. /\ areq[p] \in AllocRequest /\ areq[p].body.items \in Seq(Item)
          /\ areq[p].i \in 1..Len(areq[p].body.items) /\ areq[p].body \in AllocBody
      <4>1. areq[p] \in AllocRequest /\ areq[p].body.items \in Seq(Item) /\ ClerkOK(p)
            /\ areq[p].a \in Allocs
        BY <3>1, CurrentIsItem
      <4>2. areq[p].body = alloc[areq[p].a].body
        BY <3>1, <4>1 DEF ClerkOK, Posting
      <4> QED BY <3>1, <4>1, <4>2, StoredItems DEF ClerkOK, AllocInv
    <3>3. areq'[p] = AfterItem(areq[p], "check", "take")
      BY <1>2, <2>2 DEF CheckItem, Sets
    <3>4. /\ areq'[p].body = areq[p].body
          /\ \/ areq'[p].pc = "check"
             \/ areq'[p].pc = "take" /\ areq'[p].i = 1
      BY <3>1, <3>2, <3>3, AfterItemFields
    <3> QED BY <3>2, <3>4, NothingSpentYet, FirstItemUnspent
  <2> QED BY <2>1, <2>2
<1> QED BY <1>1, <1>3, <1>4, ClerkStandsStill DEF AllocInv

\* The item a clerk is on, as its record has it.
LEMMA ItemFields ==
  ASSUME AllocInv, NEW p \in Clerks, areq[p].pc \in AtItems
  PROVE  /\ areq[p] \in AllocRequest /\ areq[p].body \in AllocBody
         /\ areq[p].body.items \in Seq(Item) /\ areq[p].i \in 1..Len(areq[p].body.items)
         /\ ItemOf(p) = areq[p].body.items[areq[p].i] /\ CellOf(p) = ItemOf(p).cell
         /\ ItemOf(p).l \in LotIds /\ CellOf(p) \in Cells /\ ItemOf(p).q \in Nat
         /\ lot[ItemOf(p).l].cell = CellOf(p) /\ lot[ItemOf(p).l].date \in Nat
         /\ p \in Requests /\ areq \in [Clerks -> AllocRequest]
<1>1. /\ areq[p] \in AllocRequest /\ areq[p].body.items \in Seq(Item) /\ ClerkOK(p)
      /\ areq[p].a \in Allocs
      /\ ItemOf(p).l \in LotIds /\ CellOf(p) \in Cells /\ ItemOf(p).q \in Nat
      /\ lot[ItemOf(p).l].cell = CellOf(p)
  BY CurrentIsItem
<1>2. areq[p].body \in AllocBody /\ areq[p].i \in 1..Len(areq[p].body.items)
  BY <1>1, StoredItems DEF ClerkOK, AtItems, Posting, AllocInv
<1>3. lot[ItemOf(p).l].date \in Nat
  BY <1>1 DEF AllocInv, StockInv, TablesInv, LotsInv
<1> QED BY <1>1, <1>2, <1>3, ClerksAreRequests DEF ItemOf, CellOf, AllocInv, ClerksInv

\* The chosen lot is decremented: its unit is owed to the balance.
LEMMA TakeItemLedger ==
  ASSUME AllocInv, NEW p \in Clerks, ClerkLedger(p), TakeItem(p)
  PROVE  /\ ClerkLedger(p)' /\ \A q \in Requests \ {p} : Alone(q)
         /\ \A R : CommittedIn(R)' = CommittedIn(R)
<1> DEFINE r == areq[p]
           s == areq'[p]
           l == ItemOf(p).l
           q == ItemOf(p).q
<1>1. /\ r \in AllocRequest /\ r.pc = "take" /\ ItemOf(p) = r.body.items[r.i]
      /\ l \in LotIds /\ q \in Nat /\ lot[l].cell = CellOf(p) /\ lot[l].date \in Nat
      /\ CellOf(p) = ItemOf(p).cell /\ p \in Requests /\ areq \in [Clerks -> AllocRequest]
  BY ItemFields DEF TakeItem, AtItems
<1>2. s.pc = "debit" /\ s.i = r.i /\ s.body = r.body
  <2>1. s = [r EXCEPT !.pc = "debit"]
    BY <1>1 DEF TakeItem, Sets
  <2> QED BY <1>1, <2>1 DEF AllocRequest
<1>3. /\ TakesFrom(p, l, q) /\ lot' = lot
      /\ dBalance' = dBalance /\ req' = req
  BY DEF TakeItem, DecrementLot, TakesFrom, tables
<1>0. LotsInv /\ q \in Int
  <2>1. LotsInv
    BY Zenon DEF AllocInv, StockInv, TablesInv
  <2>2. q \in Int
    <3>1. q \in Nat
      BY <1>1, Zenon
    <3> HIDE DEF q
    <3> QED BY <3>1
  <2> QED BY <2>1, <2>2
<1>7. \A R : /\ CommittedIn(R)' = CommittedIn(R)
             /\ NetIn(p, R)' = NetIn(p, R) - (IF At(l) \in R THEN q ELSE 0)
             /\ \A x \in Requests \ {p} : NetIn(x, R)' = NetIn(x, R)
  <2> HIDE DEF l, q
  <2> QED BY <1>0, <1>1, <1>3, DecrementMovesSums
<1>4. /\ \A R : CommittedIn(R)' = CommittedIn(R)
      /\ \A R : \A x \in Requests \ {p} : NetIn(x, R)' = NetIn(x, R)
  BY <1>7
<1>5. \A x \in Requests \ {p} : Alone(x)
  <2>1. \A x \in Requests : KnownLotsStay(x)
    BY <1>3 DEF KnownLotsStay, Exists
  <2> QED BY <1>3, <1>4, <2>1 DEF Alone
<1>6. ASSUME NEW c \in Cells
      PROVE  /\ Spent(s, c) \in Int
             /\ dBalance'[p][c] = -Spent(s, c)
             /\ NetIn(p, CellRegion(c))' = -Spent(s, c) - Owed(s, c)
  <2>1. Spent(s, c) = Spent(r, c)
    BY <1>1, <1>2 DEF Spent
  <2>2. Owed(r, c) = 0 /\ Owed(s, c) = IF c = CellOf(p) THEN q ELSE 0
    BY <1>1, <1>2 DEF Owed
  <2>3. /\ Spent(r, c) \in Int /\ dBalance[p][c] = -Spent(r, c)
        /\ NetIn(p, CellRegion(c)) = -Spent(r, c) - Owed(r, c)
    BY DEF ClerkLedger
  <2>4. At(l) \in CellRegion(c) <=> c = CellOf(p)
    BY <1>1 DEF At, CellRegion
  <2>5. NetIn(p, CellRegion(c))' = NetIn(p, CellRegion(c))
                                     - (IF At(l) \in CellRegion(c) THEN q ELSE 0)
    BY <1>7
  <2>6. NetIn(p, CellRegion(c))' = NetIn(p, CellRegion(c)) - (IF c = CellOf(p) THEN q ELSE 0)
    BY <2>4, <2>5
  <2>7. dBalance'[p][c] = dBalance[p][c]
    BY <1>3
  <2> HIDE DEF r, s, q
  <2> QED BY <1>1, <2>1, <2>2, <2>3, <2>6, <2>7
<1> QED BY <1>4, <1>5, <1>6 DEF ClerkLedger

\* The balance follows: the item is done.
LEMMA DebitItemLedger ==
  ASSUME AllocInv, NEW p \in Clerks, ClerkLedger(p), DebitItem(p)
  PROVE  /\ ClerkLedger(p)' /\ \A q \in Requests \ {p} : Alone(q)
         /\ \A R : CommittedIn(R)' = CommittedIn(R)
<1> DEFINE r == areq[p]
           s == areq'[p]
           q == ItemOf(p).q
           n == Len(r.body.items)
<1>1. /\ r \in AllocRequest /\ r.pc = "debit" /\ ItemOf(p) = r.body.items[r.i]
      /\ q \in Nat /\ CellOf(p) \in Cells /\ CellOf(p) = ItemOf(p).cell
      /\ p \in Requests /\ areq \in [Clerks -> AllocRequest]
      /\ r.body \in AllocBody /\ r.body.items \in Seq(Item) /\ r.i \in 1..n
  BY ItemFields DEF DebitItem, AtItems
<1>2. /\ s.body = r.body
      /\ \/ r.i < n /\ s.pc = "take" /\ s.i = r.i + 1
         \/ r.i = n /\ s.pc = "finish" /\ s.i = 1
  <2>1. s = AfterItem(r, "take", "finish")
    BY <1>1 DEF DebitItem, Sets
  <2> QED BY <1>1, <2>1, AfterItemFields DEF AtItems
<1>3. /\ AdjustsBalance(p, CellOf(p), -q) /\ lot' = lot /\ dLot' = dLot /\ req' = req
  <2>1. dBalance \in [Requests -> [Cells -> Int]]
    BY DEF AllocInv, StockInv, TablesInv, BalancesInv
  <2>2. dBalance' = [dBalance EXCEPT ![p][CellOf(p)] = @ - q]
    BY DEF DebitItem, DebitBalance
  <2> HIDE DEF q
  <2>3. AdjustsBalance(p, CellOf(p), -q)
    BY <1>1, <2>1, <2>2 DEF AdjustsBalance
  <2> QED BY <2>3 DEF DebitItem, tables
<1>4. /\ \A R : CommittedIn(R)' = CommittedIn(R)
      /\ \A R : \A x \in Requests : NetIn(x, R)' = NetIn(x, R)
      /\ \A x \in Requests : KnownLotsStay(x)
  BY <1>3, LotsStandingStill DEF AllocInv, StockInv, TablesInv
<1>5. /\ \A c \in Cells : dBalance'[p][c] =
           dBalance[p][c] + (IF c = CellOf(p) THEN -q ELSE 0)
      /\ \A x \in Requests \ {p} : dBalance'[x] = dBalance[x]
  <2>1. -q \in Int
    BY <1>1
  <2> QED BY <1>1, <1>3, <2>1, AdjustedBalance DEF AllocInv, StockInv, TablesInv
<1>6. \A x \in Requests \ {p} : Alone(x)
  BY <1>3, <1>4, <1>5 DEF Alone
<1>7. ASSUME NEW c \in Cells
      PROVE  /\ Spent(s, c) \in Int
             /\ dBalance'[p][c] = -Spent(s, c)
             /\ NetIn(p, CellRegion(c))' = -Spent(s, c) - Owed(s, c)
  <2>1. /\ Spent(r, c) = ItemsUpTo(r.body, r.i - 1, c)
        /\ Owed(r, c) = IF c = CellOf(p) THEN q ELSE 0
    BY <1>1 DEF Spent, Owed
  <2>2. Owed(s, c) = 0 /\ Spent(s, c) = ItemsUpTo(r.body, r.i, c)
    <3>1. CASE r.i < n /\ s.pc = "take" /\ s.i = r.i + 1
      <4>1. s.i - 1 = r.i
        BY <1>1, <3>1
      <4> QED BY <1>2, <3>1, <4>1 DEF Spent, Owed
    <3>2. CASE r.i = n /\ s.pc = "finish"
      <4>1. ItemsUpTo(r.body, n, c) = TakenFrom(r.body, c)
        BY <1>1, ItemsGrow
      <4> QED BY <1>2, <3>2, <4>1 DEF Spent, Owed
    <3> QED BY <1>2, <3>1, <3>2
  <2>3. ItemsUpTo(r.body, r.i, c) = ItemsUpTo(r.body, r.i - 1, c)
                                      + (IF ItemOf(p).cell = c THEN q ELSE 0)
    BY <1>1, ItemsGrow
  <2>4. /\ Spent(r, c) \in Int /\ dBalance[p][c] = -Spent(r, c)
        /\ NetIn(p, CellRegion(c)) = -Spent(r, c) - Owed(r, c)
    BY DEF ClerkLedger
  <2>5. /\ NetIn(p, CellRegion(c))' = NetIn(p, CellRegion(c))
        /\ dBalance'[p][c] = dBalance[p][c] + (IF c = CellOf(p) THEN -q ELSE 0)
    BY <1>1, <1>4, <1>5
  <2> HIDE DEF r, s, q, n
  <2>6. Spent(s, c) = Spent(r, c) + (IF c = CellOf(p) THEN q ELSE 0)
    BY <1>1, <2>1, <2>2, <2>3
  <2>7. Owed(r, c) = IF c = CellOf(p) THEN q ELSE 0
    BY <2>1
  <2>8. Owed(s, c) = 0 /\ q \in Nat
    BY <1>1, <2>2
  <2> HIDE DEF r, s, q, n
  <2> QED BY <2>4, <2>5, <2>6, <2>7, <2>8
<1> QED BY <1>4, <1>6, <1>7 DEF ClerkLedger

\* The end of a clerk's transaction leaves it with nothing, the others alone.
LEMMA ClerkEndsLedger ==
  ASSUME AllocInv, NEW p \in Clerks, CommitTx(p) \/ RollbackTx(p), Sets(p, AllocIdle),
         req' = req
  PROVE  ClerkLedger(p)' /\ \A q \in Requests \ {p} : Alone(q)
<1>1. p \in Requests /\ TablesInv /\ DropPending(p) /\ areq \in [Clerks -> AllocRequest]
  BY ClerksAreRequests DEF CommitTx, RollbackTx, AllocInv, StockInv, ClerksInv
<1>2. /\ \A c \in Cells : dBalance'[p][c] = 0
      /\ \A q \in Requests \ {p} : dBalance'[q] = dBalance[q]
  <2>1. dBalance' = [dBalance EXCEPT ![p] = Untouched] /\ dBalance \in [Requests -> [Cells -> Int]]
    BY <1>1 DEF DropPending, TablesInv, BalancesInv
  <2>2. dBalance'[p] = Untouched /\ \A q \in Requests \ {p} : dBalance'[q] = dBalance[q]
    BY <1>1, <2>1
  <2> QED BY <2>2 DEF Untouched
<1>3. /\ \A R : NetIn(p, R)' = 0
      /\ \A R : \A q \in Requests \ {p} : NetIn(q, R)' = NetIn(q, R)
  BY <1>1, CommitMovesSums, RollbackMovesSums
<1>4. \A q \in Requests \ {p} : Alone(q)
  <2>1. \A q \in Requests \ {p} : KnownLotsStay(q)
    BY <1>1, EndsKeepPlaces
  <2> QED BY <1>2, <1>3, <2>1 DEF Alone
<1>5. Unspent(areq'[p])
  <2>1. areq'[p].pc = "idle"
    BY <1>1 DEF Sets, AllocIdle
  <2> QED BY <2>1, NothingSpentYet
<1>6. ASSUME NEW c \in Cells
      PROVE  /\ Spent(areq'[p], c) \in Int
             /\ dBalance'[p][c] = -Spent(areq'[p], c)
             /\ NetIn(p, CellRegion(c))' = -Spent(areq'[p], c) - Owed(areq'[p], c)
  <2>1. dBalance'[p][c] = 0 /\ NetIn(p, CellRegion(c))' = 0
    BY <1>2, <1>3
  <2> QED BY <1>5, <2>1 DEF Unspent
<1> QED BY <1>4, <1>6 DEF ClerkLedger

\* What a clerk commits is what it has spent, in the balances and in the lots.
LEMMA ClerkCommits ==
  ASSUME AllocInv, NEW p \in Clerks, ClerkLedger(p), CommitTx(p), areq[p].pc # "debit"
  PROVE  /\ balance' = [c \in Cells |-> balance[c] - Spent(areq[p], c)]
         /\ \A c \in Cells : Spent(areq[p], c) \in Int
         /\ \A c \in Cells : CommittedIn(CellRegion(c))' =
              CommittedIn(CellRegion(c)) - Spent(areq[p], c)
<1>1. p \in Requests /\ TablesInv
  BY ClerksAreRequests DEF AllocInv, StockInv
<1>2. ASSUME NEW c \in Cells
      PROVE  /\ Spent(areq[p], c) \in Int /\ dBalance[p][c] = -Spent(areq[p], c)
             /\ NetIn(p, CellRegion(c)) = -Spent(areq[p], c)
  <2>1. Owed(areq[p], c) = 0
    BY DEF Owed
  <2> QED BY <2>1 DEF ClerkLedger
<1>3. ASSUME NEW c \in Cells
      PROVE  BalanceSeen(p, c) = balance[c] - Spent(areq[p], c)
  <2>1. balance[c] \in Int
    BY <1>1 DEF TablesInv, BalancesInv
  <2> QED BY <1>2, <2>1 DEF BalanceSeen
<1>4. balance' = [c \in Cells |-> balance[c] - Spent(areq[p], c)]
  BY <1>3, Zenon DEF CommitTx
<1>5. ASSUME NEW c \in Cells
      PROVE  CommittedIn(CellRegion(c))' = CommittedIn(CellRegion(c)) - Spent(areq[p], c)
  <2>1. CommittedIn(CellRegion(c))' = CommittedIn(CellRegion(c)) + NetIn(p, CellRegion(c))
    BY <1>1, CommitMovesSums
  <2>2. CommittedIn(CellRegion(c)) \in Int
    BY <1>1, RegionSumsAreInts DEF TablesInv
  <2> QED BY <1>2, <2>1, <2>2
<1> QED BY <1>2, <1>4, <1>5

-----------------------------------------------------------------------------
(* The stock and the allocations.                                          *)

\* What an allocation's row says about a cell.
Booked(a, c) == IF alloc[a].status = "CONFIRMED" THEN TakenFrom(alloc[a].body, c) ELSE 0
BookedTerms(c) == [a \in Allocs |-> Booked(a, c)]
CountsAllocations ==
  \A c \in Cells : /\ Allocated(c) = SumFunctionOnSet(BookedTerms(c), Allocs)
                   /\ Allocated(c) \in Int
                   /\ \A a \in Allocs : Booked(a, c) \in Int

\* What is allocated is the sum of it.
LEMMA AllocationsAreCounted == AllocRowsInv => CountsAllocations
<1> SUFFICES ASSUME AllocRowsInv, NEW c \in Cells
             PROVE  /\ Allocated(c) = SumFunctionOnSet(BookedTerms(c), Allocs)
                    /\ Allocated(c) \in Int
                    /\ \A a \in Allocs : Booked(a, c) \in Int
  BY DEF CountsAllocations
<1>1. \A a \in Allocs : TakenFrom(alloc[a].body, c) \in Int
  <2> SUFFICES ASSUME NEW a \in Allocs PROVE TakenFrom(alloc[a].body, c) \in Int
    OBVIOUS
  <2> QED BY StoredItems, TakenIsInt
<1>2. \A a \in Allocs : Booked(a, c) \in Int
  BY <1>1 DEF Booked
<1> DEFINE T == {b \in Allocs : alloc[b].status = "CONFIRMED"}
           f == [a \in T |-> TakenFrom(alloc[a].body, c)]
           g == BookedTerms(c)
<1>3. /\ T \in SUBSET Allocs
      /\ \A x \in T : f[x] \in Int /\ g[x] = f[x]
      /\ \A x \in Allocs \ T : g[x] = 0
      /\ \A x \in Allocs : g[x] \in Int
  BY <1>1, <1>2 DEF BookedTerms, Booked
<1>4. Allocated(c) = SumFunction(f) /\ DOMAIN f = T
  BY DEF Allocated
<1> HIDE DEF T, f, g
<1>5. SumFunctionOnSet(f, T) = SumFunctionOnSet(g, Allocs)
  BY <1>3, AllocsAreFinite, SumOfPart
<1>6. SumFunctionOnSet(g, Allocs) \in Int
  BY <1>3, AllocsAreFinite, SumIsInt
<1>7. Allocated(c) = SumFunctionOnSet(g, Allocs)
  BY <1>4, <1>5 DEF SumFunction
<1> QED BY <1>2, <1>6, <1>7 DEF g

\* Before and after a step.
LEMMA AllocationsStayCounted == AllocRowsInv' => CountsAllocations'
BY AllocationsAreCounted, PTL

\* If what one allocation says changes, what is allocated changes by as much.
LEMMA OneAllocationCounts ==
  ASSUME AllocRowsInv, AllocRowsInv', NEW a \in Allocs, NEW c \in Cells,
         \A b \in Allocs : b # a => alloc'[b] = alloc[b]
  PROVE  Allocated(c)' = Allocated(c) + (Booked(a, c)' - Booked(a, c))
<1> DEFINE f == BookedTerms(c)
           g == BookedTerms(c)'
<1>1. /\ Allocated(c) = SumFunctionOnSet(f, Allocs)
      /\ \A b \in Allocs : Booked(b, c) \in Int
  BY AllocationsAreCounted DEF CountsAllocations
<1>2. /\ Allocated(c)' = SumFunctionOnSet(g, Allocs)
      /\ \A b \in Allocs : Booked(b, c)' \in Int
  BY AllocationsStayCounted DEF CountsAllocations
<1>3. /\ \A b \in Allocs : f[b] = Booked(b, c)
      /\ \A b \in Allocs : g[b] = Booked(b, c)'
  BY DEF BookedTerms
<1>4. \A b \in Allocs : b # a => g[b] = f[b]
  BY <1>3 DEF Booked
<1> HIDE DEF f, g
<1>5. (\A b \in Allocs : f[b] \in Int) /\ g[a] \in Int
  BY <1>1, <1>2, <1>3
<1>6. SumFunctionOnSet(g, Allocs) = SumFunctionOnSet(f, Allocs) + (g[a] - f[a])
  BY <1>4, <1>5, AllocsAreFinite, SumOneChanges
<1> QED BY <1>1, <1>2, <1>3, <1>6

\* What a clerk's step does to the book: nothing, or one of the book's steps.
BookStep(a) ==
  /\ \A b \in Allocs \ {a} : alloc'[b] = alloc[b]
  /\ Book!Edit(a) \/ Book!Cancel(a) \/ Book!Confirm(a)
BookStands == UNCHANGED <<balance, alloc>>

\* The stock moves by what is allocated, in the balances and in the lots.
Follows ==
  \A c \in Cells :
    /\ balance'[c] = balance[c] - (Allocated(c)' - Allocated(c))
    /\ CommittedIn(CellRegion(c))' =
         CommittedIn(CellRegion(c)) - (Allocated(c)' - Allocated(c))

\* A step that neither posts nor edits.
LEMMA StandsFollows ==
  ASSUME AllocInv, BookStands, \A R : CommittedIn(R)' = CommittedIn(R)
  PROVE  Follows
<1> SUFFICES ASSUME NEW c \in Cells
             PROVE  /\ balance'[c] = balance[c] - (Allocated(c)' - Allocated(c))
                    /\ CommittedIn(CellRegion(c))' =
                         CommittedIn(CellRegion(c)) - (Allocated(c)' - Allocated(c))
  BY DEF Follows
<1>1. Allocated(c)' = Allocated(c)
  BY DEF BookStands, Allocated
<1>2. Allocated(c) \in Int
  BY AllocationsAreCounted DEF CountsAllocations, AllocInv
<1>3. balance[c] \in Int /\ CommittedIn(CellRegion(c)) \in Int
  BY RegionSumsAreInts DEF AllocInv, StockInv, TablesInv, BalancesInv
<1> QED BY <1>1, <1>2, <1>3 DEF BookStands

\* An edit or a cancel posts nothing; the rows it writes do not count.
LEMMA EditsAndCancelsAreBooked ==
  ASSUME AllocInv, AllocInv', NEW p \in Clerks, ClerkLedger(p), Save(p) \/ CancelDraft(p)
  PROVE  (\E a \in Allocs : BookStep(a)) /\ Follows
<1>0. PICK a \in Allocs : a = areq[p].a
  BY DEF Save, CancelDraft, AllocInv, ClerksInv, ClerkOK
<1>1. /\ areq[p].pc = "locked" /\ CommitTx(p)
      /\ alloc[a].status \in {"none", "DRAFT"}
      /\ alloc \in [Allocs -> AllocRow]
  BY <1>0 DEF Save, MaySave, CancelDraft, IsDraft, AllocCommit, EndOf, AllocInv, AllocRowsInv
<1>2. \A c \in Cells : Spent(areq[p], c) = 0
  BY <1>1 DEF Spent
<1>3. balance' = balance /\ \A c \in Cells :
        CommittedIn(CellRegion(c))' = CommittedIn(CellRegion(c))
  <2>1. /\ balance' = [c \in Cells |-> balance[c] - Spent(areq[p], c)]
        /\ \A c \in Cells : CommittedIn(CellRegion(c))' =
             CommittedIn(CellRegion(c)) - Spent(areq[p], c)
    BY <1>1, ClerkCommits
  <2>2. /\ balance \in [Cells -> Int]
        /\ \A c \in Cells : CommittedIn(CellRegion(c)) \in Int
    BY RegionSumsAreInts DEF AllocInv, StockInv, TablesInv, BalancesInv
  <2>3. \A c \in Cells : balance[c] - Spent(areq[p], c) = balance[c]
    BY <1>2, <2>2
  <2>4. balance' = balance
    BY <2>1, <2>2, <2>3, Zenon
  <2>5. \A c \in Cells : CommittedIn(CellRegion(c))' = CommittedIn(CellRegion(c))
    BY <1>2, <2>1, <2>2
  <2> QED BY <2>4, <2>5
<1>4. /\ \A b \in Allocs : b # a => alloc'[b] = alloc[b]
      /\ alloc'[a].status \in {"DRAFT", "CANCELLED"}
      /\ Book!Edit(a) \/ Book!Cancel(a)
  <2>1. CASE Save(p)
    <3>1. PICK body : alloc' = [alloc EXCEPT ![a] = [status |-> "DRAFT", body |-> body]]
      BY <1>0, <2>1 DEF Save
    <3>2. alloc'[a].status = "DRAFT" /\ \A b \in Allocs : b # a => alloc'[b] = alloc[b]
      BY <1>1, <3>1
    <3> QED BY <1>1, <1>3, <3>2 DEF Book!Edit
  <2>2. CASE CancelDraft(p)
    <3>1. alloc' = [alloc EXCEPT ![a].status = "CANCELLED"] /\ alloc[a].status = "DRAFT"
      BY <1>0, <2>2 DEF CancelDraft, IsDraft
    <3>2. alloc'[a].status = "CANCELLED" /\ \A b \in Allocs : b # a => alloc'[b] = alloc[b]
      BY <1>1, <3>1 DEF AllocRow
    <3> QED BY <1>3, <3>1, <3>2 DEF Book!Cancel
  <2> QED BY <2>1, <2>2
<1>5. BookStep(a)
  BY <1>4 DEF BookStep
<1>6. ASSUME NEW c \in Cells
      PROVE  /\ balance'[c] = balance[c] - (Allocated(c)' - Allocated(c))
             /\ CommittedIn(CellRegion(c))' =
                  CommittedIn(CellRegion(c)) - (Allocated(c)' - Allocated(c))
  <2>1. Booked(a, c) = 0 /\ Booked(a, c)' = 0
    BY <1>1, <1>4 DEF Booked
  <2>2. Allocated(c)' = Allocated(c) + (Booked(a, c)' - Booked(a, c))
    BY <1>1, <1>4, OneAllocationCounts DEF AllocInv
  <2>3. Allocated(c) \in Int
    BY AllocationsAreCounted DEF CountsAllocations, AllocInv
  <2>4. balance[c] \in Int /\ CommittedIn(CellRegion(c)) \in Int
    BY RegionSumsAreInts DEF AllocInv, StockInv, TablesInv, BalancesInv
  <2> QED BY <1>3, <2>1, <2>2, <2>3, <2>4
<1> QED BY <1>1, <1>5, <1>6 DEF Follows

\* A confirmed allocation takes exactly the items of its draft, at once.
LEMMA ConfirmsAreBooked ==
  ASSUME AllocInv, AllocInv', NEW p \in Clerks, ClerkLedger(p), FinishAlloc(p)
  PROVE  (\E a \in Allocs : BookStep(a)) /\ Follows
<1>0. PICK a \in Allocs : a = areq[p].a
  BY DEF FinishAlloc, AllocInv, ClerksInv, ClerkOK
<1>9. PICK body : body = alloc[a].body
  OBVIOUS
<1>1. /\ areq[p].pc = "finish" /\ CommitTx(p)
      /\ alloc[a].status = "DRAFT" /\ areq[p].body = body
      /\ alloc \in [Allocs -> AllocRow]
  BY <1>0, <1>9 DEF FinishAlloc, AllocCommit, EndOf, AllocInv, ClerksInv, ClerkOK,
         AllocRowsInv, Posting
<1>2. \A c \in Cells : Spent(areq[p], c) = TakenFrom(body, c)
  BY <1>1 DEF Spent
<1>3. /\ balance' = [c \in Cells |-> balance[c] - TakenFrom(body, c)]
      /\ \A c \in Cells : TakenFrom(body, c) \in Int
      /\ \A c \in Cells : CommittedIn(CellRegion(c))' =
           CommittedIn(CellRegion(c)) - TakenFrom(body, c)
  <2>1. /\ balance' = [c \in Cells |-> balance[c] - Spent(areq[p], c)]
        /\ \A c \in Cells : Spent(areq[p], c) \in Int
        /\ \A c \in Cells : CommittedIn(CellRegion(c))' =
             CommittedIn(CellRegion(c)) - Spent(areq[p], c)
    BY <1>1, ClerkCommits
  <2>2. \A c \in Cells : balance[c] - Spent(areq[p], c) = balance[c] - TakenFrom(body, c)
    BY <1>2
  <2>3. balance' = [c \in Cells |-> balance[c] - TakenFrom(body, c)]
    BY <2>1, <2>2, Zenon
  <2> QED BY <1>2, <2>1, <2>3
<1>4. /\ alloc' = [alloc EXCEPT ![a].status = "CONFIRMED"]
      /\ \A b \in Allocs : b # a => alloc'[b] = alloc[b]
      /\ alloc'[a].status = "CONFIRMED" /\ alloc'[a].body = body
  <2>1. alloc' = [alloc EXCEPT ![a].status = "CONFIRMED"]
    BY <1>0 DEF FinishAlloc
  <2> QED BY <1>1, <1>9, <2>1 DEF AllocRow
<1>5. BookStep(a)
  <2>1. \A c \in Cells : balance'[c] >= 0
    BY DEF AllocInv, StockInv, TablesInv, BalancesInv
  <2>2. Book!Confirm(a)
    BY <1>1, <1>3, <1>4, <1>9, <2>1, Zenon DEF Book!Confirm
  <2> QED BY <1>4, <2>2 DEF BookStep
<1>6. ASSUME NEW c \in Cells
      PROVE  /\ balance'[c] = balance[c] - (Allocated(c)' - Allocated(c))
             /\ CommittedIn(CellRegion(c))' =
                  CommittedIn(CellRegion(c)) - (Allocated(c)' - Allocated(c))
  <2>1. Booked(a, c) = 0 /\ Booked(a, c)' = TakenFrom(body, c)
    <3>1. TakenFrom(alloc[a].body, c)' = TakenFrom(body, c)
      BY <1>4 DEF TakenFrom
    <3> QED BY <1>1, <1>4, <1>9, <3>1 DEF Booked
  <2>2. Allocated(c)' = Allocated(c) + (Booked(a, c)' - Booked(a, c))
    BY <1>1, <1>4, OneAllocationCounts DEF AllocInv
  <2>3. Allocated(c) \in Int
    BY AllocationsAreCounted DEF CountsAllocations, AllocInv
  <2>4. balance'[c] = balance[c] - TakenFrom(body, c)
    BY <1>3
  <2> QED BY <1>3, <2>1, <2>2, <2>3, <2>4
<1> QED BY <1>1, <1>5, <1>6 DEF Follows

\* Every step of a clerk, in the ledgers and in the book.
LEMMA ClerkStepIsBooked ==
  ASSUME AllocInv, AllocInv', NEW p \in Clerks, ClerkLedger(p),
         ArriveAny(p) \/ AllocProceed(p) \/ AllocAbort(p)
  PROVE  /\ ClerkLedger(p)' /\ \A q \in Requests \ {p} : Alone(q)
         /\ Follows /\ UNCHANGED <<doc, req, raced>>
         /\ BookStands \/ \E a \in Allocs : BookStep(a)
<1>1. CASE ArriveAny(p) \/ LockProject(p) \/ ReadDraft(p) \/ CheckItem(p) \/ TakeItem(p)
           \/ DebitItem(p)
  <2>1. /\ ClerkLedger(p)' /\ \A q \in Requests \ {p} : Alone(q)
        /\ \A R : CommittedIn(R)' = CommittedIn(R)
    BY <1>1, QuietStepsLedger, TakeItemLedger, DebitItemLedger
  <2>2. BookStands /\ UNCHANGED <<doc, req, raced>>
    BY <1>1 DEF ArriveAny, Arrive, LockProject, ReadDraft, CheckItem, TakeItem, DebitItem,
                BookStands, vars, tables
  <2> QED BY <2>1, <2>2, StandsFollows
<1>2. CASE AllocRollBack(p)
  <2>1. /\ RollbackTx(p) /\ Sets(p, AllocIdle)
        /\ UNCHANGED <<doc, req, raced, alloc>>
    BY <1>2 DEF AllocRollBack, EndOf
  <2>2. BookStands /\ \A R : CommittedIn(R)' = CommittedIn(R)
    <3>1. balance' = balance
      BY <2>1 DEF RollbackTx
    <3>2. \A R : CommittedIn(R)' = CommittedIn(R)
      BY <2>1, ClerksAreRequests, RollbackMovesSums DEF AllocInv, StockInv
    <3> QED BY <2>1, <3>1, <3>2 DEF BookStands
  <2> QED BY <2>1, <2>2, ClerkEndsLedger, StandsFollows
<1>3. CASE Save(p) \/ CancelDraft(p) \/ FinishAlloc(p)
  <2>1. CommitTx(p) /\ Sets(p, AllocIdle) /\ UNCHANGED <<doc, req, raced>>
    BY <1>3 DEF Save, CancelDraft, FinishAlloc, AllocCommit, EndOf
  <2> QED BY <1>3, <2>1, ClerkEndsLedger, EditsAndCancelsAreBooked, ConfirmsAreBooked
<1> QED BY <1>1, <1>2, <1>3 DEF AllocProceed, AllocReject, AllocVictim, AllocAbort
-----------------------------------------------------------------------------
(* The invariant of documents and allocations together.                    *)

AllocLedgerInv ==
  /\ AllocInv /\ DocsSendable /\ Backed
  /\ \A p \in Requests \ Clerks : Ledger(p)
  /\ \A p \in Clerks : ClerkLedger(p)

\* What a step of a document's request does to the ledgers.
LEMMA DocumentRequestKeepsLedgers ==
  ASSUME AllocLedgerInv, NEW p \in Requests \ Clerks, RequestStep(p) \/ RollBack(p),
         areq' = areq
  PROVE  /\ DocsSendable' /\ Backed'
         /\ \A q \in Requests \ Clerks : Ledger(q)'
         /\ \A q \in Clerks : ClerkLedger(q)'
<1>1. StockInv /\ Ledger(p) /\ p \in Requests
  BY DEF AllocLedgerInv, AllocInv
<1>2. /\ Ledger(p)' /\ \A q \in Requests \ {p} : Alone(q)
      /\ Finish(p) \/ \A R : CommittedIn(R)' = CommittedIn(R)
  BY <1>1, RequestKeepsLedgers DEF AllocLedgerInv
<1>3. DocsSendable'
  BY <1>1, DocsStaySendable DEF AllocLedgerInv
<1>4. Backed'
  <2>1. CASE Finish(p)
    <3>1. \A c \in Cells :
            /\ CommittedIn(CellRegion(c))' = CommittedIn(CellRegion(c)) + Effect(req[p].body)[c]
            /\ balance'[c] = balance[c] + Effect(req[p].body)[c]
      BY <1>1, <2>1, FinishPosts
    <3> QED BY <3>1 DEF Backed, AllocLedgerInv
  <2>2. CASE ~Finish(p)
    BY <1>1, <1>2, <2>2, OthersPostNothing DEF Backed, AllocLedgerInv
  <2> QED BY <2>1, <2>2
<1>5. \A q \in Requests \ Clerks : Ledger(q)'
  BY <1>1, <1>2, AloneKeepsLedger DEF AllocLedgerInv, StockInv
<1>6. ASSUME NEW q \in Clerks
      PROVE  ClerkLedger(q)'
  <2>1. Alone(q) /\ ClerkLedger(q)
    BY <1>2, ClerksAreRequests DEF AllocLedgerInv
  <2> QED BY <2>1, AloneKeepsClerkLedger DEF Alone
<1> QED BY <1>3, <1>4, <1>5, <1>6

\* A step that leaves the stock tables and the requests alone.
LEMMA StandingKeepsAllocLedgers ==
  ASSUME AllocLedgerInv, UNCHANGED <<balance, lot, dBalance, dLot, req, areq>>
  PROVE  /\ Backed' /\ \A q \in Requests \ Clerks : Ledger(q)'
         /\ \A q \in Clerks : ClerkLedger(q)'
<1>1. /\ \A R : CommittedIn(R)' = CommittedIn(R)
      /\ \A q \in Requests : Alone(q)
  BY StandingStill DEF AllocLedgerInv, AllocInv, StockInv, TablesInv, Alone
<1>2. \A q \in Requests \ Clerks : Ledger(q)'
  BY <1>1, AloneKeepsLedger DEF AllocLedgerInv, AllocInv, StockInv
<1>3. ASSUME NEW q \in Clerks
      PROVE  ClerkLedger(q)'
  <2>1. Alone(q) /\ ClerkLedger(q)
    BY <1>1, ClerksAreRequests DEF AllocLedgerInv
  <2> QED BY <2>1, AloneKeepsClerkLedger DEF Alone
<1>4. Backed'
  BY <1>1 DEF Backed, AllocLedgerInv
<1> QED BY <1>2, <1>3, <1>4

\* A clerk's step.
LEMMA ClerkKeepsAllocLedgers ==
  ASSUME AllocLedgerInv, AllocInv', NEW p \in Clerks,
         ArriveAny(p) \/ AllocProceed(p) \/ AllocAbort(p)
  PROVE  AllocLedgerInv'
<1>1. /\ ClerkLedger(p)' /\ \A q \in Requests \ {p} : Alone(q)
      /\ Follows /\ UNCHANGED <<doc, req, raced>>
  BY ClerkStepIsBooked DEF AllocLedgerInv
<1>2. \A q \in Requests \ Clerks : Ledger(q)'
  BY <1>1, AloneKeepsLedger DEF AllocLedgerInv, AllocInv, StockInv
<1>3. ASSUME NEW q \in Clerks \ {p}
      PROVE  ClerkLedger(q)'
  <2>1. Alone(q) /\ ClerkLedger(q)
    BY <1>1, ClerksAreRequests DEF AllocLedgerInv
  <2>2. areq'[q] = areq[q]
    BY DEF ArriveAny, Arrive, AllocProceed, LockProject, Save, CancelDraft, ReadDraft,
       CheckItem, TakeItem, DebitItem, FinishAlloc, AllocReject, AllocVictim, AllocAbort,
       AllocRollBack, AllocCommit, EndOf, Sets, AllocLedgerInv, AllocInv, ClerksInv
  <2> QED BY <2>1, <2>2, AloneKeepsClerkLedger DEF Alone
<1>4. Backed'
  BY <1>1 DEF Backed, Follows, AllocLedgerInv
<1>5. DocsSendable'
  BY <1>1 DEF DocsSendable, AllocLedgerInv
<1> QED BY <1>1, <1>2, <1>3, <1>4, <1>5 DEF AllocLedgerInv

\* No document, no allocation, no request: nothing is spent.
LEMMA AllocInitEstablishesLedger == AllocInit => AllocLedgerInv
<1> SUFFICES ASSUME AllocInit PROVE AllocLedgerInv
  OBVIOUS
<1>1. LedgerInv /\ AllocInv
  BY InitEstablishesLedger, AllocInitEstablishesInv DEF AllocInit
<1>2. ASSUME NEW p \in Clerks
      PROVE  ClerkLedger(p)
  <2>1. p \in Requests /\ Ledger(p) /\ req[p] = Idle
    BY <1>1, ClerksAreRequests DEF LedgerInv, AllocInit, Init
  <2>2. Idle.pc = "idle"
    BY DEF Idle
  <2>3. \A c \in Cells : dBalance[p][c] = 0 /\ NetIn(p, CellRegion(c)) = 0
    BY <2>1, <2>2 DEF Ledger, Posted
  <2>4. Unspent(areq[p])
    <3>1. areq[p].pc = "idle"
      BY DEF AllocInit, AllocIdle
    <3> QED BY <3>1, NothingSpentYet
  <2> QED BY <2>3, <2>4 DEF ClerkLedger, Unspent
<1> QED BY <1>1, <1>2 DEF AllocLedgerInv, LedgerInv

\* Every step keeps it.
LEMMA AllocNextKeepsLedger ==
  AllocLedgerInv /\ AllocInv' /\ [AllocNext]_allocVars => AllocLedgerInv'
<1> SUFFICES ASSUME AllocLedgerInv, AllocInv', [AllocNext]_allocVars PROVE AllocLedgerInv'
  OBVIOUS
<1>1. CASE DocumentStep
  <2>1. areq' = areq
    BY <1>1 DEF DocumentStep
  <2>2. CASE \E d \in Docs : Create(d)
    <3>1. UNCHANGED <<balance, lot, dBalance, dLot, req>>
      BY <2>2 DEF Create, tables, pending
    <3>2. DocsSendable'
      BY <2>2, DocsStaySendable DEF AllocLedgerInv, AllocInv
    <3> QED BY <2>1, <3>1, <3>2, StandingKeepsAllocLedgers DEF AllocLedgerInv
  <2>3. CASE \E p \in Requests \ Clerks : RequestStep(p) \/ DocumentVictim(p)
    BY <2>1, <2>3, DocumentRequestKeepsLedgers DEF DocumentVictim, AllocLedgerInv
  <2> QED BY <1>1, <2>2, <2>3 DEF DocumentStep
<1>2. CASE \E p \in Clerks : ArriveAny(p) \/ AllocProceed(p) \/ AllocAbort(p)
  BY <1>2, ClerkKeepsAllocLedgers
<1>3. CASE UNCHANGED allocVars
  BY <1>3, StandingKeepsAllocLedgers
     DEF allocVars, vars, tables, pending, DocsSendable, AllocLedgerInv
<1> QED BY <1>1, <1>2, <1>3 DEF AllocNext

\* The ledgers hold throughout.
THEOREM AllocationLedger == AllocSpec => []AllocLedgerInv
<1>1. AllocInit => AllocLedgerInv
  BY AllocInitEstablishesLedger
<1>2. AllocLedgerInv /\ AllocInv' /\ [AllocNext]_allocVars => AllocLedgerInv'
  BY AllocNextKeepsLedger
<1> QED BY <1>1, <1>2, AllocationsInvariant, PTL DEF AllocSpec

\* Documents and allocations together: every unit a balance shows lies in a lot.
THEOREM SharedStockIsInLots == AllocSpec => []LotsBackBalance
<1>1. AllocLedgerInv => LotsBackBalance
  BY BackedIsInLots DEF AllocLedgerInv, AllocInv, StockInv, TablesInv
<1> QED BY <1>1, AllocationLedger, PTL

\* As long as no document was raced, stock is what was there, less what is
\* allocated, plus what is documented.
Accounted ==
  raced = {} =>
    /\ Unraced
    /\ \A c \in Cells : balance[c] = OpeningBalance[c] - Allocated(c) + Documented(c)

\* The numbers it is about.
LEMMA AccountsAreInts ==
  ASSUME AllocInv
  PROVE  \A c \in Cells : /\ balance[c] \in Int /\ OpeningBalance[c] \in Int
                          /\ Allocated(c) \in Int /\ Documented(c) \in Int
<1>1. /\ \A c \in Cells : balance[c] \in Int /\ OpeningBalance[c] \in Int
      /\ \A c \in Cells : Allocated(c) \in Int
      /\ \A c \in Cells : Documented(c) \in Int
  BY OpeningIsStock, AllocationsAreCounted, DocumentedIsInt
     DEF AllocInv, StockInv, TablesInv, BalancesInv, CountsAllocations
<1> QED BY <1>1

\* A document's request moves stock and documents alike.
LEMMA RequestKeepsAccounts ==
  ASSUME AllocLedgerInv, AllocInv', Accounted, NEW p \in Requests \ Clerks,
         RequestStep(p) \/ RollBack(p), alloc' = alloc
  PROVE  Accounted'
<1> SUFFICES ASSUME raced' = {}
             PROVE  /\ Unraced'
                    /\ \A c \in Cells : balance'[c] =
                         OpeningBalance[c] - Allocated(c)' + Documented(c)'
  BY DEF Accounted
<1>1. /\ StockInv /\ StockInv' /\ Ledger(p) /\ p \in Requests /\ Unraced
      /\ \A c \in Cells : balance[c] = OpeningBalance[c] - Allocated(c) + Documented(c)
  BY RacedGrows DEF AllocLedgerInv, AllocInv, Accounted
<1>2. /\ Unraced'
      /\ \A c \in Cells : Documented(c)' =
           Documented(c) + (IF Finish(p) THEN Effect(req[p].body)[c] ELSE 0)
  BY <1>1, RequestKeepsCount
<1>3. \A c \in Cells : Allocated(c)' = Allocated(c)
  BY DEF Allocated
<1>4. \A c \in Cells : /\ balance[c] \in Int /\ OpeningBalance[c] \in Int
                       /\ Allocated(c) \in Int /\ Documented(c) \in Int
  BY AccountsAreInts DEF AllocLedgerInv
<1>5. CASE Finish(p)
  <2>1. \A c \in Cells : /\ balance'[c] = balance[c] + Effect(req[p].body)[c]
                         /\ Effect(req[p].body)[c] \in Int
    BY <1>1, <1>5, FinishPosts
  <2>2. \A c \in Cells : Documented(c)' = Documented(c) + Effect(req[p].body)[c]
    BY <1>2, <1>5
  <2>3. \A c \in Cells : balance'[c] = OpeningBalance[c] - Allocated(c)' + Documented(c)'
    BY <1>1, <1>3, <1>4, <2>1, <2>2
  <2> QED BY <1>2, <2>3
<1>6. CASE ~Finish(p)
  <2>1. balance' = balance
    BY <1>1, <1>6, OthersPostNothing
  <2>2. \A c \in Cells : Documented(c)' = Documented(c)
    BY <1>2, <1>4, <1>6
  <2> QED BY <1>1, <1>2, <1>3, <2>1, <2>2
<1> QED BY <1>5, <1>6

\* Every step keeps the accounts.
LEMMA AllocNextKeepsAccounts ==
  AllocLedgerInv /\ AllocInv' /\ Accounted /\ [AllocNext]_allocVars => Accounted'
<1> SUFFICES ASSUME AllocLedgerInv, AllocInv', Accounted, [AllocNext]_allocVars
             PROVE  Accounted'
  OBVIOUS
<1>1. CASE DocumentStep
  <2>1. alloc' = alloc
    BY <1>1 DEF DocumentStep
  <2>2. ASSUME NEW d \in Docs, Create(d)
        PROVE  Accounted'
    <3>1. balance' = balance /\ raced' = raced
      BY <2>2 DEF Create, tables
    <3>2. raced = {} => Unraced' /\ \A c \in Cells : Documented(c)' = Documented(c)
      BY <2>2, CreateKeepsCount DEF AllocLedgerInv, AllocInv, Accounted
    <3>3. \A c \in Cells : Allocated(c)' = Allocated(c)
      BY <2>1 DEF Allocated
    <3> QED BY <3>1, <3>2, <3>3 DEF Accounted
  <2>3. CASE \E p \in Requests \ Clerks : RequestStep(p) \/ DocumentVictim(p)
    BY <2>1, <2>3, RequestKeepsAccounts DEF DocumentVictim
  <2> QED BY <1>1, <2>2, <2>3 DEF DocumentStep
<1>2. ASSUME NEW p \in Clerks, ArriveAny(p) \/ AllocProceed(p) \/ AllocAbort(p)
      PROVE  Accounted'
  <2>1. Follows /\ UNCHANGED <<doc, req, raced>>
    BY <1>2, ClerkStepIsBooked DEF AllocLedgerInv
  <2>2. \A c \in Cells : balance'[c] = balance[c] - (Allocated(c)' - Allocated(c))
    BY <2>1 DEF Follows
  <2>3. /\ (Unraced => Unraced')
        /\ \A c \in Cells : Documented(c)' = Documented(c)
    BY <2>1 DEF Unraced, Open, Documented
  <2>4. \A c \in Cells : Allocated(c)' \in Int
    BY AllocationsStayCounted DEF AllocInv, CountsAllocations
  <2>5. \A c \in Cells : /\ balance[c] \in Int /\ OpeningBalance[c] \in Int
                         /\ Allocated(c) \in Int /\ Documented(c) \in Int
    BY AccountsAreInts DEF AllocLedgerInv
  <2>6. ASSUME raced = {}
        PROVE  \A c \in Cells : balance'[c] =
                 OpeningBalance[c] - Allocated(c)' + Documented(c)'
    BY <2>2, <2>3, <2>4, <2>5, <2>6 DEF Accounted
  <2> QED BY <2>1, <2>3, <2>6 DEF Accounted
<1>3. CASE UNCHANGED allocVars
  <2>1. UNCHANGED <<balance, alloc, doc, req, raced>>
    BY <1>3 DEF allocVars, vars, tables
  <2>2. \A c \in Cells : Allocated(c)' = Allocated(c) /\ Documented(c)' = Documented(c)
    BY <2>1 DEF Allocated, Documented
  <2> QED BY <2>1, <2>2 DEF Accounted, Unraced, Open
<1> QED BY <1>1, <1>2, <1>3 DEF AllocNext

\* Nothing is allocated to begin with.
LEMMA NothingAllocatedYet ==
  ASSUME AllocInit
  PROVE  \A c \in Cells : Allocated(c) = 0
<1> SUFFICES ASSUME NEW c \in Cells PROVE Allocated(c) = 0
  OBVIOUS
<1> DEFINE f == BookedTerms(c)
<1>1. Allocated(c) = SumFunctionOnSet(f, Allocs)
  BY AllocInitEstablishesInv, AllocationsAreCounted DEF AllocInv, CountsAllocations
<1>2. \A a \in Allocs : alloc[a].status = "none"
  BY DEF AllocInit
<1>3. \A a \in Allocs : f[a] = 0
  BY <1>2 DEF BookedTerms, Booked
<1> HIDE DEF f
<1>4. SumFunctionOnSet(f, Allocs) = 0
  BY <1>3, AllocsAreFinite, SumOfZeros
<1> QED BY <1>1, <1>4

\* Stock, documents and allocations agree however their transactions interleave,
\* unless two requests worked on one document.
THEOREM StockMatchesBook == AllocSpec => []StockMatchesAllocations
<1>1. AllocInit => Accounted
  <2> SUFFICES ASSUME AllocInit PROVE Accounted
    OBVIOUS
  <2>1. \A c \in Cells : balance[c] = OpeningBalance[c] /\ OpeningBalance[c] \in Int
    BY OpeningIsStock DEF AllocInit, Init
  <2>2. Unraced /\ \A c \in Cells : Documented(c) = 0
    BY NothingDocumentedYet DEF AllocInit
  <2>3. \A c \in Cells : balance[c] = OpeningBalance[c] - Allocated(c) + Documented(c)
    BY <2>1, <2>2, NothingAllocatedYet
  <2> QED BY <2>2, <2>3 DEF Accounted
<1>2. AllocLedgerInv /\ AllocInv' /\ Accounted /\ [AllocNext]_allocVars => Accounted'
  BY AllocNextKeepsAccounts
<1>3. Accounted => StockMatchesAllocations
  BY DEF Accounted, StockMatchesAllocations
<1> QED BY <1>1, <1>2, <1>3, AllocationLedger, AllocationsInvariant, PTL DEF AllocSpec

-----------------------------------------------------------------------------
(* The endpoints implement the book of allocations.                        *)

\* Every step is a step of the book, or none.
LEMMA AllocNextIsBooked ==
  AllocLedgerInv /\ AllocInv' /\ [AllocNext]_allocVars => [Book!Next]_<<balance, alloc>>
<1> SUFFICES ASSUME AllocLedgerInv, AllocInv', [AllocNext]_allocVars
             PROVE  Book!Next \/ BookStands
  BY DEF BookStands
<1>1. CASE DocumentStep
  <2>1. \A c \in Cells : balance'[c] >= 0
    BY DEF AllocInv, StockInv, TablesInv, BalancesInv
  <2> QED BY <1>1, <2>1 DEF DocumentStep, Book!Next, Book!Move
<1>2. ASSUME NEW p \in Clerks, ArriveAny(p) \/ AllocProceed(p) \/ AllocAbort(p)
      PROVE  Book!Next \/ BookStands
  <2>1. BookStands \/ \E a \in Allocs : BookStep(a)
    BY <1>2, ClerkStepIsBooked DEF AllocLedgerInv
  <2> QED BY <2>1 DEF BookStep, Book!Next
<1>3. CASE UNCHANGED allocVars
  BY <1>3 DEF allocVars, vars, tables, BookStands
<1> QED BY <1>1, <1>2, <1>3 DEF AllocNext

\* Transactions, locks, refusals and aborts implement the book of allocations:
\* a draft is edited, cancelled or confirmed in one instant, and confirming it
\* takes its items from stock, exactly and once.
THEOREM EndpointsImplementBook == AllocSpec => ImplementsBook
<1>1. AllocInit => Book!Init
  <2> SUFFICES ASSUME AllocInit PROVE Book!Init
    OBVIOUS
  <2>1. \A c \in Cells : balance[c] >= 0
    BY AllocInitEstablishesInv DEF AllocInv, StockInv, TablesInv, BalancesInv
  <2>2. alloc = [a \in Allocs |-> [status |-> "none", body |-> alloc[a].body]]
    BY DEF AllocInit
  <2> QED BY <2>1, <2>2 DEF Book!Init
<1>2. AllocLedgerInv /\ AllocInv' /\ [AllocNext]_allocVars => [Book!Next]_<<balance, alloc>>
  BY AllocNextIsBooked
<1> QED BY <1>1, <1>2, AllocationLedger, AllocationsInvariant, PTL
        DEF AllocSpec, ImplementsBook, Book!Spec
=============================================================================
