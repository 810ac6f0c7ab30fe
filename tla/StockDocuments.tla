--------------------------- MODULE StockDocuments ---------------------------
(***************************************************************************)
(* Receipts (PN), issues (PX), transfers (PCT) and counts (KK): the        *)
(* services under backend/src/stock-*.  A request reads its document in    *)
(* state DRAFT, works through the lines statement by statement and writes  *)
(* the new status by primary key.  Nothing locks the document in between.  *)
(***************************************************************************)
EXTENDS StockTables, Sequences, FiniteSetsExt

CONSTANTS
  Docs, NoDoc,    \* document ids, and no document
  Payloads,       \* kind -> the bodies (DTOs) a client may send
  Operations,     \* the operations clients use: confirm, update, cancel, remove
  OpeningLots,    \* lots in stock at the start, oldest first ...
  OpeningBalance, \* ... and the balances earlier documents left with them
  OpeningCost     \* cost price of every material at the start

ASSUME NoDocIsNone == NoDoc \notin Docs
ASSUME DocsAreFinite == IsFiniteSet(Docs)
ASSUME OpeningIsStock ==
  /\ OpeningBalance \in [Cells -> Nat]
  /\ OpeningLots \in Seq([cell : Cells, date : Nat, rem : Nat])
  /\ OpeningCost \in Nat
ASSUME OpeningLotsBackBalance ==
  /\ DOMAIN OpeningLots \subseteq LotIds
  /\ \A c \in Cells :
       LET there == {j \in DOMAIN OpeningLots : OpeningLots[j].cell = c}
       IN  OpeningBalance[c] = SumFunction([j \in there |-> OpeningLots[j].rem])

Kinds == {"receipt", "issue", "transfer", "count"}

\* The DTO schemas: at least one line, quantities and prices not negative.
Dto == [from : Warehouses, to : Warehouses, date : Nat,
        lines : Seq([m : Materials, q : Nat, price : Nat]) \ {<<>>}]
ASSUME PayloadsAreDtos == \A kind \in Kinds : Payloads[kind] \subseteq Dto

VARIABLES
  doc,            \* the document tables
  req,            \* progress of each request
  costRead,       \* what updateAverageCostPrice of each request has read
  raced           \* history: documents two requests worked on at once

vars == <<tables, pending, doc, req, costRead, raced>>

Line == [m : Materials, q : Nat, price : Nat, sys : Int]
Body == [kind : Kinds, from : Warehouses, to : Warehouses, date : Nat,
         lines : Seq(Line)]

NoBody == [kind |-> "receipt", from |-> CHOOSE w \in Warehouses : TRUE,
           to |-> CHOOSE w \in Warehouses : TRUE, date |-> 0, lines |-> <<>>]
Idle == [pc |-> "idle", op |-> "none", d |-> NoDoc, body |-> NoBody, i |-> 1,
         need |-> 0, read |-> NothingTaken]
NothingRead == [price |-> 0, total |-> 0]

Steps == {"check", "line", "take", "credit", "cost", "stock", "average",
          "finish", "write"}
Request == [pc : Steps \cup {"idle"}, op : {"none", "confirm", "update", "cancel", "remove"},
            d : Docs \cup {NoDoc}, body : Body, i : Nat, need : Int,
            read : [LotIds -> Nat]]

DocumentsTypeOK ==
  /\ doc \in [Docs -> [status : {"none", "DRAFT", "CONFIRMED", "CANCELLED"},
                       deleted : BOOLEAN, body : Body]]
  /\ req \in [Requests -> Request]
  /\ raced \subseteq Docs

TypeOK ==
  /\ TablesTypeOK /\ CostsTypeOK /\ DocumentsTypeOK
  /\ costRead \in [Requests -> [price : Int, total : Int]]

Init ==
  /\ balance = OpeningBalance
  /\ lot = [l \in LotIds |->
              IF l \in DOMAIN OpeningLots
              THEN [cell |-> OpeningLots[l].cell, date |-> OpeningLots[l].date,
                    rem |-> OpeningLots[l].rem, by |-> "committed"]
              ELSE FreeLot]
  /\ cost = [m \in Materials |-> OpeningCost]
  /\ holds = [p \in Requests |-> {}]
  /\ dBalance = [p \in Requests |-> Untouched]
  /\ dLot = [p \in Requests |-> NothingTaken]
  /\ dCost = [p \in Requests |-> [m \in Materials |-> 0]]
  /\ doc = [d \in Docs |-> [status |-> "none", deleted |-> FALSE, body |-> NoBody]]
  /\ req = [p \in Requests |-> Idle]
  /\ costRead = [p \in Requests |-> NothingRead]
  /\ raced = {}

-----------------------------------------------------------------------------
(* Helpers of the handlers.                                                *)

Current(p) == req[p].body.lines[req[p].i]
Diff(line) == line.q - line.sys
Source(p) == <<req[p].body.from, Current(p).m>>
Target(p) == <<req[p].body.to, Current(p).m>>
Is(p, kind) == req[p].body.kind = kind

\* A line of a transfer or issue, or a count below the system quantity.
Consumes(p) ==
  \/ req[p].body.kind \in {"issue", "transfer"}
  \/ Is(p, "count") /\ Diff(Current(p)) < 0
Required(p) == IF Is(p, "count") THEN -Diff(Current(p)) ELSE Current(p).q

\* Faulty variant: the loop stops before the last line.
AfterSkipsLast(r, here, next) ==
  IF r.i + 1 < Len(r.body.lines) THEN [r EXCEPT !.i = @ + 1, !.pc = here]
                                 ELSE [r EXCEPT !.i = 1, !.pc = next]

\* The loop "for (const item of items)": the next line, or what follows it.
After(r, here, next) ==
  IF r.i < Len(r.body.lines) THEN [r EXCEPT !.i = @ + 1, !.pc = here]
                             ELSE [r EXCEPT !.i = 1, !.pc = next]
NextLine(p) == req' = [req EXCEPT ![p] = After(@, "line", "finish")]
Goto(p, pc) == req' = [req EXCEPT ![p].pc = pc]

Open(d) == doc[d].status = "DRAFT" /\ ~doc[d].deleted

\* The system quantity of a counted line: kept from the draft if the material
\* was on it (the last such line), else read from the balance; 0 on every other
\* document.
LastOf(m, old, j) ==
  old[j].m = m /\ \A k \in DOMAIN old : old[k].m = m => k <= j
SystemQuantity(kind, w, m, old) ==
  IF kind # "count" THEN 0
  ELSE IF \E j \in DOMAIN old : LastOf(m, old, j)
       THEN old[CHOOSE j \in DOMAIN old : LastOf(m, old, j)].sys
       ELSE balance[<<w, m>>]

\* Faulty variant: the difference is stored as the counted quantity.
FilledWithDifference(kind, dto, old) ==
  [kind |-> kind, from |-> dto.from, to |-> dto.to, date |-> dto.date,
   lines |-> [j \in DOMAIN dto.lines |->
     LET sys == SystemQuantity(kind, dto.from, dto.lines[j].m, old) IN
     [m |-> dto.lines[j].m, q |-> dto.lines[j].q - sys,
      price |-> dto.lines[j].price, sys |-> sys]]]

Filled(kind, dto, old) ==
  [kind |-> kind, from |-> dto.from, to |-> dto.to, date |-> dto.date,
   lines |-> [j \in DOMAIN dto.lines |->
                [m |-> dto.lines[j].m, q |-> dto.lines[j].q,
                 price |-> dto.lines[j].price,
                 sys |-> SystemQuantity(kind, dto.from, dto.lines[j].m, old)]]]

Valid(kind, dto) == kind = "transfer" => dto.from # dto.to

-----------------------------------------------------------------------------
(* Requests on a document.                                                 *)

\* create: one transaction that inserts the DRAFT.
Create(d) ==
  /\ doc[d].status = "none"
  /\ \E kind \in Kinds : \E dto \in Payloads[kind] :
       /\ Valid(kind, dto)
       /\ doc' = [doc EXCEPT ![d] = [status |-> "DRAFT", deleted |-> FALSE,
                                     body |-> Filled(kind, dto, <<>>)]]
  /\ UNCHANGED <<tables, pending, req, costRead, raced>>

\* findFirst where status DRAFT and not deleted; every handler starts with it.
Begin(p, op, d, body) ==
  /\ req[p].pc = "idle" /\ op \in Operations
  /\ Open(d)
  /\ req' = [req EXCEPT ![p] =
       [Idle EXCEPT !.op = op, !.d = d, !.body = body,
                    !.pc = IF op # "confirm" THEN "write"
                           ELSE IF body.kind \in {"issue", "transfer"}
                                THEN "check" ELSE "line"]]
  /\ raced' = IF \E q \in Requests \ {p} : req[q].d = d
               THEN raced \cup {d} ELSE raced
  /\ UNCHANGED <<tables, pending, doc, costRead>>

BeginConfirm(p, d) == Begin(p, "confirm", d, doc[d].body)
BeginCancel(p, d) == Begin(p, "cancel", d, doc[d].body)
BeginRemove(p, d) == Begin(p, "remove", d, doc[d].body)
BeginUpdate(p, d) ==
  LET kind == doc[d].body.kind IN
  \E dto \in Payloads[kind] :
    Valid(kind, dto) /\ Begin(p, "update", d, Filled(kind, dto, doc[d].body.lines))

\* update / cancel / remove: one UPDATE by id, whatever the row now says.
Write(p) ==
  /\ req[p].pc = "write"
  /\ LET d == req[p].d IN
     \/ req[p].op = "update" /\ doc' = [doc EXCEPT ![d].body = req[p].body]
     \/ req[p].op = "cancel" /\ doc' = [doc EXCEPT ![d].status = "CANCELLED"]
     \/ req[p].op = "remove" /\ doc' = [doc EXCEPT ![d].deleted = TRUE]
  /\ req' = [req EXCEPT ![p] = Idle]
  /\ UNCHANGED <<tables, pending, costRead, raced>>

-----------------------------------------------------------------------------
(* confirm, statement by statement.                                        *)

\* First pass of issues and transfers: ensureSufficientStock.
CheckStock(p) ==
  /\ req[p].pc = "check"
  /\ Sufficient(p, Source(p), Current(p).q)
  /\ req' = [req EXCEPT ![p] = After(@, "check", "line")]
  /\ UNCHANGED <<tables, pending, doc, costRead, raced>>

\* consumeStockLots / moveStockLots: findMany of the eligible lots.
ReadLots(p) ==
  /\ req[p].pc = "line" /\ Consumes(p)
  /\ req' = [req EXCEPT ![p].pc = "take", ![p].need = Required(p),
       ![p].read = [l \in LotIds |->
                      IF l \in EligibleLots(p, Source(p), req[p].body.date)
                      THEN LotSeen(p, l) ELSE 0]]
  /\ UNCHANGED <<tables, pending, doc, costRead, raced>>

NextToTake(p, l) ==
  /\ req[p].read[l] > 0
  /\ \A k \in LotIds : req[p].read[k] > 0 => k = l \/ Older(l, k)
Take(p, l) == IF req[p].read[l] <= req[p].need THEN req[p].read[l] ELSE req[p].need

\* Faulty variant: the lot at the target is as large as the lot at the source.
TakeLotWhole(p, l) ==
  /\ req[p].pc = "take" /\ req[p].need > 0
  /\ NextToTake(p, l)
  /\ DecrementLot(p, l, Take(p, l))
  /\ IF Is(p, "transfer")
     THEN CreateLot(p, Target(p), lot[l].date, req[p].read[l])
     ELSE UNCHANGED lot
  /\ req' = [req EXCEPT ![p].need = @ - Take(p, l), ![p].read[l] = 0]
  /\ UNCHANGED <<balance, cost, dBalance, dCost, doc, costRead, raced>>

\* Faulty variant: the lot at the target gets the date of the transfer.
TakeLotRedated(p, l) ==
  /\ req[p].pc = "take" /\ req[p].need > 0
  /\ NextToTake(p, l)
  /\ DecrementLot(p, l, Take(p, l))
  /\ IF Is(p, "transfer")
     THEN CreateLot(p, Target(p), req[p].body.date, Take(p, l))
     ELSE UNCHANGED lot
  /\ req' = [req EXCEPT ![p].need = @ - Take(p, l), ![p].read[l] = 0]
  /\ UNCHANGED <<balance, cost, dBalance, dCost, doc, costRead, raced>>

\* One turn of the lot loop; a transfer re-creates the lot at the target.
TakeLot(p, l) ==
  /\ req[p].pc = "take" /\ req[p].need > 0
  /\ NextToTake(p, l)
  /\ DecrementLot(p, l, Take(p, l))
  /\ IF Is(p, "transfer")
     THEN CreateLot(p, Target(p), lot[l].date, Take(p, l))
     ELSE UNCHANGED lot
  /\ req' = [req EXCEPT ![p].need = @ - Take(p, l), ![p].read[l] = 0]
  /\ UNCHANGED <<balance, cost, dBalance, dCost, doc, costRead, raced>>

\* The lots are taken: adjustBalance with the negative quantity.
Debit(p) ==
  /\ req[p].pc = "take" /\ req[p].need = 0
  /\ DebitBalance(p, Source(p), Required(p))
  /\ LET r == [req[p] EXCEPT !.read = NothingTaken] IN
     req' = [req EXCEPT ![p] = IF Is(p, "transfer") THEN [r EXCEPT !.pc = "credit"]
                               ELSE After(r, "line", "finish")]
  /\ UNCHANGED <<tables, dLot, dCost, doc, costRead, raced>>

\* adjustBalance of the receiving warehouse of a transfer.
CreditTarget(p) ==
  /\ req[p].pc = "credit"
  /\ CreditBalance(p, Target(p), Current(p).q)
  /\ NextLine(p)
  /\ UNCHANGED <<tables, dLot, dCost, doc, costRead, raced>>

\* Faulty variant: adjustBalance upserts whatever sign the difference has.
CreditAnyDifference(p) ==
  /\ req[p].pc = "line" /\ Is(p, "count")
  /\ CreditBalance(p, Source(p), Diff(Current(p)))
  /\ NextLine(p)
  /\ UNCHANGED <<tables, dLot, dCost, doc, costRead, raced>>

\* A counted surplus: adjustment lot dated as the count, then the balance.
CreditSurplus(p) ==
  LET surplus == Diff(Current(p)) IN
  /\ req[p].pc = "line" /\ Is(p, "count") /\ surplus >= 0
  /\ IF surplus > 0 THEN CreateLot(p, Source(p), req[p].body.date, surplus)
                    ELSE UNCHANGED lot
  /\ CreditBalance(p, Source(p), surplus)
  /\ NextLine(p)
  /\ UNCHANGED <<balance, cost, dLot, dCost, doc, costRead, raced>>

\* A received line: the balance first ...
CreditReceipt(p) ==
  /\ req[p].pc = "line" /\ Is(p, "receipt")
  /\ CreditBalance(p, Target(p), Current(p).q)
  /\ Goto(p, "cost")
  /\ UNCHANGED <<tables, dLot, dCost, doc, costRead, raced>>

\* ... then updateAverageCostPrice: the old price, the stock everywhere, ...
ReadCost(p) ==
  /\ req[p].pc = "cost"
  /\ costRead' = [costRead EXCEPT ![p].price = CostSeen(p, Current(p).m)]
  /\ Goto(p, "stock")
  /\ UNCHANGED <<tables, pending, doc, raced>>

\* Faulty variant: the stock is read before adjustBalance.
StockBeforeReceipt(p, m) ==
  SumFunction([w \in Warehouses |-> balance[<<w, m>>]])

StockEverywhere(p, m) ==
  SumFunction([w \in Warehouses |-> BalanceSeen(p, <<w, m>>)])

ReadStock(p) ==
  /\ req[p].pc = "stock"
  /\ costRead' = [costRead EXCEPT ![p].total = StockEverywhere(p, Current(p).m)]
  /\ Goto(p, "average")
  /\ UNCHANGED <<tables, pending, doc, raced>>

\* toDecimalPlaces(0) rounds half up.
Rounded(a, b) == (2 * a + b) \div (2 * b)
AverageCost(r, line) ==
  IF r.total > 0
  THEN Rounded((r.total - line.q) * r.price + line.q * line.price, r.total)
  ELSE line.price

\* ... the new average; and the lot of the line.
WriteAverage(p) ==
  LET line == Current(p) IN
  /\ req[p].pc = "average"
  /\ WriteCostPrice(p, line.m, AverageCost(costRead[p], line))
  /\ CreateLot(p, Target(p), req[p].body.date, line.q)
  /\ costRead' = [costRead EXCEPT ![p] = NothingRead]
  /\ NextLine(p)
  /\ UNCHANGED <<balance, cost, dBalance, dLot, doc, raced>>

\* update by id to CONFIRMED, and the commit.
Finish(p) ==
  /\ req[p].pc = "finish"
  /\ doc' = [doc EXCEPT ![req[p].d].status = "CONFIRMED"]
  /\ CommitTx(p)
  /\ req' = [req EXCEPT ![p] = Idle]
  /\ UNCHANGED <<costRead, raced>>

-----------------------------------------------------------------------------
(* How a request fails: everything it wrote is rolled back.                *)

RollBack(p) ==
  /\ RollbackTx(p)
  /\ req' = [req EXCEPT ![p] = Idle]
  /\ costRead' = [costRead EXCEPT ![p] = NothingRead]
  /\ UNCHANGED <<doc, raced>>

\* The BadRequestExceptions of the handlers.
Refused(p) ==
  \/ req[p].pc = "check" /\ ~Sufficient(p, Source(p), Current(p).q)
  \/ /\ req[p].pc = "take" /\ req[p].need > 0
     /\ \/ \A l \in LotIds : req[p].read[l] = 0
        \/ \E l \in LotIds : NextToTake(p, l) /\ DecrementRefused(p, l, Take(p, l))
  \/ req[p].pc = "take" /\ req[p].need = 0 /\ DebitRefused(p, Source(p), Required(p))

Reject(p) == Refused(p) /\ RollBack(p)

\* Timeout of the interactive transaction, lost connection, crashed process.
Abort(p) == req[p].pc # "idle" /\ RollBack(p)

\* The row the next statement of p updates.
Wanted(p) ==
  CASE req[p].pc = "take" /\ req[p].need > 0 ->
         {<<"lot", l>> : l \in {k \in LotIds : NextToTake(p, k)}}
    [] req[p].pc = "take" /\ req[p].need = 0 -> {<<"balance", Source(p)>>}
    [] req[p].pc = "credit" \/ (req[p].pc = "line" /\ Is(p, "receipt")) ->
         {<<"balance", Target(p)>>}
    [] req[p].pc = "line" /\ Is(p, "count") /\ ~Consumes(p) -> {<<"balance", Source(p)>>}
    [] req[p].pc = "average" -> {<<"cost", Current(p).m>>}
    [] OTHER -> {}
Wants == [q \in Requests |-> Wanted(q)]
DeadlockVictim(p) == Deadlocked(p, Wants) /\ RollBack(p)

-----------------------------------------------------------------------------
Confirming(p) ==
  \/ CheckStock(p) \/ ReadLots(p) \/ Debit(p) \/ CreditTarget(p)
  \/ CreditSurplus(p) \/ CreditReceipt(p)
  \/ ReadCost(p) \/ ReadStock(p) \/ WriteAverage(p) \/ Finish(p)
  \/ \E l \in LotIds : TakeLot(p, l)
Proceed(p) == Confirming(p) \/ Write(p) \/ Reject(p) \/ DeadlockVictim(p)

BeginOn(p, d) ==
  BeginConfirm(p, d) \/ BeginUpdate(p, d) \/ BeginCancel(p, d) \/ BeginRemove(p, d)

RequestStep(p) == (\E d \in Docs : BeginOn(p, d)) \/ Proceed(p) \/ Abort(p)

Next == (\E d \in Docs : Create(d)) \/ (\E p \in Requests : RequestStep(p))

Spec == Init /\ [][Next]_vars

-----------------------------------------------------------------------------
(* Properties.                                                             *)

\* No committed balance and no committed lot is ever below zero: what the
\* conditional decrements of adjustBalance, consumeStockLots and moveStockLots
\* are for, whatever two confirms read before they write.
NoNegativeStock ==
  /\ \A c \in Cells : balance[c] >= 0
  /\ \A l \in LotIds : lot[l].rem >= 0

StockOfLots(S) == SumFunction([l \in S |-> lot[l].rem])
CommittedLots(m, w, dates) ==
  {l \in LotIds : /\ lot[l].by = "committed" /\ lot[l].date \in dates
                  /\ lot[l].cell \in w \X {m}}

\* Every unit a balance shows lies in a lot: the handlers change the balance
\* and the lots of a cell in the same transaction and by the same amount.
LotsBackBalance ==
  \A w \in Warehouses, m \in Materials :
    balance[<<w, m>>] = StockOfLots(CommittedLots(m, {w}, Nat))

\* What a document does to the balances once it is confirmed.
LineEffect(body, line, c) ==
  IF c[2] # line.m THEN 0
  ELSE CASE body.kind = "receipt" -> IF c[1] = body.to THEN line.q ELSE 0
         [] body.kind = "issue" -> IF c[1] = body.from THEN -line.q ELSE 0
         [] body.kind = "count" -> IF c[1] = body.from THEN Diff(line) ELSE 0
         [] body.kind = "transfer" ->
              IF c[1] = body.from THEN -line.q
              ELSE IF c[1] = body.to THEN line.q ELSE 0
Effect(body) ==
  [c \in Cells |-> SumFunction([j \in DOMAIN body.lines |->
                                  LineEffect(body, body.lines[j], c)])]

\* A step that changes balances posts one whole document, as its request read
\* it, and marks that document CONFIRMED: never half the lines of a document.
PostsWholeDocuments ==
  [][\E p \in Requests :
       /\ balance' = [c \in Cells |-> balance[c] + Effect(req[p].body)[c]]
       /\ req[p].op = "confirm" /\ doc'[req[p].d].status = "CONFIRMED"]_balance

\* The README's ledger: stock is the opening stock and the confirmed documents.
Documented(c) ==
  SumFunction([d \in {e \in Docs : doc[e].status = "CONFIRMED" /\ ~doc[e].deleted} |->
                 Effect(doc[d].body)[c]])
StockMatchesDocuments ==
  \A c \in Cells : balance[c] = OpeningBalance[c] + Documented(c)

\* It holds whatever runs at the same time, as long as no two requests work on
\* the same document.
StockMatchesUnracedDocuments == raced = {} => StockMatchesDocuments

\* A count adjusts by actual minus system quantity: as long as no stock has
\* moved, what a draft takes for the system quantity is its warehouse's balance.
CountsKnowTheirWarehouse ==
  balance = OpeningBalance =>
    \A d \in Docs : doc[d].status = "DRAFT" /\ doc[d].body.kind = "count" =>
      \A j \in DOMAIN doc[d].body.lines :
        LET line == doc[d].body.lines[j] IN
        line.sys = balance[<<doc[d].body.from, line.m>>]

\* The moving average stays between the lowest and the highest price paid,
\* although it is a read-modify-write without a lock: the average relies on
\* the balance being increased before the stock is read.
PricesPaid(m) ==
  {OpeningCost} \cup
  UNION {{dto.lines[j].price : j \in {k \in DOMAIN dto.lines : dto.lines[k].m = m}} :
           dto \in Payloads["receipt"]}
CostWithinPricesPaid ==
  \A m \in Materials : \E lo, hi \in PricesPaid(m) : lo <= cost[m] /\ cost[m] <= hi

\* Confirming a transfer moves stock and keeps its purchase date: what the
\* company holds of a material per invoice date does not change.
TransfersKeepDatedStock ==
  [][\A p \in Requests :
       (req[p].pc = "finish" /\ Is(p, "transfer") /\ ~Abort(p)
          /\ req'[p].pc = "idle") =>
       \A m \in Materials, date \in {lot[l].date : l \in LotIds} :
         StockOfLots(CommittedLots(m, Warehouses, {date}))'
           = StockOfLots(CommittedLots(m, Warehouses, {date}))]_vars

\* Every request ends, also when transactions wait for each other's rows.
RequestsEnd == \A p \in Requests : req[p].pc # "idle" ~> req[p].pc = "idle"
=============================================================================
