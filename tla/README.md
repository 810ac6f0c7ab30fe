# Verification of the AHSO CRM core

AHSO CRM is a NestJS + Prisma backend on PostgreSQL with a Next.js frontend. Its own core
logic is what the backend services under `backend/src` do to the database, statement by
statement, while other requests do the same. This directory holds TLA+ models of that
logic, TLC configurations that check them on small instances, and proofs (TLAPS) of the
properties that must hold for any number of documents, requests and warehouses.

All paths below are relative to the repository root.

## 1. The system

Every request is handled by one Node.js process that interleaves handlers at each
`await`; several processes may run on one database. The state that matters is in
PostgreSQL. Prisma's `$transaction(async (tx) => ...)` opens an interactive transaction at
the default isolation level, READ COMMITTED: each statement sees what was committed
before it. So a handler that reads a row, decides and writes is *not* atomic, even inside
a transaction, unless it locks or writes conditionally. The code uses three devices:

* conditional updates (`updateMany where quantity >= x`, then `count !== 1` is an error);
* transaction-scoped advisory locks (`pg_advisory_xact_lock(hashtext(key))`);
* row locks (`SELECT ... FOR UPDATE` on a BOM), and the locks that any UPDATE takes.

### Inventory of components

| Component | State it keeps | Operations | What makes it correct | Modelled in |
|---|---|---|---|---|
| Stock ledger `inventory/inventory-balance.service.ts` | `StockBalance`, `StockLot`, `Material.costPrice` | adjustBalance, ensureSufficientStock, updateAverageCostPrice, consumeStockLots | never negative; balance = sum of lots; average within prices paid | StockTables, StockDocuments |
| Stock documents `stock-receipts`, `-issues`, `-transfers`, `-counts` | document + lines, status DRAFT/CONFIRMED/CANCELLED, `deletedAt` | create, update, confirm, cancel, remove | a document is posted whole and once; stock = confirmed documents | StockDocuments |
| Material allocation `projects/projects.service.ts` | `ProjectMaterialAllocation`, items, the `StockIssue`s it creates | create/update (also the legacy upsert), cancel, confirm | posted once; no edit after the end; stock matches | MaterialAllocation, AllocationBook |
| FIFO suggestion `boms/fifo-suggest.ts` | none of its own: reads lots, drafts and confirmed items | suggestAllocation for the lines of a BOM | oldest invoice first; never offers what a draft holds or a batch has taken | FifoSuggest |
| Document numbers (`generateNext...` in 7 services) | the unique number column of each table | next number under an advisory lock | numbers are new; creation is not blocked | DocumentNumbers |
| Payments `projects.service.ts`, `contracts.service.ts` | `Payment`, and the value of contract, quote, project | createPayment (two endpoints), revisions of values | nothing is paid beyond its value | Payments |
| Sales pipeline `quotes`, `contracts`, `projects` | statuses, dates, versions, accepted items, `estimatedValue`, milestones | create, update, send, updateStatus, bulk status, duplicate, remove | statuses of quote, contract and project agree | SalesPipeline (partly), Payments |
| Bills of material `boms/*` | `Bom`, `BomLine`, approval | create, replaceLines, approve, archive, new version, duplicate, save as model, remove | an approved BOM is frozen; no cycles; children approved first | Boms (partly) |
| Sessions and sign-in `auth/*` | `UserSession`, passwords, the 60 s user cache | login, refresh, reset, logout, revoke; changes of users and roles | one session per user after login; an ended one stays ended; rights are current | Sessions, UserCache (partly) |
| Template variants `documents/document-template-variants.service.ts` | variants: status, active, layout | create, edit, submit, approve, setActive, delete | what is published has validated; one active variant, without a gap | TemplateVariants |
| Agent actions `agents/*` | `AgentAction` status and payload | scan, edit payload, execute, reject | rows tell what was done; one pending proposal per customer | AgentActions (partly) |
| Domain events and webhooks | handlers in memory, `WebhookLog` | emit, deliver with three attempts | one log per delivery; failures counted | - |
| Mailbox synchronisation `mailbox/*` | `EmailMessage`, IMAP connection and its mailbox lock | syncFolder, syncFlags, idle watch, queue | every message stored once; no self-deadlock | - |
| AI credentials `ai-credentials/*` | OAuth states, credentials | API key, authorize, callback, refresh, disconnect, model | the stored refresh token is one the provider honours | AiCredentials |
| Documents `documents/*` | generated documents, layouts | render, preview, export | layout as designed | - |
| Master data and reports | customers, materials, suppliers, warehouses, ... | CRUD, import, search, charts | access scoping | - |
| Shell | guards, audit, uploads, websocket, push, sms, backup | - | - | - |

Interactions: stock documents and allocations call the ledger inside their transaction
and meet in the rows of `StockBalance` and `StockLot`; an allocation's confirm numbers its
issues with the same function as the stock issues, and is often saved from a suggestion
computed for a BOM of the project; payments share values with quotes, contracts and
projects, which revise them without a lock; quote and contract changes write
the project's status and `estimatedValue`; services emit domain events after the commit,
and these fan out to webhooks, notifications and e-mail.

### What is hard

* check-then-act at READ COMMITTED: every `findFirst` followed by a write by id;
* waits for each other: transactions update several rows in the order of their lines;
* rollback halfway through the lines, by a refusal, a transaction timeout or a crash;
* values read before an await and used after it (average cost, counted difference,
  status before an e-mail is sent, the payment limit);
* two code paths for one rule (payments of a contract; issues by hand and by allocation);
* validation outside the transaction that relies on it (cycles and approved children of a
  BOM, the layout of a template, the session a token belongs to);
* a cache filled by a read that started before an invalidation;
* queries sent together that each read a state of their own (the suggestion for a BOM);
* text order and dates against number order (`PN-2026-1000` sorts before `PN-2026-999`; a row may be
  dated earlier than one inserted before it).

`PROJECT.json` lists every such hazard at its line, with the property that covers it or
the reason none does.

## 2. The modules

```
 StockTables            rows, row locks, transactions, the ledger's statements   [P]
   StockDocuments       receipts, issues, transfers, counts                      [P]
     MaterialAllocation allocations next to the documents                        [P]
       AllocationBook   what allocations promise (refined by MaterialAllocation)
 FifoSuggest            suggestions for a BOM and the batches saved from them    [P]
 DocumentNumbers        the generateNext... functions                            [C]
 Payments               the two createPayment endpoints                          [P]
 SalesPipeline          quotes, the contract and the stage of a project          [P]
 Boms                   bills of material and their sub-assemblies               [C]
 TemplateVariants       the versions of a document template                      [C]
 Sessions               sign-in, refresh, reset, revocation                      [C]
 UserCache              the cache of rights                                      [C]
 AgentActions           proposals of agents and their review                     [C]
 AiCredentials          API key or connection of an AI provider                  [C]
```

`[P]`: the theorems about `M` are in `MProofs`, those about `StockTables` in
`StockDocumentsProofs`. `[C]`: in `CheckThenWriteProofs`, which holds the components whose
requests check before they write. The proofs about stock build on each other:
`StockDocumentsProofs` (what never becomes negative), `StockLedgerProofs` (what adds up),
`MaterialAllocationProofs` (both, with clerks next to the documents). `Sums` has the lemmas on
`SumFunctionOnSet` of the community module Functions that all sums rest on.
`MC*.tla` give the constants values, `MC*.cfg` are the runs.
`MCAllocationBeside` (allocation, suggestion, agent actions, AI credential) and `MCSideBySide` (numbers,
BOMs, variants, sessions, cache) put components into one run that share no state: the
initial state chooses which of them runs, the others rest. That is several models in one
run, not a claim about their interaction. Model values are shared between the components
so that one small symmetry group fits all.

In the modules where endpoints race by id, a variable remembers which rows a
request wrote although what it had read was no longer so (`raced`, `overtaken`, `bomRaced`,
`varLost`, `twins`, `outlived`, `crossed`, `loose`, `disturbed`). The code has no such
variable; it lets a property say *exactly when* a promise may fail. Nothing reads it but
the properties and, where a cfg bounds it (`MaxOvertaken`, `MaxLoose`), the start of a request.

**StockTables.** `balance`, `lot` and `cost` are the committed rows. What an open
transaction has written is kept apart: `dBalance`, `dLot`, `dCost` per request, and
`holds` the rows it has locked. A statement that updates a row needs it `Unlocked` and
evaluates its condition on what the request then sees; `CommitTx` merges, `RollbackTx`
drops. Lots are numbered in creation order and a new lot is invisible to others until
its creator commits (`by`). `Older` is `orderBy [purchaseInvoiceDate, createdAt]`. A
balance without a row is 0, as `ensureSufficientStock` and the upsert treat it; that two
upserts of a missing row may collide on the primary key is one of the failures `Abort`
stands for. `Deadlocked` is PostgreSQL's detector: any transaction on a cycle of waits
may be the victim. Quantities are integers: the column is a fixed-point decimal.

**StockDocuments.** `doc` holds the documents, `req` a program counter per request, and
each action is one statement of a handler: `Begin*` (findFirst of a DRAFT with its
lines), `CheckStock` (first pass), `ReadLots`, `TakeLot` (one turn of the FIFO loop; on a
transfer with the lot it re-creates at the target), `Debit`, `CreditTarget`,
`CreditSurplus`, `CreditReceipt`, `ReadCost`/`ReadStock`/`WriteAverage` (the moving
average, with its read-modify-write visible), `Finish` (status by id, commit). `Write` is
the update, cancel or remove by id. `Reject` are the handlers' exceptions, `Abort` a
timeout, lost connection or crash. `raced` remembers documents that two requests worked on
at once. Left out: numbers (own module), amounts of money other than the unit price.
The header and lines of a document are read in one step (Prisma sends two SELECTs), and
so are the few statements of a create or update; see the hazards.

**MaterialAllocation** adds allocations and the clerks that work on them, over the
same tables: `Arrive` (the checks outside the transaction), `LockProject`, then `Save`,
`CancelDraft`, or `ReadDraft`, `CheckItem`, `TakeItem`, `DebitItem`, `FinishAlloc`. A row
exists from the first save; a save that arrives before it and runs after it is an update.
`posted` counts the batches of issues created. Left out: direct costs attached to an
allocation (`syncAllocationCosts`), the BOM line of an item (module FifoSuggest), and the
reads of the legacy endpoints, which pick the allocation and then run the same handlers.

**AllocationBook** is the promise without transactions: edit, cancel or confirm a draft,
once, and confirming takes exactly the draft's items from stock at that instant.
`ImplementsBook` maps `stock` to the committed balances and `book` to the allocation rows.

**DocumentNumbers**: `rows` of each series in the order of their inserts, `own` those of open
transactions, `lock` the holder of the advisory lock, `clock` the time. `Latest` is what the query may
return: the last by text order (`SortsBefore`, with padding) for the series in `ByNumber`, for PX and
BOM any row with the latest date (`at`). `Base` and `Width` stand for 10 and 3. `createdAt` is a
default, `now()`, in milliseconds. The source does not say whether the client library fills it in at
the insert or PostgreSQL with the start of the transaction, so each insert has one or the other
(`began` or `clock`); neither is the order in which the lock is granted. Differences between the
clocks of several servers are left out.

**Payments**: `value`, `paid` and `phase` of every project, contract and quote (an
*account*), `key` the holder of each advisory key, `pay` the requests. `TakeProjectKey`,
`TakeSourceKey`, `ReadLimit`, `ReadPaid`, `Post` or `Refuse` are the statements of
createPayment; `via` says which endpoint. Revisions of values (`CreateContract`,
`ReviseContract`, `ReviseQuote`, `ReviseProject`), `Delete` and `Restore` run at any time.
`peak` remembers the most an account was ever worth, `overtaken` the direct payments
whose project the contracts endpoint paid between their read and their insert. A revision
is one step: the sales rules that allow or forbid it only restrict when it happens.

**SalesPipeline**: `project`, `quote` and `contract` rows and the requests (`req`) between
their read and their write. `Start*` are the reads with the checks made on them, `Write*` the
transactions by id, with what else they write: the dates (`Dated`), the accepted items
(`Chosen`; `ItemsReplaced` is the delete and re-creation of all items by an edit, which leaves
`acceptedItemIds` alone), and the stage of the project (`SyncQuote`, `SyncContract`). `Fails`
is a refusal, a crash or an e-mail that cannot be sent. A bulk change is several requests.
`overtaken` holds the rows written by a request that had read an older row.

**Boms**: `Start*` is what runs outside the transaction: `Usable` (children are approved
models) and `Avoids` (the depth-first search does not come back). `ReplaceLines`, `InsertCopy` and
`RemoveBom` are the transactions; `StillDraft` is checked inside, under `FOR UPDATE`.
`Approve` and `Archive` are single transactions. `approvedAt` is a logical clock.

**FifoSuggest**: `left` the lots, `batch` the allocations saved from suggestions, `asked` what clients
asked for and what has been read for them. `Ask` sends the queries of `Promise.all`, and
`QueryConfirmed`, `QueryLots` and `QueryDrafts` are their answers, in any order and each from the state
it meets: saves, confirms, cancellations and stock documents run in between, as between the suggestion
and its saving. (The fourth query, of costs, decides on service lines only.) A request is for a new
allocation or for a draft that is edited (`edits`), whose own items do not count as held. `Suggestion`
is the two loops of the code (as much as is needed and available, line by line, lot by lot) as recursive
functions of the answers; `SuggestionIsFifo` compares it with the interval of the demand that each lot
covers, a definition with no order of evaluation. `ItemFor` is the item as it is saved: one for each
lot, with the first line's id. `stale` and `loose` are histories of lots used behind a suggestion's back.

**TemplateVariants**: one document type; each endpoint is a read with its checks
(`VarBegins`) and a write by id; `setActive` is `ClearActive` then `SetActive` in one
transaction, whose partial unique index refuses a second active row.

**Sessions**: one user. `SignIn`, `FindSessions`, `DeleteSessions`, `CreateSession` are the
statements of a login; `Resolve`, `Rotate` a refresh; `OpenLink`, `WritePassword`,
`ResetOver`/`PurgeReplaced` a reset; `EndSession` and `EndOthers` sign-out and revocation.

**UserCache**: `Fill`/`Store` of the authentication strategy, `Change`/`Flush` of users and
roles, `Expire` after 60 s, and `Restart`, which empties the cache of the process.

**AgentActions**: `Scan`/`Propose`, and each review endpoint as a read and a write;
`Perform` creates the activity between the two, and `Throw` or a crash may follow it.

**AiCredentials**: one provider's row (providers have rows and locks of their own). `UpsertApiKey`,
`Disconnect`, `UpdateModel`; `ConsumeState`, `ExchangeCode`, `SaveConnection` are the
callback; `RefreshCredentialWithLock` joins the refresh under way or starts one, which reads the row
again, posts the refresh token and writes what comes back. Tokens are numbered; `honoured`
and `ended` are the provider's side, which may replace a refresh token when it is used, end a
connection, or be out of order. `HangsUp` is a timeout, a failed write or a restart. One
process: `refreshLocks` is a map in memory.

## 3. The runs

| Run | Module, cfg | Expect | States | Question |
|---|---|---|---|---|
| `stock_documents` | MCStockDocuments | pass | 440 000 | any two documents, two requests: see below |
| `double_confirm` | MCStockDoubleConfirm | violation | - | does stock equal the confirmed documents? |
| `count_moved` | MCStockCountMoved | violation | - | does a count know its warehouse's stock? |
| `allocation` | MCAllocationBeside | pass | 728 000 | two allocations and a transfer on the same lots; beside it suggestions, agent actions and an AI credential |
| `allocation_progress` | MCAllocationProgress | pass | 4 300 | does every request end? |
| `numbers_past_padding` | MCNumbersPastPadding | violation | - | numbers of a series sorted by number |
| `payments` | MCPayments | pass | 258 000 | limits under both endpoints, and progress |
| `payments_overtaken` | MCPaymentsOvertaken | violation | - | does a direct payment always fit the estimate? |
| `sales` | MCSalesPipeline | pass | 1 580 000 | do the statuses of quotes, contract and project agree? |
| `accepted_quote_reverted` | MCAcceptedReverted | violation | - | does an accepted quote stay accepted? |
| `side_by_side` | MCSideBySide | pass | 1 124 000 | numbers, BOMs, template variants, sessions, cache of rights |
| `allocated_twice` | MCAllocatedTwice | violation | - | is what a line has been given ever offered to it again? |

### What they show

*stock_documents.* `NoNegativeStock`: the conditional decrements suffice although the
pre-check and the lot query read without locks. `LotsBackBalance`: every unit of a balance
lies in a lot. `PostsWholeDocuments`: stock changes only by whole documents that become
CONFIRMED in the same step. `StockMatchesUnracedDocuments`: stock equals the opening stock
plus the confirmed documents unless two requests worked on one document.
`CostWithinPricesPaid`: concurrent averages may lose an update but never leave the range of
prices paid. `TransfersKeepDatedStock`: FIFO dates survive transfers. Bounds: two warehouses
(a transfer needs two), one material (materials do not interact, except by the order of
lines), two requests and two documents of any kind (every race is a pair), lots of one and
two dates, an issue of two lines. `LotIds` is the bound on lots: 7 leave room for both
documents; ids are not reused while a later one is in use, so a behaviour in which
rollbacks waste more of them stops there (`CreateLot` is disabled, `Abort` is not).

*allocation.* `AllocationsPostOnce`, `StockMatchesAllocations`, `ImplementsBook`: under the
project's lock a confirm posts once, an edit or a cancel racing it has no effect on what
was posted, and allocations of *different* projects (different locks) still agree on the
lots they share. Two clerks, one stock request. One payload takes from the second
warehouse and then from the first, the transfer updates the balance of the first and then of the
second, so that transactions wait for each other's rows in a circle; the other payload takes
all that lot 1 has, so that whoever comes later is refused.

*allocation, suggestion.* `SuggestionIsFifo`, for every mixture of answers. `DraftsFitUnlessLoose`:
the drafts can all be confirmed, whichever of them are, unless a lot was used by a stock document, or a
draft was saved that takes a lot of which another was saved after the query of the drafts, or confirmed
between the query of the lots and that of the drafts. The last case is the one nobody sees: the
confirmed quantity is neither taken off the lot yet nor held by a draft any more, and is offered again. The
opposite order counts it twice, which is harmless. `OffersOnlyMissingUnlessShared`: nothing
confirmed is offered again while the confirmed items read are the present ones, except where a lot
served two lines. Two lines of 1 and 2 units, two lots of 1 and 4, of which the one received last has the
earlier invoice, two sales dates: a lot serves two lines, a line takes two lots, and two drafts and a
third fit into the second lot or do not. `MaxLoose = 1` lot consumed elsewhere. Two bounds are explored side by
side (`side`): one client with three new allocations and the queries answered in any order, which is
what it takes to confirm one, keep one and save one between two answers; and two clients with two
allocations, new or edited, of which one at a time waits for answers (MCAllocationBeside).

*allocation, agents.* `RowsTellWhatWasDone`: an action is EXECUTED with one activity made
from the stored payload, or not executed with none, unless another request had read the
row, or the execution failed after the activity. `OneProposalUnlessScansCrossed`. Two actions of one
customer, two requests, one edit (`MaxEdits`), two activities of each action (`MaxMade`: a double execution).

*allocation, credential.* `CredentialHolds`: the refresh token in the row is one the provider honours,
or of a connection it has ended; ERROR stands for that or for a missing refresh token; an API key is
never mixed with the tokens of a connection. The exceptions are explicit: a row written while a refresh
waited for its answer (the code then writes the old connection's tokens over it), an answer that was an
outage or was lost. Two calls, one OAuth state waiting (`MaxOpen`), three refresh tokens (`MaxIssued`:
a connection, its refresh and a new connection).

*allocation_progress.* `AllRequestsEnd` with one allocation, a transfer and both clerks: the
waits for rows and for the project lock never last, since a cycle is broken by a victim.

*payments.* One project with its contract and a quote, two requests, values 0 and 2,
amounts 1 and 2, so every limit is reached, missed and exceeded; no request starts on a
project with more than `MaxPaid` already paid. `PaidWithinPeak`,
`DirectPaymentsFitUnlessOvertaken`, `PaymentsEnd`.

*sales.* One project, two quotes, a contract, two requests. `AcceptedStaysUnlessOvertaken`: only
a write by a request that had read the quote earlier can take an acceptance back.
`DatesMatchStatus`: sentAt and acceptedAt agree with the status through every edit,
copy, send and transition, although two helpers and `send` keep them. `ChosenItemsExist`: the
accepted items of an *accepted* quote are rows that exist, although an edit replaces all of them.
`VersionsDistinct`, `ContractFromAcceptedQuote`, `StageFollowsContract`,
`StampedUnlessOvertaken`. Clients ask for DRAFT or ACCEPTED quotes, ACTIVE or CANCELLED
contracts and the stage SURVEY; these are the statuses with effects of their own (an acceptance and
its reversal, won and lost); the others differ in the dates only.
`MaxOvertaken = 0`: no request *starts* after a row was overtaken, but requests under way still
end, so every race of two requests is complete; only what follows it is cut. `MaxRemoved = 1`: one quote or
contract is soft-deleted.

*side_by_side.* Numbers: base 3, width 1, four rows, batches of two, so the run passes the
padding, which ends at three numbers; three instants (`MaxTime = 2`), and one of the two series at a time,
as series share nothing. `NumbersAreNewUnlessMisled`: a number of `PN` (by number) is new until the padding
is used up, one of `PX` (by creation) while no earlier row is dated as late as the last one; deleted rows
and batches included. The exception for `PX` is real: without it TLC finds repeated numbers, when
the transaction that began first takes the lock last, when an allocation creates several issues in
one transaction, or in one millisecond. So the lock alone does not give what the comment at
`document-number.ts:7` says of it ("The advisory lock ensures sequential creation so createdAt desc is
reliable"). The unique index then refuses the create and, as the query goes on to find the same row, every
later one of the year (ties may be broken otherwise by chance).
BOMs: three of them, two requests, lines of a part, of free text, or of one sub-assembly;
the shortest cycle needs two, and a third shows one through a chain. `NoCycles`,
`ChildrenApprovedFirst` (why there are none), `ModelsComplete`, `ApprovedIsFrozen`,
`ChildrenLiveUnlessRaced` (a sub-assembly in use is not removed, unless a line with it was saved between
the count of its uses and its removal). Variants: three, two editors.
`PublishedIsSound`, `ActiveIsPublished`, `ServedUntilReplaced`. Sessions: three rows, two devices,
two resets, two tokens each. `OneSessionUnlessTwins`, `ResetEndsSessions`,
`EndedStaysEnded`. Cache: two users of one role, three requests, two changes.
`RightsAreCurrent`: a stale entry exists only while its flush is under way, or if the fill
that stored it began before the flush.

Symmetry is used only in runs without liveness properties, over identifiers which no
constant distinguishes. Deadlock is not checked, as the system may rest: all
requests idle and the bound on documents or rows reached. Waiting for ever is what the
liveness properties exclude instead.

### Findings (the six violation runs)

1. `double_confirm`: two confirms of one DRAFT (a double click) both find it DRAFT
   (`stock-receipts.service.ts:149`) and both post; the second only waits for the balance
   row. The four services share the pattern. The README promises a DRAFT -> CONFIRMED
   workflow that increases the balance on confirm.
2. `count_moved`: editing a draft count and changing its warehouse keeps the *old*
   warehouse's system quantities for materials already on it
   (`stock-counts.service.ts:127` keys them by material only), so the difference posted is
   not "actual - system".
3. `numbers_past_padding`: series that sort by number repeat `1000` after `999`
   (with one digit: `10` after `9`); the unique index then refuses every further document of the
   year. `document-number.ts:6` and `boms.service.ts:680` avoid this for PX and BOM; PN,
   PCT, KK, BG and HD do not.
4. `payments_overtaken`: the contracts endpoint takes only the contract's key
   (`contracts.service.ts:496`), so it can pay between the read and the insert of a direct payment
   of the same project, contrary to the comment at `projects.service.ts:1411-1416`.

5. `accepted_quote_reverted`: `send` settles the status to write from the quote it read
   (`quotes.service.ts:482`), renders and e-mails, and writes by id; `update` does likewise. A
   customer's acceptance in between is written back to SENT or DRAFT, although the same service refuses
   to leave ACCEPTED ("không thể chuyển về trạng thái trước đó", line 525).
6. `allocated_twice`: a lot that serves two lines of a BOM becomes one item with the id of the
   first line (`fifo-suggest.ts:195`), and the editor saves only that id
   (`frontend/app/(dashboard)/projects/_components/project-finance/allocation-batch-editor.tsx:144`). After the
   confirmation the second line is offered again, and the first counts as given more than it asked
   for; `docs/BOM_SPEC.md:98` subtracts what was confirmed "theo `bomLineId`".

### Fairness

`AllocFairSpec` and `Payments!FairSpec` ask for strong fairness of a request's own next
statement: Node.js resumes a handler whose query returned, and PostgreSQL queues the
waiters of a row or advisory lock, so a lock that is released again and again is granted
in turn. Clients are not obliged to send anything and nothing has to abort. Where
progress depends on the deadlock detector, its victim step is part of the fair action.

## 4. What is proved

Every invariant and action property that a passing run checks is also a theorem, for every
value of the constants; so is the refinement of `AllocationBook`. TLC has seen each on
small instances before. What stays with TLC is at the end of this section.

Assumptions, all named in the modules that declare the constants and evaluated by TLC in
the passing runs:

* identifiers are distinct and refer to what exists: `RequestsAreNotMarks`, `NoDocIsNone`,
  `NobodyIsNoRequest`, `FreeIsNoRequest`, `NoTargetIsNoRow`, `ClerksAreRequests`,
  `AllocationsHaveProjects`, `SeriesAssumption`;
* what clients send is what the DTO classes let through (at least one line, natural
  quantities and prices, statuses that are statuses), and limits and digits are numbers:
  `PayloadsAreDtos`, `WishesAreDtos`, `AccountsAssumption`, `MoneyAssumption`, `SalesAssumption`,
  `BomAssumption`, `LotIdsAreNumbers`, `DigitsAssumption`, `BoundsAssumption`, `FifoAssumption`;
* there is something to stock, and the database at the start is in order: no negative
  balance or lot, and the opening lots make up the opening balance (`SomethingToStock`,
  `OpeningIsStock`, `OpeningLotsBackBalance`);
* tables are finite, however large, since sums run over them: `TablesAreFinite` (lots,
  warehouses), `DocsAreFinite`, `AllocsAreFinite`, `BatchesAreFinite`.

### Sums without induction over data

Many of these properties are equalities of sums, and the sum operators of the community modules
are recursive functions chosen by `CHOOSE`. `Sums` proves that the recursion behind
`SumFunctionOnSet` has exactly one solution on a finite set (`SumExists`, `SumUnique`), and from that
the laws everything else cites: a term may be taken out of a sum, whichever it is (`SumWithout`),
sums add (`SumAdds`), one or two terms change (`SumOneChanges`, `SumTwoChange`), zeros
do not count (`SumOfPart`). The induction theorems of the library take an operator as a
parameter, which the provers do not instantiate; here every induction runs over a *set* of good
subsets (`SubsetInduction`) or over the least number of a set of counterexamples (`LeastNumber`),
both derived from the well-founded orders of the library. The same device shows that `power`
(DocumentNumbers) and the two nested recursions of `Suggestion` have one solution each.

### Stock (StockDocumentsProofs, StockLedgerProofs)

* `StockInvariant`, `StockTypes`, `StockNeverNegative`: `Spec => []NoNegativeStock` for any
  warehouses, materials, documents and requests. `NoNegativeStock` speaks of committed rows only and is
  not inductive: a commit could add a pending decrement it says nothing about. `TablesInv` adds that a
  row has at most one holder, that a change is pending only for its holder, and that committed value
  and pending change together are never negative; exclusiveness (`ChangesAreExclusive`) makes a
  commit safe for everybody else's pending changes. `RequestsInv` adds that a request is on a line
  its document has and that the lots it read still exist for it.
* `StockLedger` (`LedgerInv`), and from it `StockIsInLots` (`LotsBackBalance`),
  `ConfirmsPostWholeDocuments` (`PostsWholeDocuments`), `TransfersKeepDates`
  (`TransfersKeepDatedStock`). All three hold only between transactions; in the middle of one the
  lots run ahead of the balances on an issue and behind them on a receipt. `Ledger(p)` states at
  every program counter what the open transaction has pending: in the balances, the lines it is
  done with and the begun part of its line (`Posted`); in the lots, that and how far they are
  ahead (`Ahead`); and a transfer's lots have moved nothing out of their dates (`DatedRegion`). At
  `finish` nothing is ahead and all lines are posted, so a commit moves lots and balance
  by the same amount, which is the document's `Effect`; a rollback drops both. `OnItsKind` ties the
  program counter to the kind of the document, without which the cases do not close.
* `StockMatchesUnraced` (`StockMatchesUnracedDocuments`), with `Unraced`: while no document
  was raced, requests under way are on different documents, each of them still a DRAFT, and a
  confirm holds the lines that are stored.
* `CostsStayPaid` (`CostsInv`) and `CostStaysWithinPrices` (`CostWithinPricesPaid`): every
  cost price, committed, pending or read, lies between two prices paid. The weighted average
  stays between them only if the quantity received is at most the stock it is divided by; so
  the invariant carries that the stock read contains the receipt's own line, and that follows from the
  order of statements (`CreditReceipt` precedes `ReadStock`) and from `StockNeverNegative`.
* `DocumentsKeepTypes` (`TypeOK`) joins the types of tables, costs and requests.

### Allocations (MaterialAllocationProofs)

* `AllocationsInvariant`, `AllocationTypes`, `IssuesPostedOnce` (`AllocationsPostOnce`) and
  `SharedStockNeverNegative`. `ClerkOK`: inside the lock a clerk holds the row of the
  allocation's project, which nobody else can then hold, and the draft it has read is *still* the stored
  DRAFT. The second follows from the first step by step: only a holder of the project's row writes
  its allocations. This is why the check of the status under the lock is enough, and the one
  before it is not needed. Stock is shared *across* projects, so its proof rests on the rows.
* `AllocationLedger`, `SharedStockIsInLots` (`LotsBackBalance` next to documents): `ClerkLedger`
  is the ledger of a clerk, whose items are spent one by one (`Spent`) and owed by the balance between
  `TakeItem` and `DebitItem` (`Owed`).
* `StockMatchesBook` (`StockMatchesAllocations`) and `EndpointsImplementBook`
  (`AllocSpec => ImplementsBook`): initial states map to initial states, and every step is a
  stutter or one step of the book. Only two kinds of step are not stutters: those that write an allocation
  under the lock, and `FinishAlloc`, where `ClerkLedger` says that the balances change by exactly the draft's
  items and `ClerkOK` that this draft is the stored one. Documents beside it are the book's `Move`, which
  is why the map needs that no balance becomes negative.

### Payments, sales

* `PaymentsInvariant`, `NeverOverpaid` (`PaidWithinPeak`) and `DirectPaymentsFitTheEstimate`
  (PaymentsProofs). `PaidWithinPeak` is not inductive: `Post` relies on a total read two steps
  earlier. The invariant says that a request past its locks holds the key of its source
  (and, by the projects endpoint, of its project), that the total it has read is then still the total,
  unless it was overtaken, and that the limit it read is at most the peak.
* All seven properties of the run (SalesPipelineProofs): `AcceptancesStay`, `DatesFollowStatus`,
  `ChosenItemsStay`, `VersionsDiffer`, `ContractsKeepTheirQuote`, `StagesFollowContracts`,
  `StagesAreStamped`. The strengthening says what a request under way knows: what it wants fits its
  operation (`WantsFit`), and unless its row was written since, what it checked still holds (`ChecksHold`); a
  quote's items were chosen while it was accepted (`ChosenWhileAccepted`), and a version it read as the latest
  bounds those of the rows (`VersionsBounded`).

### Check, then write (CheckThenWriteProofs)

* Boms: `ApprovalOrder`, `BomsAreAcyclic`, `ApprovedModelsComplete`, `ApprovedStaysFrozen`. The search for
  cycles runs outside the transaction and could be overtaken, so it cannot be what prevents them. What does: a
  line names an approved BOM, only drafts get lines, and approval is final, so a sub-assembly was approved before
  its parent (`ChildrenApprovedFirst`, which also covers lines checked and not yet written). In a cycle the
  BOM approved last would be a child of a draft or of one approved before it.
  `SubAssembliesStay` (`ChildrenLiveUnlessRaced`) needs both sides of the race: lines under way
  name what is there (`LinesLive`), and what is about to be removed is used by nobody (`RemovalsKnown`).
* Sessions: `OneSession`, `ResetEndsThem`, `EndedSessionsStay`. `NoneBeside`: a sign-in about to create a
  session has seen the last one deleted, or has met the sign-in that created one. `ChecksPassword`,
  `SessionsKnowPassword`: a sign-in that met no reset knows the present password, and so does every session
  that is not `outlived` while no purge is due. UserCache: `CachedRightsAreCurrent`, from `FillsAreCurrent`.
* AiCredentials: `RefreshTokenHolds`, from `CredInv`: one refresh at a time has read the row, an
  undisturbed one works on the row as it stands, and the token of a connection about to be stored is
  nobody else's (or a refresh could use it up before it is stored).
* TemplateVariants: `PublishedLayoutsValidate`, `OneActivePublished`, `ServiceHasNoGap`, from
  `FreshReadsHold`: what a request checked still holds unless it is marked stale.
* AgentActions: `RowsTell`, `OneProposal`. `ReadersKnow`: whoever read a row that nobody crossed
  still sees it PENDING_REVIEW with the payload it read, and a single reviewer between activity and record has
  made just one; `ScansKnow`: a scan that met no other is right that nothing is waiting.
* DocumentNumbers: `NumbersStayNew` (`NumbersAreNewUnlessMisled`). The i-th row inserted has number i
  as long as the padding lasts (`NumbersOrdered`), deleted or not, because a wrong number is refused; a
  holder of the lock is alone with its series (`NumbersLocked`); below the padding text order is the order of
  numbers (`PaddedOrder`), and a row that is dated last alone is the one found, so the latest number is
  the number of rows. In between, a number that has been read is at most one more than there are rows
  (`NextFollows`). Past the padding the invariant says nothing about the
  numbers of a series sorted by number, not even that they are numbers: there the run `numbers_past_padding`
  shows what happens.

### Suggestions (FifoSuggestProofs)

`SuggestionsAreFifo` (`SuggestionIsFifo`) for any lines, lots and dates and any answers to the queries.
Segments of demand and of supply overlap in a `Cut`; a line's cuts with all older lots add up to what the
line has got so far (`CutsOfLine`, over the lots in order of age), a lot's cuts with the lines above to what
they have taken of it (`CutsOfLot`), and so the cut satisfies the equations of both recursions
(`CutsAddUp`). Oldest and newest of a set of lots exist (`OldestAndNewest`), so no other function does
(`RowSolved`, `SuggestionIsCut`). From the same closed form a suggestion takes no more than is available
of a lot nor needed by a line (`SuggestionFits`), which gives `OnlyMissingOffered`
(`OffersOnlyMissingUnlessShared`; `ItemTellsLine`: an item that is for one line says what the line has) and
`DraftsFit` (`DraftsFitUnlessLoose`). The latter is not inductive, as saving looks at what is left and not at
other drafts. `FifoInv` adds `AnswersFit` for every request that may be saved and every lot that nobody
used behind its back (`FitsLot`): with both answers, what the drafts of others hold and what was
read of the lot are together at most what is left and what was read of the drafts; with that of the lots
alone, what was read is at most what is left; with that of the drafts alone, what they hold is at most what
was read. An answer keeps this in either order (`RequestKeepsFifo`); a confirmation takes the same from what is
left and from what drafts hold, which the first form survives and the second does not, and that is the step
that marks the lot as stale (`LeavingKeepsFifo`).

### Only model-checked

Liveness (`AllRequestsEnd`, `PaymentsEnd`), which the provers cannot do. The six violation runs refute
properties that the theorems state with their exception (`...Unless...`).

## 5. Not modelled, and why

*Components.* Webhooks and domain events: in-memory fan-out with three attempts and no state
that others rely on; that a restart loses a delivery needs no model to see. Mailbox:
its hard part is the locking of the IMAP library and the server's protocol, which are not in this
repository; it stays in the list of hazards.
Documents and templates other than variants, reports, search, master data, uploads, push, SMS:
reads, formatting or single-row CRUD, where a model would restate the assignment. Frontend and MCP
server: clients of the same endpoints. Backup: a call of external tools. Most of the
code base is of these kinds (screens, forms, DTOs, rendering, listing), so the models
cover the parts where requests meet and only a small share of its lines.

*Parts of modelled components.*
* The header and the lines of a document are read by two SELECTs; the models read them at once.
* A client that times out and repeats a payment pays twice: nothing in the code identifies the
  repetition, so there is no rule to check.
* The number of a BOM version; the soft delete of a warehouse in use; the choice of the
  allocation by the legacy upsert before it takes the lock; direct costs of an allocation.
* Contract items, milestones, sales invoice dates and `completedAt`: written with
  the status by the same statements and read by nothing that decides.
* Sessions: tokens are distinct; the mail server that may check the password is left out, and so is a change of
  one's own password. UserCache: one process (the cache is static); others keep
  entries up to 60 s by design. `PermissionsGuard` has a second cache of 60 s that nothing invalidates
  (`permissions.guard.ts:79-116`); it is used only for a user the strategy found no permissions for, and
  guards are not modelled.
* AI credentials: the fields nothing reads back (scopes, token type, last error), the redirect
  addresses, and the calls of the models. Agent runs and chat messages, which only append rows.

## 6. Plan

Order: the stock ledger first (money and goods are lost there), then what else can lose
money (payments, numbers), then the state machines that are told by clients.

1. *Done*: stock tables and documents, allocations with their abstract book, suggestions,
   numbers, payments, the sales pipeline, BOMs, template variants, sessions, the cache of rights, agent
   actions, AI credentials; proofs of all their invariants and action properties.
2. Next, by value: the two SELECTs of a document (StockDocuments, with its proofs); the
   legacy upsert and direct costs (MaterialAllocation); milestones and contract items
   (SalesPipeline). A promise for the suggestions like AllocationBook, which `FifoSuggest` would use
   instead of its own one-step confirm.
3. If the external libraries are pinned down: the nested mailbox lock.
