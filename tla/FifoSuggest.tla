---------------------------- MODULE FifoSuggest ----------------------------
(***************************************************************************)
(* What suggestAllocation proposes for the BOM of a project                *)
(* (boms/fifo-suggest.ts), and what becomes of it: clients save it as a    *)
(* draft allocation and confirm or cancel that.  One material; a line's    *)
(* demand is what expandBomDemand adds up for it.  Saving, confirming and  *)
(* cancelling are one step each: module MaterialAllocation, which has      *)
(* their transactions, implements them (AllocationBook).  The queries of a *)
(* suggestion are sent together and share no transaction: each of them     *)
(* reads a state of its own, in any order, and others act in between.      *)
(***************************************************************************)
EXTENDS Integers, Sequences, FiniteSets, FiniteSetsExt, Functions

CONSTANTS
  Demand,          \* units of the material each line of the BOM asks for
  LotDate, LotSize,   \* lots in creation order: their invoice dates and sizes
  SalesDates,
  Batches, Askers, \* allocations to be, and the clients that ask
  MaxLoose         \* bound: no lot is consumed elsewhere once this many are loose

ASSUME FifoAssumption ==
  /\ Demand \in Seq(Nat) /\ LotDate \in Seq(Nat) /\ LotSize \in Seq(Nat)
  /\ Len(LotSize) = Len(LotDate) /\ SalesDates \subseteq Nat
ASSUME BatchesAreFinite == IsFiniteSet(Batches)

VARIABLES
  left,        \* StockLot.remainingQuantity; 0 before the receipt too
  batch,       \* allocations: status, and what each line takes from each lot
  asked,       \* what each client asked for, and what the queries have read for it
  loose        \* history: lots used without regard to the drafts that hold them

fifoVars == <<left, batch, asked, loose>>

Lines == DOMAIN Demand
Lots == DOMAIN LotDate
Nothing == [i \in Lines |-> [k \in Lots |-> 0]]
Queries == {"given", "lots", "drafts"}
\* edits: the draft to replace, if any; waits: queries without an answer; given,
\* lots, held: their answers; stale, a history: lots others have used since.
NotAsked == [on |-> FALSE, edits |-> {}, waits |-> {}, given |-> [i \in Lines |-> 0],
             lots |-> [k \in Lots |-> 0], held |-> [k \in Lots |-> 0], stale |-> {}]

FifoInit ==
  /\ left \in {[k \in Lots |-> IF k \in some THEN LotSize[k] ELSE 0] : some \in SUBSET Lots}
  /\ batch = [b \in Batches |-> [status |-> "none", takes |-> Nothing]]
  /\ asked = [c \in Askers |-> NotAsked]
  /\ loose = {}

-----------------------------------------------------------------------------
OnLot(takes, k) == SumFunction([i \in Lines |-> takes[i][k]])
OfLine(takes, i) == SumFunction([k \in Lots |-> takes[i][k]])
Having(status) == {b \in Batches : batch[b].status = status}

\* An allocation has one item per lot, and one line per item: the first.
LinesOn(takes, k) == {i \in Lines : takes[i][k] > 0}
LineOf(takes, k) == Min(LinesOn(takes, k))

\* Faulty variant: earlier allocations are not taken off the demand.
NoneAllocated(i) == 0
\* The quantities of confirmed items, by the line the item names.
ItemFor(takes, i, k) ==
  IF LinesOn(takes, k) # {} /\ LineOf(takes, k) = i THEN OnLot(takes, k) ELSE 0
AlreadyAllocated(i) ==
  SumFunctionOnSet([b \in Batches |-> SumFunction([k \in Lots |-> ItemFor(batch[b].takes, i, k)])],
                   Having("CONFIRMED"))
\* Faulty variant: drafts hold nothing.
NotReserved(k, edits) == 0
\* What drafts hold, except the one that is being edited.
Held(k, drafts) == SumFunctionOnSet([d \in Batches |-> OnLot(batch[d].takes, k)], drafts)
Reserved(k, edits) == Held(k, Having("DRAFT") \ edits)

\* From the answers r.
Needed(r, i) == Max({0, Demand[i] - r.given[i]})
Available(r, k) == Max({0, r.lots[k] - r.held[k]})
LotsOf(r) == {k \in Lots : r.lots[k] > 0}

\* Faulty variant: in the order of the receipts.
ByReceipt(j, k) == j < k
\* Oldest invoice first, then oldest receipt.
ByAge(j, k) == LotDate[j] < LotDate[k] \/ (LotDate[j] = LotDate[k] /\ j < k)

Before(k, lots) == {j \in lots : ByAge(j, k)}

\* suggestFifo: line after line, lot after lot, as much as both allow.
Suggestion(r) ==
  LET lots == LotsOf(r)
      take[i \in Lines] ==
        LET row[k \in lots] ==
              Min({Available(r, k) - SumFunction([h \in 1..(i-1) |-> take[h][k]]),
                   Needed(r, i) - SumFunction([j \in Before(k, lots) |-> row[j]])})
        IN  row
  IN  [i \in Lines |-> [k \in Lots |-> IF k \in lots THEN take[i][k] ELSE 0]]

-----------------------------------------------------------------------------
\* suggestAllocation, for a new allocation or for a draft.
Ask(c, edits) ==
  /\ ~asked[c].on /\ edits \subseteq Having("DRAFT")
  /\ asked' = [asked EXCEPT ![c] = [NotAsked EXCEPT !.on = TRUE, !.edits = edits,
                                                    !.waits = Queries]]
  /\ UNCHANGED <<left, batch, loose>>

\* The answers of the queries: the items of confirmed allocations,
QueryConfirmed(c) ==
  /\ "given" \in asked[c].waits
  /\ asked' = [asked EXCEPT ![c].waits = @ \ {"given"},
                            ![c].given = [i \in Lines |-> AlreadyAllocated(i)]]
  /\ UNCHANGED <<left, batch, loose>>
\* what is left of the lots invoiced by the day of the sale,
QueryLots(c, day) ==
  /\ "lots" \in asked[c].waits
  /\ asked' = [asked EXCEPT ![c].waits = @ \ {"lots"},
                            ![c].lots = [k \in Lots |-> IF LotDate[k] <= day THEN left[k] ELSE 0]]
  /\ UNCHANGED <<left, batch, loose>>
\* and the items of drafts.
QueryDrafts(c) ==
  /\ "drafts" \in asked[c].waits
  /\ asked' = [asked EXCEPT ![c].waits = @ \ {"drafts"},
                            ![c].held = [k \in Lots |-> Reserved(k, asked[c].edits)]]
  /\ UNCHANGED <<left, batch, loose>>

Ready(c) == asked[c].on /\ asked[c].waits = {}
UsedLots(takes) == {k \in Lots : OnLot(takes, k) > 0}
Enough(takes) == \A k \in Lots : OnLot(takes, k) <= left[k]
\* The lots are used after these queries of a client, and before those.
Disturb(lots, these, those) == [c \in Askers |->
  IF asked[c].on /\ these \cap asked[c].waits = {} /\ those \subseteq asked[c].waits
  THEN [asked[c] EXCEPT !.stale = @ \cup lots] ELSE asked[c]]

\* saveAllocation with the items of the suggestion, which looks at what is
\* left in the lots and not at what other drafts hold.
SaveSuggested(c, b) ==
  LET takes == Suggestion(asked[c]) IN
  /\ Ready(c)
  /\ \/ asked[c].edits = {} /\ batch[b].status = "none"
     \/ asked[c].edits = {b} /\ batch[b].status = "DRAFT"
  /\ takes # Nothing /\ Enough(takes)
  /\ batch' = [batch EXCEPT ![b] = [status |-> "DRAFT", takes |-> takes]]
  /\ asked' = [Disturb(UsedLots(takes), {"drafts"}, {}) EXCEPT ![c] = NotAsked]
  /\ loose' = loose \cup (asked[c].stale \cap UsedLots(takes))
  /\ UNCHANGED left
Forget(c) ==
  /\ asked[c].on /\ asked' = [asked EXCEPT ![c] = NotAsked]
  /\ UNCHANGED <<left, batch, loose>>

ConfirmBatch(b) ==
  /\ batch[b].status = "DRAFT" /\ Enough(batch[b].takes)
  /\ left' = [k \in Lots |-> left[k] - OnLot(batch[b].takes, k)]
  /\ batch' = [batch EXCEPT ![b].status = "CONFIRMED"]
  /\ asked' = Disturb(UsedLots(batch[b].takes), {"lots"}, {"drafts"})
  /\ UNCHANGED loose
CancelBatch(b) ==
  /\ batch[b].status = "DRAFT"
  /\ batch' = [batch EXCEPT ![b].status = "CANCELLED"]
  /\ UNCHANGED <<left, asked, loose>>

\* Stock documents: a lot is received, or some of it goes elsewhere.
Receive(k) ==
  /\ left[k] = 0 /\ \A b \in Batches : OnLot(batch[b].takes, k) = 0
  /\ k \notin loose
  /\ left' = [left EXCEPT ![k] = LotSize[k]]
  /\ UNCHANGED <<batch, asked, loose>>
Consume(k) ==
  /\ left[k] > 0 /\ Cardinality(loose) < MaxLoose
  /\ left' = [left EXCEPT ![k] = @ - 1]
  /\ loose' = loose \cup {k}
  /\ UNCHANGED <<batch, asked>>

FifoNext ==
  \/ \E c \in Askers, edits \in {{}} \cup {{b} : b \in Batches} : Ask(c, edits)
  \/ \E c \in Askers, day \in SalesDates : QueryLots(c, day)
  \/ \E c \in Askers : QueryConfirmed(c) \/ QueryDrafts(c) \/ Forget(c)
  \/ \E c \in Askers, b \in Batches : SaveSuggested(c, b)
  \/ \E b \in Batches : ConfirmBatch(b) \/ CancelBatch(b)
  \/ \E k \in Lots : Receive(k) \/ Consume(k)
FifoSpec == FifoInit /\ [][FifoNext]_fifoVars

-----------------------------------------------------------------------------
\* The suggestion is first in, first out (docs/BOM_SPEC.md, section 4): with supply
\* laid end to end by age and demand laid end to end by line, a line takes from
\* a lot exactly where the two overlap.
Overlap(r, i, k) ==
  LET Older(j) == LotDate[j] < LotDate[k] \/ (LotDate[j] = LotDate[k] /\ j < k)
      older == {j \in LotsOf(r) : Older(j)}
      before == SumFunction([j \in older |-> Available(r, j)])
      above == SumFunction([h \in 1..(i-1) |-> Needed(r, h)])
      end == Min({before + Available(r, k), above + Needed(r, i)})
  IN  Max({0, end - Max({before, above})})
SuggestionIsFifo ==
  \A c \in Askers : Ready(c) =>
    LET r == asked[c] IN
    Suggestion(r) = [i \in Lines |-> [k \in Lots |-> IF k \in LotsOf(r) THEN Overlap(r, i, k) ELSE 0]]

\* All drafts fit into the lots together, so that each can be confirmed whatever
\* becomes of the others, unless a stock document used the lot, or a draft was saved
\* that takes a lot of which another allocation was saved after the query of the
\* drafts, or confirmed between the query of the lots and that of the drafts.
DraftsFitUnlessLoose ==
  \A k \in Lots \ loose : Held(k, Having("DRAFT")) <= left[k]

\* While nothing is confirmed after the query of confirmed items, a line is offered no
\* more than confirmed allocations have left open of it (docs/BOM_SPEC.md, section 4) ...
Missing(i) ==
  LET given == SumFunctionOnSet([b \in Batches |-> OfLine(batch[b].takes, i)], Having("CONFIRMED"))
  IN  Max({0, Demand[i] - given})
UpToDate(c) == asked[c].given = [i \in Lines |-> AlreadyAllocated(i)]
OffersOnlyMissing ==
  \A c \in Askers :
    LET takes == Suggestion(asked[c]) IN
    Ready(c) /\ UpToDate(c) /\ takes # Nothing =>
      \A i \in Lines : OfLine(takes, i) <= Missing(i)
\* ... unless one of them took a lot for several lines, which its item cannot say.
Shared(b) == \E k \in Lots : Cardinality(LinesOn(batch[b].takes, k)) > 1
OffersOnlyMissingUnlessShared ==
  (\A b \in Having("CONFIRMED") : ~Shared(b)) => OffersOnlyMissing
=============================================================================
