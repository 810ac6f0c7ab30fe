---------------------------- MODULE StockTables ----------------------------
(***************************************************************************)
(* The tables of the stock ledger and the statements that the services of  *)
(* backend/src/inventory send to them inside an interactive transaction.   *)
(*                                                                         *)
(* PostgreSQL runs these transactions at READ COMMITTED.  A read sees the  *)
(* committed rows and the reader's own writes.  An UPDATE takes the row's  *)
(* lock until the transaction ends, waits for the lock if another          *)
(* transaction holds it, and evaluates its WHERE clause on the row it then *)
(* finds.  The writes of an open transaction are therefore kept apart from *)
(* the committed tables (dBalance, dLot, dCost) and holds says which rows  *)
(* it has locked; a commit merges them, a rollback drops them.             *)
(***************************************************************************)
EXTENDS Integers, FiniteSets

CONSTANTS
  Warehouses, Materials,
  LotIds,         \* primary keys of StockLot in creation order, 1..bound
  Requests,       \* the HTTP requests (one transaction each) in flight
  Projects        \* projects, for their advisory lock

ASSUME RequestsAreNotMarks == Requests \cap {"committed", "free"} = {}
ASSUME LotIdsAreNumbers == LotIds \subseteq Nat
ASSUME TablesAreFinite == IsFiniteSet(LotIds) /\ IsFiniteSet(Warehouses)
ASSUME SomethingToStock == Warehouses # {} /\ Materials # {}

VARIABLES
  balance,        \* StockBalance.quantity per (warehouse, material); 0 = no row
  lot,            \* StockLot rows
  cost,           \* Material.costPrice
  holds,          \* rows locked by each request
  dBalance,       \* uncommitted change of each balance
  dLot,           \* uncommitted amount taken from each lot
  dCost           \* uncommitted cost price, where the cost row is held

tables == <<balance, lot, cost>>
pending == <<holds, dBalance, dLot, dCost>>

Cells == Warehouses \X Materials
Rows == ({"balance"} \X Cells) \cup ({"lot"} \X LotIds)
          \cup ({"cost"} \X Materials) \cup ({"project"} \X Projects)

\* A lot id not in use.
FreeLot == [cell |-> CHOOSE c \in Cells : TRUE, date |-> 0, rem |-> 0, by |-> "free"]
Untouched == [c \in Cells |-> 0]
NothingTaken == [l \in LotIds |-> 0]

TablesTypeOK ==
  /\ balance \in [Cells -> Int]
  /\ lot \in [LotIds -> [cell : Cells, date : Nat, rem : Int,
                         by : Requests \cup {"committed", "free"}]]
  /\ holds \in [Requests -> SUBSET Rows]
  /\ dBalance \in [Requests -> [Cells -> Int]]
  /\ dLot \in [Requests -> [LotIds -> Int]]

CostsTypeOK ==
  /\ cost \in [Materials -> Int]
  /\ dCost \in [Requests -> [Materials -> Int]]

-----------------------------------------------------------------------------
(* What a statement of request p sees.                                     *)

Unlocked(p, row) == \A q \in Requests \ {p} : row \notin holds[q]
BalanceSeen(p, c) == balance[c] + dBalance[p][c]
LotSeen(p, l) == lot[l].rem - dLot[p][l]
Exists(p, l) == lot[l].by \in {"committed", p}
CostSeen(p, m) == IF <<"cost", m>> \in holds[p] THEN dCost[p][m] ELSE cost[m]

\* FIFO: orderBy [purchaseInvoiceDate asc, createdAt asc].
Older(k, l) == \/ lot[k].date < lot[l].date
               \/ lot[k].date = lot[l].date /\ k < l

\* findMany of the lots that may be consumed on a document dated d.
EligibleLots(p, c, d) ==
  {l \in LotIds : Exists(p, l) /\ lot[l].cell = c
                    /\ LotSeen(p, l) > 0 /\ lot[l].date <= d}

\* ensureSufficientStock: a read without a lock, only a pre-check.
Sufficient(p, c, q) == BalanceSeen(p, c) >= q

-----------------------------------------------------------------------------
(* Statements that write.                                                  *)

Hold(p, row) == holds' = [holds EXCEPT ![p] = @ \cup {row}]

\* adjustBalance, negative delta: decrement where quantity >= q.
DebitBalance(p, c, q) ==
  /\ Unlocked(p, <<"balance", c>>)
  /\ BalanceSeen(p, c) >= q
  /\ dBalance' = [dBalance EXCEPT ![p][c] = @ - q]
  /\ Hold(p, <<"balance", c>>)

DebitRefused(p, c, q) ==
  Unlocked(p, <<"balance", c>>) /\ BalanceSeen(p, c) < q

\* adjustBalance, positive delta: upsert with an increment.
CreditBalance(p, c, q) ==
  /\ Unlocked(p, <<"balance", c>>)
  /\ dBalance' = [dBalance EXCEPT ![p][c] = @ + q]
  /\ Hold(p, <<"balance", c>>)

\* updateMany of one lot where remainingQuantity >= q.
DecrementLot(p, l, q) ==
  /\ Unlocked(p, <<"lot", l>>)
  /\ LotSeen(p, l) >= q
  /\ dLot' = [dLot EXCEPT ![p][l] = @ + q]
  /\ Hold(p, <<"lot", l>>)

DecrementRefused(p, l, q) == Unlocked(p, <<"lot", l>>) /\ LotSeen(p, l) < q

\* The id a newly created lot gets: behind every lot created before it.
NextLot == {l \in LotIds : \A k \in LotIds : k >= l => lot[k].by = "free"}
IsNext(l) == l \in NextLot /\ \A k \in NextLot : l <= k

\* tx.stockLot.create; the bound of LotIds is the only guard.
CreateLot(p, c, d, q) ==
  \E l \in LotIds :
    /\ IsNext(l)
    /\ lot' = [lot EXCEPT ![l] = [cell |-> c, date |-> d, rem |-> q, by |-> p]]

\* tx.material.update of the cost price.
WriteCostPrice(p, m, price) ==
  /\ Unlocked(p, <<"cost", m>>)
  /\ dCost' = [dCost EXCEPT ![p][m] = price]
  /\ Hold(p, <<"cost", m>>)

-----------------------------------------------------------------------------
(* The end of a transaction.                                               *)

\* PostgreSQL's deadlock detector cancels a transaction of a cycle of waits,
\* where wanted[q] holds the row the next statement of q updates.
Deadlocked(p, wanted) ==
  LET waits(q, r) == q # r /\ wanted[q] \cap holds[r] # {}
  IN  \E S \in SUBSET Requests :
        p \in S /\ \A q \in S : /\ \E r \in S : waits(q, r)
                               /\ \E r \in S : waits(r, q)

\* Faulty variant: a session lock (pg_advisory_lock) outlives the transaction.
DropAllButProjectLock(p) ==
  /\ holds' = [holds EXCEPT ![p] = @ \cap ({"project"} \X Projects)]
  /\ dBalance' = [dBalance EXCEPT ![p] = Untouched]
  /\ dLot' = [dLot EXCEPT ![p] = NothingTaken]
  /\ dCost' = [dCost EXCEPT ![p] = [m \in Materials |-> 0]]

DropPending(p) ==
  /\ holds' = [holds EXCEPT ![p] = {}]
  /\ dBalance' = [dBalance EXCEPT ![p] = Untouched]
  /\ dLot' = [dLot EXCEPT ![p] = NothingTaken]
  /\ dCost' = [dCost EXCEPT ![p] = [m \in Materials |-> 0]]

CommitTx(p) ==
  /\ balance' = [c \in Cells |-> BalanceSeen(p, c)]
  /\ lot' = [l \in LotIds |->
               [lot[l] EXCEPT !.rem = LotSeen(p, l),
                              !.by = IF @ = p THEN "committed" ELSE @]]
  /\ cost' = [m \in Materials |-> CostSeen(p, m)]
  /\ DropPending(p)

\* Faulty variant: no transaction around the statements, nothing to roll back.
KeepWrites(p) == CommitTx(p)

RollbackTx(p) ==
  /\ lot' = [l \in LotIds |-> IF lot[l].by = p THEN FreeLot ELSE lot[l]]
  /\ DropPending(p)
  /\ UNCHANGED <<balance, cost>>
=============================================================================
