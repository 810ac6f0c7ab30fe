------------------------ MODULE StockDocumentsProofs ------------------------
(***************************************************************************)
(* No interleaving of the documents' requests makes a balance or a lot     *)
(* negative, for any documents, warehouses and number of requests.  First  *)
(* what the statements of StockTables keep true whoever runs them: row     *)
(* locks are exclusive, only the holder of a row has changed it, and what  *)
(* a request sees of a balance or a lot is never negative.  To this the    *)
(* invariant of the documents adds that a request is on a line its         *)
(* document has, and that the lots it read still exist for it.             *)
(***************************************************************************)
EXTENDS StockDocuments, Sums, SequenceTheorems

-----------------------------------------------------------------------------
(* The statements.                                                         *)

LocksInv ==
  /\ holds \in [Requests -> SUBSET Rows]
  /\ \A p, q \in Requests : p # q => holds[p] \cap holds[q] = {}

BalancesInv ==
  /\ balance \in [Cells -> Int]
  /\ dBalance \in [Requests -> [Cells -> Int]]
  /\ \A c \in Cells : balance[c] >= 0
  /\ \A p \in Requests, c \in Cells :
       /\ dBalance[p][c] # 0 => <<"balance", c>> \in holds[p]
       /\ BalanceSeen(p, c) >= 0

LotsInv ==
  /\ lot \in [LotIds -> [cell : Cells, date : Nat, rem : Int,
                         by : Requests \cup {"committed", "free"}]]
  /\ dLot \in [Requests -> [LotIds -> Int]]
  /\ \A l \in LotIds : lot[l].rem >= 0
  /\ \A p \in Requests, l \in LotIds :
       /\ dLot[p][l] # 0 => <<"lot", l>> \in holds[p] /\ Exists(p, l)
       /\ LotSeen(p, l) >= 0

TablesInv == LocksInv /\ BalancesInv /\ LotsInv

HoldsGrow == \A q \in Requests : holds[q] \subseteq holds'[q]
SameExistence == \A q \in Requests, l \in LotIds : Exists(q, l) => Exists(q, l)'

-----------------------------------------------------------------------------
\* A granted lock is the holder's alone.
LEMMA HoldKeepsLocks ==
  ASSUME LocksInv, NEW p \in Requests, NEW row \in Rows,
         Unlocked(p, row), Hold(p, row)
  PROVE  LocksInv' /\ HoldsGrow /\ row \in holds'[p]
BY DEF LocksInv, Unlocked, Hold, HoldsGrow

\* Locks alone do not disturb balances ...
LEMMA BalancesUntouched ==
  ASSUME BalancesInv, HoldsGrow, UNCHANGED <<balance, dBalance>>
  PROVE  BalancesInv'
BY DEF BalancesInv, HoldsGrow, BalanceSeen

\* ... nor lots.
LEMMA LotsUntouched ==
  ASSUME LotsInv, HoldsGrow, UNCHANGED <<lot, dLot>>
  PROVE  LotsInv' /\ SameExistence
BY DEF LotsInv, HoldsGrow, LotSeen, Exists, SameExistence

\* The rows that the statements lock.
LEMMA BalanceRow == \A c \in Cells : <<"balance", c>> \in Rows
BY DEF Rows

\* A lot is a row.
LEMMA LotRow == \A l \in LotIds : <<"lot", l>> \in Rows
BY DEF Rows

\* A cost price is a row.
LEMMA CostRow == \A m \in Materials : <<"cost", m>> \in Rows
BY DEF Rows

\* adjustBalance, negative delta: the WHERE clause keeps the balance seen from
\* going below zero, whatever the amount.
LEMMA DebitKeepsBalances ==
  ASSUME LocksInv, BalancesInv, NEW p \in Requests, NEW c \in Cells, NEW q \in Int,
         DebitBalance(p, c, q), balance' = balance
  PROVE  LocksInv' /\ HoldsGrow /\ BalancesInv'
<1>1. LocksInv' /\ HoldsGrow /\ <<"balance", c>> \in holds'[p]
  BY HoldKeepsLocks, BalanceRow DEF DebitBalance
<1>2. BalancesInv'
  BY <1>1 DEF BalancesInv, DebitBalance, BalanceSeen, HoldsGrow
<1> QED BY <1>1, <1>2

\* adjustBalance, other deltas.
LEMMA CreditKeepsBalances ==
  ASSUME LocksInv, BalancesInv, NEW p \in Requests, NEW c \in Cells, NEW q \in Nat,
         CreditBalance(p, c, q), balance' = balance
  PROVE  LocksInv' /\ HoldsGrow /\ BalancesInv'
<1>1. LocksInv' /\ HoldsGrow /\ <<"balance", c>> \in holds'[p]
  BY HoldKeepsLocks, BalanceRow DEF CreditBalance
<1>2. BalancesInv'
  BY <1>1 DEF BalancesInv, CreditBalance, BalanceSeen, HoldsGrow
<1> QED BY <1>1, <1>2

\* A new lot takes an id no row has, so nobody has touched it.
LEMMA NewLotIsUnknown ==
  ASSUME LotsInv, NEW p \in Requests, NEW c \in Cells, NEW d \in Nat,
         NEW q \in Nat, CreateLot(p, c, d, q)
  PROVE  \E n \in LotIds :
           /\ lot' = [lot EXCEPT ![n] = [cell |-> c, date |-> d, rem |-> q, by |-> p]]
           /\ \A r \in Requests : dLot[r][n] = 0 /\ ~Exists(r, n)
<1>1. PICK n \in LotIds : /\ lot[n].by = "free"
                          /\ lot' = [lot EXCEPT ![n] = [cell |-> c, date |-> d,
                                                        rem |-> q, by |-> p]]
  BY LotIdsAreNumbers DEF CreateLot, IsNext, NextLot
<1>2. \A r \in Requests : ~Exists(r, n)
  BY <1>1, RequestsAreNotMarks DEF Exists
<1>3. \A r \in Requests : dLot[r][n] = 0
  BY <1>2 DEF LotsInv
<1> QED BY <1>1, <1>2, <1>3

\* tx.stockLot.create keeps what is known of the lots.
LEMMA CreateKeepsLots ==
  ASSUME LotsInv, HoldsGrow, NEW p \in Requests, NEW c \in Cells, NEW d \in Nat,
         NEW q \in Nat, CreateLot(p, c, d, q), dLot' = dLot
  PROVE  LotsInv' /\ SameExistence
<1>1. PICK n \in LotIds :
         /\ lot' = [lot EXCEPT ![n] = [cell |-> c, date |-> d, rem |-> q, by |-> p]]
         /\ \A r \in Requests : dLot[r][n] = 0 /\ ~Exists(r, n)
  BY NewLotIsUnknown
<1>2. SameExistence
  BY <1>1 DEF SameExistence, Exists, LotsInv
<1>3. LotsInv'
  BY <1>1 DEF LotsInv, LotSeen, Exists, HoldsGrow
<1> QED BY <1>2, <1>3

\* The conditional decrement of a lot the request knows.
LEMMA DecrementKeepsLots ==
  ASSUME LocksInv, LotsInv, NEW p \in Requests, NEW l \in LotIds, NEW q \in Int,
         Exists(p, l), DecrementLot(p, l, q), lot' = lot
  PROVE  LocksInv' /\ HoldsGrow /\ LotsInv' /\ SameExistence
<1>1. LocksInv' /\ HoldsGrow /\ <<"lot", l>> \in holds'[p]
  BY HoldKeepsLocks, LotRow DEF DecrementLot
<1>2. SameExistence
  BY DEF SameExistence, Exists
<1>3. dLot' = [dLot EXCEPT ![p][l] = @ + q] /\ LotSeen(p, l) >= q
  BY DEF DecrementLot
<1>4. dLot' \in [Requests -> [LotIds -> Int]]
  BY <1>3 DEF LotsInv
<1>5. ASSUME NEW r \in Requests, NEW k \in LotIds
      PROVE  /\ dLot'[r][k] # 0 => <<"lot", k>> \in holds'[r] /\ Exists(r, k)'
             /\ LotSeen(r, k)' >= 0
  <2>1. CASE r = p /\ k = l
    BY <2>1, <1>1, <1>3 DEF LotsInv, LotSeen, Exists
  <2>2. CASE ~(r = p /\ k = l)
    <3>1. dLot'[r][k] = dLot[r][k]
      BY <2>2, <1>3 DEF LotsInv
    <3> QED BY <3>1, <1>1 DEF LotsInv, LotSeen, Exists, HoldsGrow
  <2> QED BY <2>1, <2>2
<1>6. LotsInv'
  BY <1>4, <1>5 DEF LotsInv
<1> QED BY <1>1, <1>2, <1>6

\* moveStockLots: the decrement together with the lot created at the target.
LEMMA MoveKeepsLots ==
  ASSUME LocksInv, LotsInv, NEW p \in Requests, NEW l \in LotIds, NEW q \in Nat,
         NEW c \in Cells, NEW d \in Nat,
         Exists(p, l), DecrementLot(p, l, q), CreateLot(p, c, d, q)
  PROVE  LocksInv' /\ HoldsGrow /\ LotsInv' /\ SameExistence
<1>1. LocksInv' /\ HoldsGrow /\ <<"lot", l>> \in holds'[p]
  BY HoldKeepsLocks, LotRow DEF DecrementLot
<1>2. PICK n \in LotIds :
         /\ lot' = [lot EXCEPT ![n] = [cell |-> c, date |-> d, rem |-> q, by |-> p]]
         /\ \A r \in Requests : dLot[r][n] = 0 /\ ~Exists(r, n)
  BY NewLotIsUnknown
<1>3. SameExistence
  BY <1>2 DEF SameExistence, Exists, LotsInv
<1>4. dLot' = [dLot EXCEPT ![p][l] = @ + q] /\ LotSeen(p, l) >= q
  BY DEF DecrementLot
<1>5. dLot' \in [Requests -> [LotIds -> Int]]
  BY <1>4 DEF LotsInv
<1>6. lot' \in [LotIds -> [cell : Cells, date : Nat, rem : Int,
                           by : Requests \cup {"committed", "free"}]]
  BY <1>2 DEF LotsInv
<1>7. /\ lot'[n].rem = q /\ n # l
      /\ \A k \in LotIds \ {n} : lot'[k] = lot[k]
  BY <1>2 DEF LotsInv
<1>8. ASSUME NEW r \in Requests, NEW k \in LotIds
      PROVE  /\ dLot'[r][k] # 0 => <<"lot", k>> \in holds'[r] /\ Exists(r, k)'
             /\ LotSeen(r, k)' >= 0
  <2>1. CASE r = p /\ k = l
    BY <2>1, <1>1, <1>4, <1>7 DEF LotsInv, LotSeen, Exists
  <2>2. CASE ~(r = p /\ k = l)
    <3>1. dLot'[r][k] = dLot[r][k]
      BY <2>2, <1>4 DEF LotsInv
    <3>2. CASE k = n
      BY <3>1, <3>2, <1>2, <1>7 DEF LotSeen
    <3>3. CASE k # n
      BY <3>1, <3>3, <1>1, <1>7 DEF LotsInv, LotSeen, Exists, HoldsGrow
    <3> QED BY <3>2, <3>3
  <2> QED BY <2>1, <2>2
<1>9. \A k \in LotIds : lot'[k].rem >= 0
  BY <1>7 DEF LotsInv
<1> QED BY <1>1, <1>3, <1>5, <1>6, <1>8, <1>9 DEF LotsInv

\* The locks after a transaction ended: its rows are free, the others stay.
LEMMA DropKeepsLocks ==
  ASSUME LocksInv, NEW p \in Requests, DropPending(p)
  PROVE  LocksInv'
BY DEF LocksInv, DropPending

\* Two requests never changed the same row.
LEMMA ChangesAreExclusive ==
  ASSUME TablesInv, NEW p \in Requests, NEW q \in Requests, p # q
  PROVE  /\ \A c \in Cells : dBalance[p][c] = 0 \/ dBalance[q][c] = 0
         /\ \A l \in LotIds : dLot[p][l] = 0 \/ dLot[q][l] = 0
<1>1. \A row : ~(row \in holds[p] /\ row \in holds[q])
  BY DEF TablesInv, LocksInv
<1>2. \A c \in Cells : dBalance[p][c] = 0 \/ dBalance[q][c] = 0
  BY <1>1 DEF TablesInv, BalancesInv
<1>3. \A l \in LotIds : dLot[p][l] = 0 \/ dLot[q][l] = 0
  BY <1>1 DEF TablesInv, LotsInv
<1> QED BY <1>2, <1>3

\* A commit publishes what the request saw; rows of others are not its own.
LEMMA CommitKeepsTables ==
  ASSUME TablesInv, NEW p \in Requests, CommitTx(p)
  PROVE  TablesInv' /\ \A q \in Requests \ {p}, l \in LotIds :
                          Exists(q, l) => Exists(q, l)'
<1> USE DEF TablesInv
<1>1. LocksInv'
  BY DropKeepsLocks DEF CommitTx
<1>2. BalancesInv'
  <2>1. \A c \in Cells : balance'[c] = BalanceSeen(p, c)
    BY DEF CommitTx
  <2>2. \A q \in Requests \ {p}, c \in Cells : dBalance[p][c] = 0 \/ dBalance[q][c] = 0
    BY ChangesAreExclusive
  <2>3. dBalance' = [dBalance EXCEPT ![p] = Untouched]
        /\ holds' = [holds EXCEPT ![p] = {}]
    BY DEF CommitTx, DropPending
  <2>4. balance' \in [Cells -> Int] /\ \A c \in Cells : balance'[c] >= 0
    <3>1. balance' = [c \in Cells |-> BalanceSeen(p, c)]
      BY DEF CommitTx
    <3>2. \A c \in Cells : BalanceSeen(p, c) \in Int /\ BalanceSeen(p, c) >= 0
      <4>1. \A c \in Cells : BalanceSeen(p, c) >= 0
        BY DEF BalancesInv
      <4>2. \A c \in Cells : BalanceSeen(p, c) \in Int
        BY DEF BalancesInv, BalanceSeen
      <4> QED BY <4>1, <4>2
    <3> QED BY <3>1, <3>2
  <2>5. dBalance' \in [Requests -> [Cells -> Int]]
    BY <2>3 DEF BalancesInv, Untouched
  <2>6. ASSUME NEW q \in Requests, NEW c \in Cells
        PROVE  /\ dBalance'[q][c] # 0 => <<"balance", c>> \in holds'[q]
               /\ BalanceSeen(q, c)' >= 0
    <3>1. CASE q = p
      <4>1. dBalance'[q][c] = 0
        BY <3>1, <2>3 DEF BalancesInv, Untouched
      <4> QED BY <4>1, <2>4 DEF BalanceSeen
    <3>2. CASE q # p
      BY <3>2, <2>1, <2>2, <2>3 DEF BalancesInv, LocksInv, BalanceSeen
    <3> QED BY <3>1, <3>2
  <2> QED BY <2>4, <2>5, <2>6 DEF BalancesInv
<1>3. LotsInv' /\ \A q \in Requests \ {p}, l \in LotIds : Exists(q, l) => Exists(q, l)'
  <2>1. \A l \in LotIds :
          /\ lot'[l].rem = LotSeen(p, l)
          /\ lot'[l].by = IF lot[l].by = p THEN "committed" ELSE lot[l].by
    BY DEF CommitTx, LotsInv
  <2>2. \A q \in Requests \ {p}, l \in LotIds : dLot[p][l] = 0 \/ dLot[q][l] = 0
    BY ChangesAreExclusive
  <2>3. dLot' = [dLot EXCEPT ![p] = NothingTaken]
        /\ holds' = [holds EXCEPT ![p] = {}]
    BY DEF CommitTx, DropPending
  <2>4. \A q \in Requests \ {p}, l \in LotIds : Exists(q, l) => Exists(q, l)'
    BY <2>1 DEF Exists
  <2>5. lot' \in [LotIds -> [cell : Cells, date : Nat, rem : Int,
                             by : Requests \cup {"committed", "free"}]]
    <3>1. lot' = [l \in LotIds |->
                    [lot[l] EXCEPT !.rem = LotSeen(p, l),
                                   !.by = IF @ = p THEN "committed" ELSE @]]
      BY DEF CommitTx
    <3>2. \A l \in LotIds : LotSeen(p, l) \in Int
      BY DEF LotsInv, LotSeen
    <3> QED BY <3>1, <3>2 DEF LotsInv
  <2>6. \A l \in LotIds : lot'[l].rem >= 0
    BY <2>1 DEF LotsInv
  <2>7. dLot' \in [Requests -> [LotIds -> Int]]
    BY <2>3 DEF LotsInv, NothingTaken
  <2>8. ASSUME NEW q \in Requests, NEW l \in LotIds
        PROVE  /\ dLot'[q][l] # 0 => <<"lot", l>> \in holds'[q] /\ Exists(q, l)'
               /\ LotSeen(q, l)' >= 0
    <3>1. CASE q = p
      <4>1. dLot'[q][l] = 0
        BY <3>1, <2>3 DEF LotsInv, NothingTaken
      <4> QED BY <4>1, <2>5, <2>6 DEF LotSeen
    <3>2. CASE q # p
      BY <3>2, <2>1, <2>2, <2>3, <2>4 DEF LotsInv, LocksInv, LotSeen
    <3> QED BY <3>1, <3>2
  <2> QED BY <2>4, <2>5, <2>6, <2>7, <2>8 DEF LotsInv
<1> QED BY <1>1, <1>2, <1>3

\* A rollback takes back the request's own lots and nothing of the others.
LEMMA RollbackKeepsTables ==
  ASSUME TablesInv, NEW p \in Requests, RollbackTx(p)
  PROVE  TablesInv' /\ \A q \in Requests \ {p}, l \in LotIds :
                          Exists(q, l) => Exists(q, l)'
<1> USE DEF TablesInv
<1>1. LocksInv'
  BY DropKeepsLocks DEF RollbackTx
<1>2. BalancesInv'
  <2>1. balance' = balance /\ dBalance' = [dBalance EXCEPT ![p] = Untouched]
        /\ holds' = [holds EXCEPT ![p] = {}]
    BY DEF RollbackTx, DropPending
  <2> QED BY <2>1 DEF BalancesInv, LocksInv, BalanceSeen, Untouched
<1>3. LotsInv' /\ \A q \in Requests \ {p}, l \in LotIds : Exists(q, l) => Exists(q, l)'
  <2>1. \A l \in LotIds : lot'[l] = IF lot[l].by = p THEN FreeLot ELSE lot[l]
    BY DEF RollbackTx
  <2>2. dLot' = [dLot EXCEPT ![p] = NothingTaken]
        /\ holds' = [holds EXCEPT ![p] = {}]
    BY DEF RollbackTx, DropPending
  <2>3. \A q \in Requests \ {p}, l \in LotIds : Exists(q, l) => Exists(q, l)'
    BY <2>1, RequestsAreNotMarks DEF Exists, LotsInv
  <2>4. FreeLot \in [cell : Cells, date : Nat, rem : Int,
                     by : Requests \cup {"committed", "free"}]
        /\ FreeLot.rem = 0
    <3>1. (CHOOSE c \in Cells : TRUE) \in Cells
      <4>1. PICK w \in Warehouses, m \in Materials : TRUE
        BY SomethingToStock
      <4>2. <<w, m>> \in Cells
        BY DEF Cells
      <4> QED BY <4>2, ChosenIsMember
    <3> QED BY <3>1 DEF FreeLot
  <2>5. lot' \in [LotIds -> [cell : Cells, date : Nat, rem : Int,
                             by : Requests \cup {"committed", "free"}]]
    BY <2>4 DEF RollbackTx, LotsInv
  <2>6. \A l \in LotIds : lot'[l].rem >= 0
    BY <2>1, <2>4 DEF LotsInv
  <2>7. dLot' \in [Requests -> [LotIds -> Int]]
    BY <2>2 DEF LotsInv, NothingTaken
  <2>8. ASSUME NEW q \in Requests, NEW l \in LotIds
        PROVE  /\ dLot'[q][l] # 0 => <<"lot", l>> \in holds'[q] /\ Exists(q, l)'
               /\ LotSeen(q, l)' >= 0
    <3>1. CASE q = p
      BY <3>1, <2>2, <2>5, <2>6 DEF LotsInv, LotSeen, NothingTaken
    <3>2. CASE q # p
      <4>1. dLot'[q][l] = dLot[q][l] /\ holds'[q] = holds[q]
        BY <3>2, <2>2 DEF LotsInv, LocksInv
      <4>2. dLot[q][l] # 0 => lot[l].by # p
        BY <3>2, RequestsAreNotMarks DEF LotsInv, Exists
      <4>3. LotSeen(q, l)' >= 0
        <5>1. CASE dLot[q][l] = 0
          BY <5>1, <4>1, <2>5, <2>6 DEF LotSeen
        <5>2. CASE dLot[q][l] # 0
          BY <5>2, <4>1, <4>2, <2>1 DEF LotsInv, LotSeen
        <5> QED BY <5>1, <5>2
      <4> QED BY <4>1, <4>3, <2>3, <3>2 DEF LotsInv
    <3> QED BY <3>1, <3>2
  <2> QED BY <2>3, <2>5, <2>6, <2>7, <2>8 DEF LotsInv
<1> QED BY <1>1, <1>2, <1>3
-----------------------------------------------------------------------------
(* Sums of lots.  A region is a set of pairs of a cell and an invoice date:  *)
(* what is committed there, and what a request's transaction adds to it.     *)
At(l) == <<lot[l].cell, lot[l].date>>
CommittedTerms(R) ==
  [l \in LotIds |-> IF At(l) \in R /\ lot[l].by = "committed" THEN lot[l].rem ELSE 0]
NetTerms(p, R) ==
  [l \in LotIds |-> IF At(l) \in R
                    THEN (IF lot[l].by = p THEN lot[l].rem ELSE 0) - dLot[p][l]
                    ELSE 0]
CommittedIn(R) == SumFunctionOnSet(CommittedTerms(R), LotIds)
NetIn(p, R) == SumFunctionOnSet(NetTerms(p, R), LotIds)

\* The terms and the sums are numbers.
LEMMA RegionSumsAreInts ==
  ASSUME LotsInv, NEW R
  PROVE  /\ \A l \in LotIds : CommittedTerms(R)[l] \in Int
         /\ \A p \in Requests, l \in LotIds : NetTerms(p, R)[l] \in Int
         /\ CommittedIn(R) \in Int
         /\ \A p \in Requests : NetIn(p, R) \in Int
<1>1. \A l \in LotIds : CommittedTerms(R)[l] \in Int
  BY DEF LotsInv, CommittedTerms
<1>2. \A p \in Requests, l \in LotIds : NetTerms(p, R)[l] \in Int
  BY DEF LotsInv, NetTerms
<1>3. IsFiniteSet(LotIds) /\ LotIds \in SUBSET LotIds
  BY TablesAreFinite
<1>4. CommittedIn(R) \in Int
  BY <1>1, <1>3, SumIsInt DEF CommittedIn
<1>5. \A p \in Requests : NetIn(p, R) \in Int
  BY <1>2, <1>3, SumIsInt DEF NetIn
<1> QED BY <1>1, <1>2, <1>4, <1>5

\* A request that has taken nothing and created nothing adds nothing.
LEMMA NothingDoneAddsNothing ==
  ASSUME NEW p \in Requests, dLot[p] = NothingTaken,
         \A l \in LotIds : lot[l].by # p, NEW R
  PROVE  NetIn(p, R) = 0
<1>1. \A l \in LotIds : NetTerms(p, R)[l] = 0
  BY DEF NetTerms, NothingTaken
<1> QED BY <1>1, TablesAreFinite, SumOfZeros DEF NetIn

\* Whose lots and whose takings are untouched adds what it did.
LEMMA LotsAloneKeepSums ==
  ASSUME LotsInv, lot' = lot, NEW p \in Requests, dLot'[p] = dLot[p], NEW R
  PROVE  NetIn(p, R)' = NetIn(p, R)
<1>1. \A l \in LotIds : NetTerms(p, R)'[l] = NetTerms(p, R)[l]
  BY DEF NetTerms, At
<1> QED BY <1>1, RegionSumsAreInts, TablesAreFinite, SumsAgree DEF NetIn

\* What the conditional decrement writes.
TakesFrom(p, l, q) == dLot' = [dLot EXCEPT ![p][l] = @ + q]

\* The conditional decrement takes from the region of the lot.
LEMMA DecrementMovesSums ==
  ASSUME LotsInv, NEW p \in Requests, NEW l \in LotIds, NEW q \in Int,
         TakesFrom(p, l, q), lot' = lot, NEW R
  PROVE  /\ CommittedIn(R)' = CommittedIn(R)
         /\ NetIn(p, R)' = NetIn(p, R) - (IF At(l) \in R THEN q ELSE 0)
         /\ \A r \in Requests \ {p} : NetIn(r, R)' = NetIn(r, R)
<1>1. CommittedIn(R)' = CommittedIn(R)
  BY DEF CommittedIn, CommittedTerms, At
<1>2. \A r \in Requests \ {p} : NetIn(r, R)' = NetIn(r, R)
  <2>1. \A r \in Requests \ {p} : dLot'[r] = dLot[r]
    BY DEF LotsInv, TakesFrom
  <2> QED BY <2>1, LotsAloneKeepSums
<1>3. NetIn(p, R)' = NetIn(p, R) - (IF At(l) \in R THEN q ELSE 0)
  <2>1. dLot'[p][l] = dLot[p][l] + q /\ \A k \in LotIds : k # l => dLot'[p][k] = dLot[p][k]
    BY DEF LotsInv, TakesFrom
  <2>2. \A k \in LotIds : k # l => NetTerms(p, R)'[k] = NetTerms(p, R)[k]
    BY <2>1 DEF NetTerms, At
  <2>3. NetTerms(p, R)'[l] = NetTerms(p, R)[l] - (IF At(l) \in R THEN q ELSE 0)
    BY <2>1 DEF NetTerms, At, LotsInv
  <2>4. \A k \in LotIds : NetTerms(p, R)[k] \in Int
    BY RegionSumsAreInts
  <2>5. NetTerms(p, R)'[l] \in Int
    BY <2>3, <2>4
  <2>6. NetIn(p, R)' = NetIn(p, R) + (NetTerms(p, R)'[l] - NetTerms(p, R)[l])
    BY <2>2, <2>4, <2>5, TablesAreFinite, SumOneChanges DEF NetIn
  <2>7. NetIn(p, R) \in Int
    BY RegionSumsAreInts
  <2> HIDE DEF NetTerms, NetIn, At
  <2> QED BY <2>3, <2>4, <2>6, <2>7
<1> QED BY <1>1, <1>2, <1>3

\* The row of a new lot, at an id nobody knows.
CreatesAt(n, p, c, d, q) ==
  /\ lot' = [lot EXCEPT ![n] = [cell |-> c, date |-> d, rem |-> q, by |-> p]]
  /\ \A r \in Requests : dLot[r][n] = 0 /\ ~Exists(r, n)

\* A new lot counts for its creator only, in the region it is created in.
LEMMA NewLotMovesSums ==
  ASSUME LotsInv, NEW p \in Requests, NEW n \in LotIds, NEW c \in Cells, NEW d \in Nat,
         NEW q \in Nat,
         CreatesAt(n, p, c, d, q), NEW R
  PROVE  /\ CommittedIn(R)' = CommittedIn(R)
         /\ \A r \in Requests \ {p} : dLot'[r] = dLot[r] => NetIn(r, R)' = NetIn(r, R)
         /\ NetTerms(p, R)[n] = 0
         /\ dLot'[p][n] = 0 =>
              NetTerms(p, R)'[n] = IF <<c, d>> \in R THEN q ELSE 0
         /\ \A l \in LotIds \ {n} : lot'[l] = lot[l]
<1>1. /\ lot'[n] = [cell |-> c, date |-> d, rem |-> q, by |-> p]
      /\ \A l \in LotIds : l # n => lot'[l] = lot[l]
  BY DEF LotsInv, CreatesAt
<1>2. p # "committed" /\ \A r \in Requests : lot[n].by # r /\ lot[n].by # "committed"
  BY RequestsAreNotMarks DEF Exists, CreatesAt
<1>3. \A l \in LotIds : CommittedTerms(R)'[l] = CommittedTerms(R)[l]
  BY <1>1, <1>2 DEF CommittedTerms, At
<1>4. CommittedIn(R)' = CommittedIn(R)
  BY <1>3, RegionSumsAreInts, TablesAreFinite, SumsAgree DEF CommittedIn
<1>5. \A r \in Requests : NetTerms(r, R)[n] = 0
  BY <1>2 DEF NetTerms, CreatesAt
<1>6. ASSUME NEW r \in Requests \ {p}, dLot'[r] = dLot[r]
      PROVE  NetIn(r, R)' = NetIn(r, R)
  <2>1. NetTerms(r, R)'[n] = 0
    BY <1>1, <1>6 DEF NetTerms, CreatesAt
  <2>2. \A l \in LotIds : l # n => NetTerms(r, R)'[l] = NetTerms(r, R)[l]
    BY <1>1, <1>6 DEF NetTerms, At
  <2>3. \A l \in LotIds : NetTerms(r, R)'[l] = NetTerms(r, R)[l]
    BY <1>5, <2>1, <2>2
  <2> QED BY <2>3, RegionSumsAreInts, TablesAreFinite, SumsAgree DEF NetIn
<1>7. dLot'[p][n] = 0 => NetTerms(p, R)'[n] = IF <<c, d>> \in R THEN q ELSE 0
  BY <1>1 DEF NetTerms, At
<1> QED BY <1>1, <1>4, <1>5, <1>6, <1>7, Zenon

\* tx.stockLot.create.
LEMMA CreateMovesSums ==
  ASSUME LotsInv, NEW p \in Requests, NEW c \in Cells, NEW d \in Nat, NEW q \in Nat,
         CreateLot(p, c, d, q), \A r \in Requests : dLot'[r] = dLot[r], NEW R
  PROVE  /\ CommittedIn(R)' = CommittedIn(R)
         /\ NetIn(p, R)' = NetIn(p, R) + (IF <<c, d>> \in R THEN q ELSE 0)
         /\ \A r \in Requests \ {p} : NetIn(r, R)' = NetIn(r, R)
<1>1. PICK n \in LotIds : CreatesAt(n, p, c, d, q)
  BY NewLotIsUnknown DEF CreatesAt
<1>2. /\ CommittedIn(R)' = CommittedIn(R)
      /\ \A r \in Requests \ {p} : NetIn(r, R)' = NetIn(r, R)
      /\ NetTerms(p, R)[n] = 0
      /\ NetTerms(p, R)'[n] = IF <<c, d>> \in R THEN q ELSE 0
      /\ \A l \in LotIds \ {n} : lot'[l] = lot[l]
  <2>1. dLot'[p][n] = 0
    BY <1>1 DEF CreatesAt
  <2>2. \A r \in Requests \ {p} : dLot'[r] = dLot[r]
    OBVIOUS
  <2>3. CommittedIn(R)' = CommittedIn(R)
    BY <1>1, NewLotMovesSums
  <2>4. \A r \in Requests \ {p} : NetIn(r, R)' = NetIn(r, R)
    BY <1>1, <2>2, NewLotMovesSums
  <2>5. NetTerms(p, R)'[n] = IF <<c, d>> \in R THEN q ELSE 0
    BY <1>1, <2>1, NewLotMovesSums
  <2>6. \A l \in LotIds \ {n} : lot'[l] = lot[l]
    BY <1>1, NewLotMovesSums
  <2>7. NetTerms(p, R)[n] = 0
    BY <1>1 DEF CreatesAt, NetTerms, Exists
  <2> QED BY <2>3, <2>4, <2>5, <2>6, <2>7
<1>3. \A l \in LotIds : l # n => NetTerms(p, R)'[l] = NetTerms(p, R)[l]
  BY <1>2 DEF NetTerms, At
<1>4. \A l \in LotIds : NetTerms(p, R)[l] \in Int
  BY RegionSumsAreInts
<1>5. NetTerms(p, R)'[n] \in Int
  BY <1>2
<1>6. NetIn(p, R)' = NetIn(p, R) + (NetTerms(p, R)'[n] - NetTerms(p, R)[n])
  BY <1>3, <1>4, <1>5, TablesAreFinite, SumOneChanges DEF NetIn
<1>7. NetIn(p, R) \in Int
  BY RegionSumsAreInts
<1> HIDE DEF NetTerms, NetIn
<1> QED BY <1>2, <1>6, <1>7

\* moveStockLots: out of the region of the one lot, into that of the other.
LEMMA MoveMovesSums ==
  ASSUME LotsInv, NEW p \in Requests, NEW l \in LotIds, NEW q \in Nat, NEW c \in Cells,
         NEW d \in Nat, Exists(p, l), CreateLot(p, c, d, q),
         TakesFrom(p, l, q), NEW R
  PROVE  /\ CommittedIn(R)' = CommittedIn(R)
         /\ NetIn(p, R)' = NetIn(p, R) + (IF <<c, d>> \in R THEN q ELSE 0)
                                       - (IF At(l) \in R THEN q ELSE 0)
         /\ \A r \in Requests \ {p} : NetIn(r, R)' = NetIn(r, R)
<1>1. PICK n \in LotIds : CreatesAt(n, p, c, d, q)
  BY NewLotIsUnknown DEF CreatesAt
<1>2. n # l
  BY <1>1 DEF CreatesAt
<1>3. /\ \A r \in Requests \ {p} : dLot'[r] = dLot[r]
      /\ dLot'[p][l] = dLot[p][l] + q
      /\ \A k \in LotIds : k # l => dLot'[p][k] = dLot[p][k]
  BY DEF LotsInv, TakesFrom
<1>4. /\ CommittedIn(R)' = CommittedIn(R)
      /\ \A r \in Requests \ {p} : NetIn(r, R)' = NetIn(r, R)
      /\ NetTerms(p, R)[n] = 0
      /\ NetTerms(p, R)'[n] = IF <<c, d>> \in R THEN q ELSE 0
      /\ \A k \in LotIds \ {n} : lot'[k] = lot[k]
  <2>1. dLot'[p][n] = 0
    BY <1>1, <1>2, <1>3 DEF CreatesAt
  <2>2. CommittedIn(R)' = CommittedIn(R)
    BY <1>1, NewLotMovesSums
  <2>3. \A r \in Requests \ {p} : NetIn(r, R)' = NetIn(r, R)
    BY <1>1, <1>3, NewLotMovesSums
  <2>4. NetTerms(p, R)'[n] = IF <<c, d>> \in R THEN q ELSE 0
    BY <1>1, <2>1, NewLotMovesSums
  <2>5. \A k \in LotIds \ {n} : lot'[k] = lot[k]
    BY <1>1, NewLotMovesSums
  <2>6. NetTerms(p, R)[n] = 0
    BY <1>1 DEF CreatesAt, NetTerms, Exists
  <2> QED BY <2>2, <2>3, <2>4, <2>5, <2>6
<1> DEFINE f == NetTerms(p, R)
           g == NetTerms(p, R)'
<1>5. \A k \in LotIds : f[k] \in Int
  BY RegionSumsAreInts
<1>6. g[l] = f[l] - (IF At(l) \in R THEN q ELSE 0)
  <2>1. lot'[l] = lot[l] /\ dLot'[p][l] = dLot[p][l] + q
    BY <1>2, <1>3, <1>4
  <2>2. lot[l].rem \in Int /\ dLot[p][l] \in Int
    BY DEF LotsInv
  <2> QED BY <2>1, <2>2 DEF NetTerms, At
<1>7. \A k \in LotIds : k # l /\ k # n => g[k] = f[k]
  BY <1>3, <1>4 DEF NetTerms, At
<1>8. g[n] \in Int /\ f[n] = 0
  BY <1>4
<1> HIDE DEF f, g
<1>9. g[l] \in Int
  BY <1>5, <1>6
<1>10. SumFunctionOnSet(g, LotIds) =
         SumFunctionOnSet(f, LotIds) + (g[l] - f[l]) + (g[n] - f[n])
  <2>1. \A k \in LotIds : f[k] \in Int /\ g[k] \in Int
    BY <1>5, <1>7, <1>8, <1>9
  <2>2. TwoChange(f, g, LotIds, l, n)
    BY <1>2, <1>7, <2>1 DEF TwoChange
  <2> QED BY <2>2, TablesAreFinite, SumTwoChange
<1>11. SumFunctionOnSet(f, LotIds) \in Int
  BY <1>5, TablesAreFinite, SumIsInt
<1>12. SumFunctionOnSet(g, LotIds) =
         SumFunctionOnSet(f, LotIds) + g[n] - (IF At(l) \in R THEN q ELSE 0)
  BY <1>5, <1>6, <1>8, <1>10, <1>11
<1>13. NetIn(p, R)' = NetIn(p, R) + g[n] - (IF At(l) \in R THEN q ELSE 0)
  BY <1>12 DEF NetIn, f, g
<1>14. g[n] = IF <<c, d>> \in R THEN q ELSE 0
  BY <1>4 DEF g
<1> QED BY <1>4, <1>13, <1>14

\* A commit turns what the request added into committed stock.
LEMMA CommitMovesSums ==
  ASSUME TablesInv, NEW p \in Requests, CommitTx(p), NEW R
  PROVE  /\ CommittedIn(R)' = CommittedIn(R) + NetIn(p, R)
         /\ NetIn(p, R)' = 0
         /\ \A r \in Requests \ {p} : NetIn(r, R)' = NetIn(r, R)
<1> USE DEF TablesInv
<1>1. \A l \in LotIds :
        /\ lot'[l].cell = lot[l].cell /\ lot'[l].date = lot[l].date
        /\ lot'[l].rem = LotSeen(p, l)
        /\ lot'[l].by = IF lot[l].by = p THEN "committed" ELSE lot[l].by
  BY DEF CommitTx, LotsInv
<1>2. /\ dLot'[p] = NothingTaken /\ \A r \in Requests \ {p} : dLot'[r] = dLot[r]
  BY DEF CommitTx, DropPending, LotsInv
<1>3. \A l \in LotIds : dLot[p][l] # 0 => lot[l].by \in {"committed", p}
  BY DEF LotsInv, Exists
<1>4. p # "committed"
  BY RequestsAreNotMarks
<1>5. ASSUME NEW l \in LotIds
      PROVE  CommittedTerms(R)'[l] = CommittedTerms(R)[l] + NetTerms(p, R)[l]
  <2>1. lot[l].rem \in Int /\ dLot[p][l] \in Int
    BY DEF LotsInv
  <2>2. At(l)' = At(l)
    BY <1>1 DEF At
  <2>3. CASE lot[l].by = p
    BY <1>1, <1>4, <2>1, <2>2, <2>3 DEF CommittedTerms, NetTerms, LotSeen
  <2>4. CASE lot[l].by = "committed"
    BY <1>1, <1>4, <2>1, <2>2, <2>4 DEF CommittedTerms, NetTerms, LotSeen
  <2>5. CASE lot[l].by \notin {"committed", p}
    <3>1. dLot[p][l] = 0 /\ lot'[l].by # "committed"
      BY <1>1, <1>3, <2>1, <2>5
    <3> QED BY <3>1, <2>2, <2>5 DEF CommittedTerms, NetTerms
  <2> QED BY <2>3, <2>4, <2>5
<1>6. CommittedIn(R)' = CommittedIn(R) + NetIn(p, R)
  BY <1>5, RegionSumsAreInts, TablesAreFinite, SumAdds DEF CommittedIn, NetIn
<1>7. NetIn(p, R)' = 0
  <2>1. \A l \in LotIds : NetTerms(p, R)'[l] = 0
    BY <1>1, <1>2, <1>4 DEF NetTerms, NothingTaken
  <2> QED BY <2>1, TablesAreFinite, SumOfZeros DEF NetIn
<1>8. ASSUME NEW r \in Requests \ {p}
      PROVE  NetIn(r, R)' = NetIn(r, R)
  <2>1. r # "committed"
    BY RequestsAreNotMarks
  <2>2. \A l \in LotIds : lot[l].by = r => dLot[p][l] = 0
    BY <1>3, <2>1
  <2>3. ASSUME NEW l \in LotIds
        PROVE  NetTerms(r, R)'[l] = NetTerms(r, R)[l]
    <3>1. At(l)' = At(l) /\ dLot'[r][l] = dLot[r][l]
      BY <1>1, <1>2 DEF At
    <3>2. lot'[l].by = r <=> lot[l].by = r
      BY <1>1, <2>1
    <3>3. lot[l].by = r => lot'[l].rem = lot[l].rem
      BY <1>1, <2>2 DEF LotSeen, LotsInv
    <3> QED BY <3>1, <3>2, <3>3 DEF NetTerms
  <2> QED BY <2>3, RegionSumsAreInts, TablesAreFinite, SumsAgree DEF NetIn
<1> QED BY <1>6, <1>7, <1>8

\* A rollback changes nothing that is committed.
LEMMA RollbackMovesSums ==
  ASSUME TablesInv, NEW p \in Requests, RollbackTx(p), NEW R
  PROVE  /\ CommittedIn(R)' = CommittedIn(R)
         /\ NetIn(p, R)' = 0
         /\ \A r \in Requests \ {p} : NetIn(r, R)' = NetIn(r, R)
<1> USE DEF TablesInv
<1>1. \A l \in LotIds : lot'[l] = IF lot[l].by = p THEN FreeLot ELSE lot[l]
  BY DEF RollbackTx
<1>2. /\ dLot'[p] = NothingTaken /\ \A r \in Requests \ {p} : dLot'[r] = dLot[r]
  BY DEF RollbackTx, DropPending, LotsInv
<1>3. FreeLot.by = "free" /\ p # "committed" /\ \A r \in Requests : r # "free"
  BY RequestsAreNotMarks DEF FreeLot
<1>4. \A l \in LotIds : CommittedTerms(R)'[l] = CommittedTerms(R)[l]
  BY <1>1, <1>3 DEF CommittedTerms, At
<1>5. CommittedIn(R)' = CommittedIn(R)
  BY <1>4, RegionSumsAreInts, TablesAreFinite, SumsAgree DEF CommittedIn
<1>6. NetIn(p, R)' = 0
  <2>1. \A l \in LotIds : NetTerms(p, R)'[l] = 0
    BY <1>1, <1>2, <1>3 DEF NetTerms, NothingTaken
  <2> QED BY <2>1, TablesAreFinite, SumOfZeros DEF NetIn
<1>7. ASSUME NEW r \in Requests \ {p}
      PROVE  NetIn(r, R)' = NetIn(r, R)
  <2>1. \A l \in LotIds : lot[l].by = p => dLot[r][l] = 0
    BY <1>3 DEF LotsInv, Exists
  <2>2. \A l \in LotIds : NetTerms(r, R)'[l] = NetTerms(r, R)[l]
    BY <1>1, <1>2, <1>3, <2>1 DEF NetTerms, At
  <2> QED BY <2>2, RegionSumsAreInts, TablesAreFinite, SumsAgree DEF NetIn
<1> QED BY <1>5, <1>6, <1>7

-----------------------------------------------------------------------------
\* A lot a request knows of keeps its cell and its date.
KnownLotsStay(q) ==
  \A l \in LotIds : Exists(q, l) =>
    /\ Exists(q, l)'
    /\ lot'[l].cell = lot[l].cell /\ lot'[l].date = lot[l].date

\* New lots take unused ids.
LEMMA CreateKeepsPlaces ==
  ASSUME LotsInv, NEW p \in Requests, NEW c \in Cells, NEW d \in Nat, NEW q \in Nat,
         lot' = lot \/ CreateLot(p, c, d, q)
  PROVE  \A r \in Requests : KnownLotsStay(r)
<1>1. CASE lot' = lot
  BY <1>1 DEF KnownLotsStay, Exists
<1>2. CASE CreateLot(p, c, d, q)
  <2>1. PICK n \in LotIds : CreatesAt(n, p, c, d, q)
    BY <1>2, NewLotIsUnknown DEF CreatesAt
  <2>2. \A r \in Requests, l \in LotIds : Exists(r, l) => lot'[l] = lot[l]
    BY <2>1 DEF CreatesAt, LotsInv
  <2> QED BY <2>2 DEF KnownLotsStay, Exists
<1> QED BY <1>1, <1>2

\* The end of a transaction leaves the lots of the others where they are.
LEMMA EndsKeepPlaces ==
  ASSUME TablesInv, NEW p \in Requests, CommitTx(p) \/ RollbackTx(p)
  PROVE  \A q \in Requests \ {p} : KnownLotsStay(q)
<1> SUFFICES ASSUME NEW q \in Requests \ {p} PROVE KnownLotsStay(q)
  OBVIOUS
<1>1. CASE CommitTx(p)
  <2>1. \A l \in LotIds : lot'[l].cell = lot[l].cell /\ lot'[l].date = lot[l].date
    BY <1>1 DEF CommitTx, TablesInv, LotsInv
  <2>2. \A l \in LotIds : Exists(q, l) => Exists(q, l)'
    BY <1>1, CommitKeepsTables
  <2> QED BY <2>1, <2>2 DEF KnownLotsStay
<1>2. CASE RollbackTx(p)
  <2>1. \A l \in LotIds : lot'[l] = IF lot[l].by = p THEN FreeLot ELSE lot[l]
    BY <1>2 DEF RollbackTx
  <2>2. \A l \in LotIds : Exists(q, l) => lot[l].by # p
    BY RequestsAreNotMarks DEF Exists
  <2>3. \A l \in LotIds : Exists(q, l) => Exists(q, l)'
    BY <1>2, RollbackKeepsTables
  <2> QED BY <2>1, <2>2, <2>3 DEF KnownLotsStay
<1> QED BY <1>1, <1>2

-----------------------------------------------------------------------------
(* The documents.                                                          *)

DocsInv ==
  /\ doc \in [Docs -> [status : {"none", "DRAFT", "CONFIRMED", "CANCELLED"},
                       deleted : BOOLEAN, body : Body]]
  /\ raced \subseteq Docs
  /\ \A d \in Docs : doc[d].status = "DRAFT" => doc[d].body.lines # <<>>

OnItsLine(r) == r.d \in Docs /\ r.i \in 1..Len(r.body.lines)
RequestsInv ==
  /\ req \in [Requests -> Request]
  /\ \A p \in Requests : req[p].pc # "idle" => OnItsLine(req[p])
  /\ \A p \in Requests, l \in LotIds : req[p].read[l] # 0 => Exists(p, l)

StockInv == TablesInv /\ DocsInv /\ RequestsInv
-----------------------------------------------------------------------------
\* Only request p moves on; whatever a request has read still exists for it.
LEMMA RequestMoves ==
  ASSUME RequestsInv, NEW p \in Requests, NEW r \in Request,
         r.pc # "idle" => OnItsLine(r),
         \A l \in LotIds : r.read[l] # 0 => Exists(p, l)',
         \A q \in Requests \ {p}, l \in LotIds : Exists(q, l) => Exists(q, l)',
         req' = [req EXCEPT ![p] = r]
  PROVE  RequestsInv'
<1>1. req' \in [Requests -> Request]
  BY DEF RequestsInv
<1>2. req'[p] = r /\ \A q \in Requests \ {p} : req'[q] = req[q]
  BY DEF RequestsInv
<1>3. \A q \in Requests : req'[q].pc # "idle" => OnItsLine(req'[q])
  BY <1>2 DEF RequestsInv
<1>4. ASSUME NEW q \in Requests, NEW l \in LotIds, req'[q].read[l] # 0
      PROVE  Exists(q, l)'
  <2>1. CASE q = p
    BY <1>2, <1>4, <2>1
  <2>2. CASE q # p
    BY <1>2, <1>4, <2>2 DEF RequestsInv
  <2> QED BY <2>1, <2>2
<1> QED BY <1>1, <1>3, <1>4 DEF RequestsInv

\* The loop over the lines stays on the lines.
LEMMA AfterStaysOnLines ==
  ASSUME NEW r \in Request, OnItsLine(r), NEW here \in Steps, NEW next \in Steps
  PROVE  /\ After(r, here, next) \in Request
         /\ OnItsLine(After(r, here, next))
         /\ After(r, here, next).read = r.read
<1>1. r.body.lines \in Seq(Line)
  BY DEF Request, Body
<1>2. Len(r.body.lines) \in Nat
  BY <1>1, LenProperties
<1>3. ASSUME NEW i \in 1..Len(r.body.lines), NEW pc \in Steps
      PROVE  LET s == [r EXCEPT !.i = i, !.pc = pc]
             IN  s \in Request /\ OnItsLine(s) /\ s.read = r.read
  <2> DEFINE s == [r EXCEPT !.i = i, !.pc = pc]
  <2>1. i \in Nat /\ pc \in Steps \cup {"idle"}
    BY <1>2
  <2>2. s \in Request
    BY <2>1 DEF Request
  <2>3. s.d = r.d /\ s.i = i /\ s.body = r.body /\ s.read = r.read
    BY DEF Request
  <2> QED BY <2>2, <2>3 DEF OnItsLine
<1>4. CASE r.i < Len(r.body.lines)
  <2>1. r.i + 1 \in 1..Len(r.body.lines)
    BY <1>2, <1>4 DEF OnItsLine
  <2> QED BY <1>3, <1>4, <2>1 DEF After
<1>5. CASE ~(r.i < Len(r.body.lines))
  <2>1. 1 \in 1..Len(r.body.lines)
    BY <1>2 DEF OnItsLine
  <2> QED BY <1>3, <1>5, <2>1 DEF After
<1> QED BY <1>4, <1>5

\* The line a request is on is a line.
LEMMA CurrentIsLine ==
  ASSUME RequestsInv, NEW p \in Requests, req[p].pc # "idle"
  PROVE  /\ OnItsLine(req[p]) /\ req[p] \in Request /\ req[p].body \in Body
         /\ Current(p) \in Line /\ Current(p).q \in Nat /\ Diff(Current(p)) \in Int
         /\ Source(p) \in Cells /\ Target(p) \in Cells
         /\ Required(p) \in Int /\ req[p].body.date \in Nat
<1>1. OnItsLine(req[p]) /\ req[p] \in Request
  BY DEF RequestsInv
<1>2. req[p].body \in Body
  BY <1>1 DEF Request
<1>3. Current(p) \in Line
  BY <1>1, <1>2, ElementOfSeq DEF Current, OnItsLine, Body
<1>4. /\ Current(p).q \in Nat /\ Current(p).m \in Materials /\ Current(p).sys \in Int
  BY <1>3 DEF Line
<1>5. /\ req[p].body.from \in Warehouses /\ req[p].body.to \in Warehouses
      /\ req[p].body.date \in Nat
  BY <1>2 DEF Body
<1>6. Source(p) \in Cells /\ Target(p) \in Cells
  BY <1>4, <1>5 DEF Source, Target, Cells
<1>7. Diff(Current(p)) \in Int
  BY <1>4 DEF Diff
<1>8. Required(p) \in Int
  BY <1>4, <1>7 DEF Required
<1> QED BY <1>1, <1>2, <1>3, <1>4, <1>5, <1>6, <1>7, <1>8

\* A stored document: lines as the client sent them, with system quantities.
LEMMA FilledIsBody ==
  ASSUME TablesInv, NEW kind \in Kinds, NEW dto \in Payloads[kind],
         NEW old \in Seq(Line)
  PROVE  Filled(kind, dto, old) \in Body /\ Filled(kind, dto, old).lines # <<>>
<1>1. /\ dto \in Dto
      /\ dto.lines \in Seq([m : Materials, q : Nat, price : Nat]) /\ dto.lines # <<>>
      /\ dto.from \in Warehouses /\ dto.to \in Warehouses /\ dto.date \in Nat
  BY PayloadsAreDtos DEF Dto
<1> DEFINE n == Len(dto.lines)
           line(j) == [m |-> dto.lines[j].m, q |-> dto.lines[j].q,
                       price |-> dto.lines[j].price,
                       sys |-> SystemQuantity(kind, dto.from, dto.lines[j].m, old)]
<1>2. n \in Nat \ {0} /\ DOMAIN dto.lines = 1..n
  BY <1>1, EmptySeq, LenProperties
<1>3. \A j \in 1..n : dto.lines[j] \in [m : Materials, q : Nat, price : Nat]
  BY <1>1, ElementOfSeq
<1>4. ASSUME NEW m \in Materials
      PROVE  SystemQuantity(kind, dto.from, m, old) \in Int
  <2>1. \A j \in DOMAIN old : old[j].sys \in Int
    <3>1. \A j \in 1..Len(old) : old[j] \in Line
      BY ElementOfSeq
    <3>2. DOMAIN old = 1..Len(old)
      BY LenProperties
    <3> QED BY <3>1, <3>2 DEF Line
  <2>2. balance[<<dto.from, m>>] \in Int
    BY <1>1 DEF TablesInv, BalancesInv, Cells
  <2>3. ASSUME \E j \in DOMAIN old : LastOf(m, old, j)
        PROVE  (CHOOSE j \in DOMAIN old : LastOf(m, old, j)) \in DOMAIN old
    BY <2>3
  <2> QED BY <2>1, <2>2, <2>3 DEF SystemQuantity
<1>5. \A j \in 1..n : line(j) \in Line
  BY <1>3, <1>4 DEF Line
<1> HIDE DEF line, n
<1>6. [j \in 1..n |-> line(j)] \in Seq(Line)
  BY <1>2, <1>5, IsASeq
<1>7. [j \in 1..n |-> line(j)] # <<>>
  BY <1>2
<1>8. Filled(kind, dto, old) =
        [kind |-> kind, from |-> dto.from, to |-> dto.to, date |-> dto.date,
         lines |-> [j \in 1..n |-> line(j)]]
  BY <1>2 DEF Filled, line
<1> QED BY <1>1, <1>6, <1>7, <1>8 DEF Body
-----------------------------------------------------------------------------
\* A request between two calls is well formed.
LEMMA IdleIsRequest ==
  /\ Idle \in Request /\ Idle.pc = "idle" /\ \A l \in LotIds : Idle.read[l] = 0
  /\ NoBody \in Body
<1>1. PICK w \in Warehouses : TRUE
  BY SomethingToStock
<1>2. (CHOOSE v \in Warehouses : TRUE) \in Warehouses
  BY <1>1, ChosenIsMember
<1>3. <<>> \in Seq(Line)
  BY EmptySeq
<1>4. NoBody \in Body
  BY <1>2, <1>3 DEF NoBody, Body, Kinds
<1>5. NothingTaken \in [LotIds -> Nat] /\ \A l \in LotIds : NothingTaken[l] = 0
  BY DEF NothingTaken
<1> QED BY <1>4, <1>5 DEF Idle, Request

\* The opening stock, without documents, satisfies the invariant.
LEMMA InitEstablishesInv == Init => StockInv
<1> SUFFICES ASSUME Init PROVE StockInv
  OBVIOUS
<1>1. LocksInv
  BY DEF Init, LocksInv
<1>2. BalancesInv
  BY OpeningIsStock DEF Init, BalancesInv, BalanceSeen, Untouched
<1>3. LotsInv
  <2>1. PICK w \in Warehouses, m \in Materials : TRUE
    BY SomethingToStock
  <2>2. <<w, m>> \in Cells
    BY DEF Cells
  <2>3. (CHOOSE c \in Cells : TRUE) \in Cells
    BY <2>2, ChosenIsMember
  <2>4. \A l \in DOMAIN OpeningLots : OpeningLots[l] \in [cell : Cells, date : Nat, rem : Nat]
    BY OpeningIsStock, ElementOfSeq, LenProperties
  <2>5. \A l \in LotIds : /\ lot[l] \in [cell : Cells, date : Nat, rem : Nat,
                                         by : {"committed", "free"}]
    BY <2>3, <2>4 DEF Init, FreeLot
  <2>6. lot = [l \in LotIds |-> lot[l]]
    BY DEF Init
  <2>7. lot \in [LotIds -> [cell : Cells, date : Nat, rem : Int,
                            by : Requests \cup {"committed", "free"}]]
    BY <2>5, <2>6
  <2>8. dLot = [p \in Requests |-> NothingTaken] /\ NothingTaken = [l \in LotIds |-> 0]
    BY DEF Init, NothingTaken
  <2> QED BY <2>5, <2>7, <2>8 DEF LotsInv, LotSeen
<1>4. DocsInv
  BY IdleIsRequest DEF Init, DocsInv
<1>5. RequestsInv
  BY IdleIsRequest DEF Init, RequestsInv
<1> QED BY <1>1, <1>2, <1>3, <1>4, <1>5 DEF StockInv, TablesInv
-----------------------------------------------------------------------------
\* The documents are written by create, by the UPDATEs by id and by Finish.
LEMMA CreateKeepsInv ==
  ASSUME StockInv, NEW d \in Docs, Create(d)
  PROVE  StockInv'
<1> USE DEF StockInv
<1>0. PICK kind \in Kinds : \E dto \in Payloads[kind] :
        doc' = [doc EXCEPT ![d] = [status |-> "DRAFT", deleted |-> FALSE,
                                   body |-> Filled(kind, dto, <<>>)]]
  BY DEF Create
<1>1. PICK dto \in Payloads[kind] :
        doc' = [doc EXCEPT ![d] = [status |-> "DRAFT", deleted |-> FALSE,
                                   body |-> Filled(kind, dto, <<>>)]]
  BY <1>0
<1>2. UNCHANGED <<balance, lot, holds, dBalance, dLot, req, raced>>
  BY DEF Create, tables, pending
<1>3. <<>> \in Seq(Line)
  BY EmptySeq
<1>4. Filled(kind, dto, <<>>) \in Body /\ Filled(kind, dto, <<>>).lines # <<>>
  BY <1>3, FilledIsBody
<1>5. DocsInv'
  BY <1>1, <1>2, <1>4 DEF DocsInv
<1>6. TablesInv'
  BY <1>2 DEF TablesInv, LocksInv, BalancesInv, LotsInv, BalanceSeen, LotSeen, Exists
<1>7. RequestsInv'
  BY <1>2 DEF RequestsInv, Exists
<1> QED BY <1>5, <1>6, <1>7

\* A step that leaves the tables and the documents alone.
LEMMA RequestStepKeepsInv ==
  ASSUME StockInv, NEW p \in Requests, NEW r \in Request,
         r.pc # "idle" => OnItsLine(r),
         \A l \in LotIds : r.read[l] # 0 => Exists(p, l),
         req' = [req EXCEPT ![p] = r],
         UNCHANGED <<tables, pending, doc>>, raced' \subseteq Docs
  PROVE  StockInv'
<1> USE DEF StockInv
<1>1. UNCHANGED <<balance, lot, holds, dBalance, dLot>>
  BY DEF tables, pending
<1>2. \A q \in Requests, l \in LotIds : Exists(q, l)' <=> Exists(q, l)
  BY <1>1 DEF Exists
<1>3. RequestsInv'
  BY <1>2, RequestMoves
<1>4. TablesInv'
  BY <1>1 DEF TablesInv, LocksInv, BalancesInv, LotsInv, BalanceSeen, LotSeen, Exists
<1>5. DocsInv'
  BY DEF DocsInv
<1> QED BY <1>3, <1>4, <1>5

\* The reads of a handler and the start of a request.
LEMMA BeginKeepsInv ==
  ASSUME StockInv, NEW p \in Requests, NEW d \in Docs,
         NEW op \in {"confirm", "update", "cancel", "remove"},
         NEW body \in Body, body.lines # <<>>, Begin(p, op, d, body)
  PROVE  StockInv'
<1> DEFINE pc == IF op # "confirm" THEN "write"
                 ELSE IF body.kind \in {"issue", "transfer"} THEN "check" ELSE "line"
           r == [Idle EXCEPT !.op = op, !.d = d, !.body = body, !.pc = pc]
<1>1. r \in Request /\ r.i = 1 /\ r.d = d /\ r.body = body /\ r.read = Idle.read
  BY IdleIsRequest DEF Request, Steps, Idle
<1>2. Len(body.lines) \in Nat \ {0}
  BY EmptySeq DEF Body
<1>3. OnItsLine(r)
  BY <1>1, <1>2 DEF OnItsLine
<1>4. \A l \in LotIds : r.read[l] # 0 => Exists(p, l)
  BY <1>1, IdleIsRequest
<1>5. req' = [req EXCEPT ![p] = r] /\ UNCHANGED <<tables, pending, doc>>
  BY DEF Begin
<1>6. raced' \subseteq Docs
  BY DEF Begin, StockInv, DocsInv
<1> HIDE DEF r
<1> QED BY <1>1, <1>3, <1>4, <1>5, <1>6, RequestStepKeepsInv

\* Each handler starts from a DRAFT, which has lines; an update brings its own.
LEMMA BeginOnKeepsInv ==
  ASSUME StockInv, NEW p \in Requests, NEW d \in Docs, BeginOn(p, d)
  PROVE  StockInv'
<1>1. doc[d].status = "DRAFT" => doc[d].body \in Body /\ doc[d].body.lines # <<>>
  BY DEF StockInv, DocsInv
<1>2. CASE BeginConfirm(p, d)
  BY <1>1, <1>2, BeginKeepsInv DEF BeginConfirm, Begin, Open
<1>3. CASE BeginCancel(p, d)
  BY <1>1, <1>3, BeginKeepsInv DEF BeginCancel, Begin, Open
<1>4. CASE BeginRemove(p, d)
  BY <1>1, <1>4, BeginKeepsInv DEF BeginRemove, Begin, Open
<1>5. CASE BeginUpdate(p, d)
  <2>1. PICK dto \in Payloads[doc[d].body.kind] :
          Begin(p, "update", d, Filled(doc[d].body.kind, dto, doc[d].body.lines))
    BY <1>5 DEF BeginUpdate
  <2>2. doc[d].body \in Body
    BY <2>1, <1>1 DEF Begin, Open
  <2>3. doc[d].body.kind \in Kinds /\ doc[d].body.lines \in Seq(Line)
    BY <2>2 DEF Body
  <2> QED BY <2>1, <2>3, FilledIsBody, BeginKeepsInv DEF StockInv
<1> QED BY <1>2, <1>3, <1>4, <1>5 DEF BeginOn

\* update, cancel and remove write the document only, and by id.
LEMMA WriteKeepsInv ==
  ASSUME StockInv, NEW p \in Requests, Write(p)
  PROVE  StockInv'
<1> USE DEF StockInv
<1>1. /\ req' = [req EXCEPT ![p] = Idle]
      /\ UNCHANGED <<balance, lot, holds, dBalance, dLot, raced>>
  BY DEF Write, tables, pending
<1>2. /\ req[p].d \in Docs /\ req[p].body \in Body /\ req[p].body.lines # <<>>
  <2>1. OnItsLine(req[p]) /\ req[p].body \in Body
    BY CurrentIsLine DEF Write
  <2>2. req[p].body.lines # <<>>
    BY <2>1, EmptySeq DEF OnItsLine
  <2> QED BY <2>1, <2>2 DEF OnItsLine
<1>3. DocsInv'
  <2> DEFINE d == req[p].d
  <2>1. \/ doc' = [doc EXCEPT ![d].body = req[p].body]
        \/ doc' = [doc EXCEPT ![d].status = "CANCELLED"]
        \/ doc' = [doc EXCEPT ![d].deleted = TRUE]
    BY DEF Write
  <2>2. CASE doc' = [doc EXCEPT ![d].body = req[p].body]
    BY <1>1, <1>2, <2>2 DEF DocsInv
  <2>3. CASE doc' = [doc EXCEPT ![d].status = "CANCELLED"]
    BY <1>1, <1>2, <2>3 DEF DocsInv
  <2>4. CASE doc' = [doc EXCEPT ![d].deleted = TRUE]
    BY <1>1, <1>2, <2>4 DEF DocsInv
  <2> QED BY <2>1, <2>2, <2>3, <2>4
<1>4. TablesInv'
  BY <1>1 DEF TablesInv, LocksInv, BalancesInv, LotsInv, BalanceSeen, LotSeen, Exists
<1>5. \A q \in Requests, l \in LotIds : Exists(q, l)' <=> Exists(q, l)
  BY <1>1 DEF Exists
<1>6. RequestsInv'
  BY <1>1, <1>5, IdleIsRequest, RequestMoves
<1> QED BY <1>3, <1>4, <1>6
-----------------------------------------------------------------------------
\* confirm.  A statement that changed the tables by the book moved its request
\* on without touching a document.
LEMMA StatementKeepsInv ==
  ASSUME StockInv, NEW p \in Requests, NEW r \in Request, OnItsLine(r),
         \A l \in LotIds : r.read[l] # 0 => req[p].read[l] # 0,
         req' = [req EXCEPT ![p] = r],
         TablesInv', SameExistence, UNCHANGED <<doc, raced>>
  PROVE  StockInv'
<1>1. \A l \in LotIds : r.read[l] # 0 => Exists(p, l)'
  BY DEF StockInv, RequestsInv, SameExistence
<1>2. \A q \in Requests \ {p}, l \in LotIds : Exists(q, l) => Exists(q, l)'
  BY DEF SameExistence
<1>3. RequestsInv'
  BY <1>1, <1>2, RequestMoves DEF StockInv
<1>4. DocsInv'
  BY DEF StockInv, DocsInv
<1> QED BY <1>3, <1>4 DEF StockInv

\* The next program counter of a request, on the same line.
LEMMA GotoStaysOnLine ==
  ASSUME RequestsInv, NEW p \in Requests, req[p].pc # "idle", NEW pc \in Steps, Goto(p, pc)
  PROVE  \E r \in Request : /\ OnItsLine(r) /\ r.read = req[p].read
                            /\ req' = [req EXCEPT ![p] = r]
<1> DEFINE r == [req[p] EXCEPT !.pc = pc]
<1>1. req[p] \in Request /\ OnItsLine(req[p])
  BY DEF RequestsInv
<1>2. r \in Request
  BY <1>1 DEF Request
<1>3. r.d = req[p].d /\ r.i = req[p].i /\ r.body = req[p].body /\ r.read = req[p].read
  BY <1>1 DEF Request
<1>4. req' = [req EXCEPT ![p] = r]
  BY DEF Goto
<1> QED BY <1>1, <1>2, <1>3, <1>4 DEF OnItsLine

\* The next line of a document.
LEMMA NextLineStaysOnLines ==
  ASSUME RequestsInv, NEW p \in Requests, req[p].pc # "idle", NextLine(p)
  PROVE  \E r \in Request : /\ OnItsLine(r) /\ r.read = req[p].read
                            /\ req' = [req EXCEPT ![p] = r]
<1>1. req[p] \in Request /\ OnItsLine(req[p])
  BY DEF RequestsInv
<1>2. "line" \in Steps /\ "finish" \in Steps
  BY DEF Steps
<1> QED BY <1>1, <1>2, AfterStaysOnLines DEF NextLine

\* ensureSufficientStock only moves the request on.
LEMMA CheckStockKeepsInv ==
  ASSUME StockInv, NEW p \in Requests, CheckStock(p)
  PROVE  StockInv'
<1> DEFINE r == After(req[p], "check", "line")
<1>1. req[p] \in Request /\ OnItsLine(req[p])
  BY CurrentIsLine DEF CheckStock, StockInv
<1>2. r \in Request /\ OnItsLine(r) /\ r.read = req[p].read
  BY <1>1, AfterStaysOnLines DEF Steps
<1>3. req' = [req EXCEPT ![p] = r] /\ UNCHANGED <<tables, pending, doc, raced>>
  BY DEF CheckStock
<1>4. \A l \in LotIds : r.read[l] # 0 => Exists(p, l)
  BY <1>2 DEF StockInv, RequestsInv
<1>5. raced' \subseteq Docs
  BY <1>3 DEF StockInv, DocsInv
<1> HIDE DEF r
<1> QED BY <1>2, <1>3, <1>4, <1>5, RequestStepKeepsInv

\* The lots findMany returns exist for the request and are not negative.
LEMMA ReadLotsKeepsInv ==
  ASSUME StockInv, NEW p \in Requests, ReadLots(p)
  PROVE  StockInv'
<1> DEFINE eligible == EligibleLots(p, Source(p), req[p].body.date)
           read == [l \in LotIds |-> IF l \in eligible THEN LotSeen(p, l) ELSE 0]
           r == [req[p] EXCEPT !.pc = "take", !.need = Required(p), !.read = read]
<1>1. req[p] \in Request /\ OnItsLine(req[p]) /\ Required(p) \in Int
  BY CurrentIsLine DEF ReadLots, StockInv
<1>2. read \in [LotIds -> Nat]
  <2>1. \A l \in LotIds : LotSeen(p, l) \in Int /\ LotSeen(p, l) >= 0
    <3>1. \A l \in LotIds : LotSeen(p, l) >= 0
      BY DEF StockInv, TablesInv, LotsInv
    <3>2. \A l \in LotIds : LotSeen(p, l) \in Int
      BY DEF StockInv, TablesInv, LotsInv, LotSeen
    <3> QED BY <3>1, <3>2
  <2> QED BY <2>1
<1>3. \A l \in LotIds : read[l] # 0 => Exists(p, l)
  BY DEF EligibleLots
<1> HIDE DEF read
<1>4. r \in Request
  BY <1>1, <1>2 DEF Request, Steps
<1>5. r.d = req[p].d /\ r.i = req[p].i /\ r.body = req[p].body /\ r.read = read
  BY <1>1 DEF Request
<1>6. OnItsLine(r)
  BY <1>1, <1>5 DEF OnItsLine
<1>7. req' = [req EXCEPT ![p] = r] /\ UNCHANGED <<tables, pending, doc, raced>>
  BY DEF ReadLots, read
<1>8. raced' \subseteq Docs
  BY <1>7 DEF StockInv, DocsInv
<1> HIDE DEF r
<1> QED BY <1>3, <1>4, <1>5, <1>6, <1>7, <1>8, RequestStepKeepsInv

\* One turn of the lot loop: the conditional decrement, and the lot at the target.
LEMMA TakeLotKeepsInv ==
  ASSUME StockInv, NEW p \in Requests, NEW l \in LotIds, TakeLot(p, l)
  PROVE  StockInv'
<1> USE DEF StockInv
<1> DEFINE q == Take(p, l)
           r == [req[p] EXCEPT !.need = @ - q, !.read[l] = 0]
<1>1. /\ req[p] \in Request /\ OnItsLine(req[p])
      /\ Target(p) \in Cells
  BY CurrentIsLine DEF TakeLot
<1>2. q \in Nat /\ Exists(p, l)
  <2>1. req[p].need \in Int /\ req[p].read[l] \in Nat
    BY <1>1 DEF Request
  <2>2. q \in Nat
    BY <2>1 DEF TakeLot, Take
  <2>3. Exists(p, l)
    BY <2>1 DEF TakeLot, NextToTake, RequestsInv
  <2> QED BY <2>2, <2>3
<1>3. lot[l].date \in Nat
  BY DEF TablesInv, LotsInv
<1>4. LocksInv' /\ HoldsGrow /\ LotsInv' /\ SameExistence
  <2>1. CASE Is(p, "transfer")
    BY <2>1, <1>1, <1>2, <1>3, MoveKeepsLots DEF TablesInv, TakeLot
  <2>2. CASE ~Is(p, "transfer")
    BY <2>2, <1>2, DecrementKeepsLots DEF TablesInv, TakeLot
  <2> QED BY <2>1, <2>2
<1>5. BalancesInv'
  BY <1>4, BalancesUntouched DEF TablesInv, TakeLot
<1> HIDE DEF q
<1>6. r \in Request
  <2> DEFINE read == [req[p].read EXCEPT ![l] = 0]
             need == req[p].need - q
  <2>1. read \in [LotIds -> Nat] /\ need \in Int
    BY <1>1, <1>2 DEF Request
  <2>2. r = [req[p] EXCEPT !.need = need, !.read = read]
    BY <1>1 DEF Request
  <2> HIDE DEF read, need, r
  <2> QED BY <1>1, <2>1, <2>2 DEF Request
<1>7. /\ r.d = req[p].d /\ r.i = req[p].i /\ r.body = req[p].body
      /\ r.read = [req[p].read EXCEPT ![l] = 0]
  BY <1>1 DEF Request
<1>8. \A k \in LotIds : r.read[k] # 0 => req[p].read[k] # 0
  BY <1>1, <1>7 DEF Request
<1>9. req' = [req EXCEPT ![p] = r] /\ UNCHANGED <<doc, raced>>
  BY DEF TakeLot, q
<1>10. OnItsLine(r)
  BY <1>1, <1>7 DEF OnItsLine
<1> HIDE DEF r
<1> QED BY <1>4, <1>5, <1>6, <1>8, <1>9, <1>10, StatementKeepsInv DEF TablesInv

\* adjustBalance with a negative delta.
LEMMA DebitKeepsInv ==
  ASSUME StockInv, NEW p \in Requests, Debit(p)
  PROVE  StockInv'
<1> USE DEF StockInv
<1> DEFINE drained == [req[p] EXCEPT !.read = NothingTaken]
           r == IF Is(p, "transfer") THEN [drained EXCEPT !.pc = "credit"]
                ELSE After(drained, "line", "finish")
<1>1. /\ req[p] \in Request /\ OnItsLine(req[p])
      /\ Source(p) \in Cells /\ Required(p) \in Int
  BY CurrentIsLine DEF Debit
<1>2. LocksInv' /\ HoldsGrow /\ BalancesInv'
  BY <1>1, DebitKeepsBalances DEF Debit, TablesInv, tables
<1>3. LotsInv' /\ SameExistence
  BY <1>2, LotsUntouched DEF Debit, TablesInv, tables
<1>4. /\ drained \in Request /\ drained.read = NothingTaken
      /\ drained.d = req[p].d /\ drained.i = req[p].i /\ drained.body = req[p].body
  BY <1>1 DEF Request, NothingTaken
<1>5. OnItsLine(drained)
  BY <1>1, <1>4 DEF OnItsLine
<1>6. req' = [req EXCEPT ![p] = r] /\ UNCHANGED <<doc, raced>>
  BY DEF Debit
<1> HIDE DEF drained
<1>7. r \in Request /\ OnItsLine(r) /\ r.read = NothingTaken
  <2>1. CASE Is(p, "transfer")
    <3>1. [drained EXCEPT !.pc = "credit"] \in Request
      BY <1>4 DEF Request, Steps
    <3>2. LET s == [drained EXCEPT !.pc = "credit"]
          IN  s.d = drained.d /\ s.i = drained.i /\ s.body = drained.body
                /\ s.read = drained.read
      BY <1>4 DEF Request
    <3> QED BY <2>1, <3>1, <3>2, <1>4, <1>5 DEF OnItsLine
  <2>2. CASE ~Is(p, "transfer")
    BY <2>2, <1>4, <1>5, AfterStaysOnLines DEF Steps
  <2> QED BY <2>1, <2>2
<1>8. \A l \in LotIds : r.read[l] # 0 => req[p].read[l] # 0
  BY <1>7 DEF NothingTaken
<1> HIDE DEF r
<1> QED BY <1>2, <1>3, <1>6, <1>7, <1>8, StatementKeepsInv DEF TablesInv

\* The statements that credit a balance: transfer target, surplus, receipt.
LEMMA CreditsKeepInv ==
  ASSUME StockInv, NEW p \in Requests,
         CreditTarget(p) \/ CreditSurplus(p) \/ CreditReceipt(p)
  PROVE  StockInv'
<1> USE DEF StockInv
<1>1. /\ req[p].pc # "idle" /\ req[p] \in Request /\ OnItsLine(req[p])
      /\ Source(p) \in Cells /\ Target(p) \in Cells /\ Current(p).q \in Nat
      /\ Diff(Current(p)) \in Int /\ req[p].body.date \in Nat
  <2>1. req[p].pc # "idle"
    BY DEF CreditTarget, CreditSurplus, CreditReceipt
  <2> QED BY <2>1, CurrentIsLine
<1>2. PICK c \in Cells, q \in Nat :
        /\ CreditBalance(p, c, q) /\ balance' = balance /\ dLot' = dLot
        /\ lot' = lot \/ CreateLot(p, c, req[p].body.date, q)
        /\ NextLine(p) \/ Goto(p, "cost")
        /\ UNCHANGED <<doc, raced>>
  <2>1. CASE CreditTarget(p)
    BY <1>1, <2>1 DEF CreditTarget, tables
  <2>2. CASE CreditSurplus(p)
    BY <1>1, <2>2 DEF CreditSurplus
  <2>3. CASE CreditReceipt(p)
    BY <1>1, <2>3 DEF CreditReceipt, tables
  <2> QED BY <2>1, <2>2, <2>3
<1>3. LocksInv' /\ HoldsGrow /\ BalancesInv'
  BY <1>2, CreditKeepsBalances DEF TablesInv
<1>4. LotsInv' /\ SameExistence
  BY <1>1, <1>2, <1>3, LotsUntouched, CreateKeepsLots DEF TablesInv
<1>5. PICK r \in Request : /\ OnItsLine(r) /\ r.read = req[p].read
                           /\ req' = [req EXCEPT ![p] = r]
  BY <1>1, <1>2, NextLineStaysOnLines, GotoStaysOnLine DEF Steps
<1> QED BY <1>2, <1>3, <1>4, <1>5, StatementKeepsInv DEF TablesInv

\* updateAverageCostPrice reads ...
LEMMA CostReadsKeepInv ==
  ASSUME StockInv, NEW p \in Requests, ReadCost(p) \/ ReadStock(p)
  PROVE  StockInv'
<1>1. /\ req[p].pc # "idle" /\ (Goto(p, "stock") \/ Goto(p, "average"))
      /\ UNCHANGED <<tables, pending, doc, raced>>
  BY DEF ReadCost, ReadStock
<1>2. PICK r \in Request : /\ OnItsLine(r) /\ r.read = req[p].read
                           /\ req' = [req EXCEPT ![p] = r]
  BY <1>1, GotoStaysOnLine DEF Steps, StockInv, ReadCost, ReadStock
<1>3. \A l \in LotIds : r.read[l] # 0 => Exists(p, l)
  BY <1>2 DEF StockInv, RequestsInv
<1>4. raced' \subseteq Docs
  BY <1>1 DEF StockInv, DocsInv
<1> QED BY <1>1, <1>2, <1>3, <1>4, RequestStepKeepsInv

\* ... and writes; the receipt's lot is created.
LEMMA WriteAverageKeepsInv ==
  ASSUME StockInv, NEW p \in Requests, WriteAverage(p)
  PROVE  StockInv'
<1> USE DEF StockInv
<1>1. /\ req[p].pc # "idle" /\ req[p] \in Request
      /\ Target(p) \in Cells /\ Current(p) \in Line /\ Current(p).q \in Nat
      /\ req[p].body.date \in Nat
  BY CurrentIsLine DEF WriteAverage
<1>2. Current(p).m \in Materials
  BY <1>1 DEF Line
<1>3. LocksInv' /\ HoldsGrow
  BY <1>2, HoldKeepsLocks, CostRow DEF WriteAverage, WriteCostPrice, TablesInv
<1>4. BalancesInv'
  BY <1>3, BalancesUntouched DEF WriteAverage, TablesInv
<1>5. LotsInv' /\ SameExistence
  BY <1>1, <1>3, CreateKeepsLots DEF WriteAverage, TablesInv
<1>6. PICK r \in Request : /\ OnItsLine(r) /\ r.read = req[p].read
                           /\ req' = [req EXCEPT ![p] = r]
  BY <1>1, NextLineStaysOnLines DEF WriteAverage
<1>7. UNCHANGED <<doc, raced>>
  BY DEF WriteAverage
<1> QED BY <1>3, <1>4, <1>5, <1>6, <1>7, StatementKeepsInv DEF TablesInv

\* A transaction that ends, either way, ends its request.
LEMMA EndsKeepInv ==
  ASSUME StockInv, NEW p \in Requests, Finish(p) \/ RollBack(p)
  PROVE  StockInv'
<1> USE DEF StockInv
<1>1. TablesInv' /\ \A q \in Requests \ {p}, l \in LotIds : Exists(q, l) => Exists(q, l)'
  BY CommitKeepsTables, RollbackKeepsTables DEF Finish, RollBack
<1>2. req' = [req EXCEPT ![p] = Idle] /\ raced' = raced
  BY DEF Finish, RollBack
<1>3. RequestsInv'
  BY <1>1, <1>2, IdleIsRequest, RequestMoves
<1>4. DocsInv'
  <2>1. doc' = doc \/ doc' = [doc EXCEPT ![req[p].d].status = "CONFIRMED"]
    BY DEF Finish, RollBack
  <2> QED BY <1>2, <2>1 DEF DocsInv
<1> QED BY <1>1, <1>3, <1>4

-----------------------------------------------------------------------------
\* Every step of the documents keeps the invariant.
LEMMA NextKeepsInv == StockInv /\ [Next]_vars => StockInv'
<1> SUFFICES ASSUME StockInv, [Next]_vars PROVE StockInv'
  OBVIOUS
<1>1. CASE \E d \in Docs : Create(d)
  BY <1>1, CreateKeepsInv
<1>2. ASSUME NEW p \in Requests, RequestStep(p)
      PROVE  StockInv'
  <2>1. CASE \E d \in Docs : BeginOn(p, d)
    BY <2>1, BeginOnKeepsInv
  <2>2. CASE Write(p)
    BY <2>2, WriteKeepsInv
  <2>3. CASE Confirming(p)
    <3>1. CASE CheckStock(p) \/ ReadLots(p)
      BY <3>1, CheckStockKeepsInv, ReadLotsKeepsInv
    <3>2. CASE Debit(p)
      BY <3>2, DebitKeepsInv
    <3>3. CASE CreditTarget(p) \/ CreditSurplus(p) \/ CreditReceipt(p)
      BY <3>3, CreditsKeepInv
    <3>4. CASE ReadCost(p) \/ ReadStock(p) \/ WriteAverage(p)
      BY <3>4, CostReadsKeepInv, WriteAverageKeepsInv
    <3>5. CASE Finish(p)
      BY <3>5, EndsKeepInv
    <3>6. CASE \E l \in LotIds : TakeLot(p, l)
      BY <3>6, TakeLotKeepsInv
    <3> QED BY <2>3, <3>1, <3>2, <3>3, <3>4, <3>5, <3>6 DEF Confirming
  <2>4. CASE Reject(p) \/ DeadlockVictim(p) \/ Abort(p)
    BY <2>4, EndsKeepInv DEF Reject, DeadlockVictim, Abort
  <2> QED BY <1>2, <2>1, <2>2, <2>3, <2>4 DEF RequestStep, Proceed
<1>3. CASE UNCHANGED vars
  <2>1. UNCHANGED <<balance, lot, holds, dBalance, dLot, doc, req, raced>>
    BY <1>3 DEF vars, tables, pending
  <2> QED BY <2>1 DEF StockInv, TablesInv, LocksInv, BalancesInv, LotsInv, DocsInv,
                      RequestsInv, BalanceSeen, LotSeen, Exists
<1> QED BY <1>1, <1>2, <1>3 DEF Next

\* The invariant holds throughout.
THEOREM StockInvariant == Spec => []StockInv
<1>1. Init => StockInv
  BY InitEstablishesInv
<1>2. StockInv /\ [Next]_vars => StockInv'
  BY NextKeepsInv
<1> QED BY <1>1, <1>2, PTL DEF Spec

\* Rows keep their types: balances and lots are numbers of their cells, locks
\* are rows, documents and requests are well formed.
THEOREM StockTypes == Spec => [](TablesTypeOK /\ DocumentsTypeOK)
<1>1. StockInv => TablesTypeOK /\ DocumentsTypeOK
  BY DEF StockInv, TablesInv, LocksInv, BalancesInv, LotsInv, DocsInv, RequestsInv,
         TablesTypeOK, DocumentsTypeOK
<1> QED BY <1>1, StockInvariant, PTL

\* No balance and no lot is ever negative, however many confirms interleave:
\* the conditional decrements suffice, the pre-check is only a courtesy.
THEOREM StockNeverNegative == Spec => []NoNegativeStock
<1>1. StockInv => NoNegativeStock
  BY DEF StockInv, TablesInv, BalancesInv, LotsInv, NoNegativeStock
<1> QED BY <1>1, StockInvariant, PTL
=============================================================================
