------------------------- MODULE FifoSuggestProofs -------------------------
(***************************************************************************)
(* The suggestions are first in, first out, for any lines, lots and        *)
(* dates, whatever the queries have read; drafts saved from them fit into  *)
(* the lots, although the queries read different states; and no line is    *)
(* offered more than the confirmed items left open.  suggestFifo is a      *)
(* recursion over lines and lots; the cut of demand and supply, which      *)
(* needs no recursion, satisfies its equations, and no other function      *)
(* does.                                                                   *)
(***************************************************************************)
EXTENDS FifoSuggest, Sums, TLAPS

\* The overlap of two segments, of length s from a and of length d from c.
Least(x, y) == IF x <= y THEN x ELSE y
Most(x, y) == IF x <= y THEN y ELSE x
Cut(a, s, c, d) == Most(0, Least(a + s, c + d) - Most(a, c))

LEMMA MinMaxOfTwo ==
  ASSUME NEW x \in Int, NEW y \in Int
  PROVE  Min({x, y}) = Least(x, y) /\ Max({x, y}) = Most(x, y)
<1>1. Min({x, y}) = Least(x, y)
  <2>1. \A z \in {x, y} : (\A w \in {x, y} : z =< w) <=> z = Least(x, y)
    BY DEF Least
  <2>2. Least(x, y) \in {x, y}
    BY DEF Least
  <2> HIDE DEF Least
  <2> QED BY <2>1, <2>2 DEF Min
<1>2. Max({x, y}) = Most(x, y)
  <2>1. \A z \in {x, y} : (\A w \in {x, y} : z >= w) <=> z = Most(x, y)
    BY DEF Most
  <2>2. Most(x, y) \in {x, y}
    BY DEF Most
  <2> HIDE DEF Most
  <2> QED BY <2>1, <2>2 DEF Max
<1> QED BY <1>1, <1>2

\* A segment next to one that has been cut.
LEMMA CutsAddUp ==
  ASSUME NEW a \in Nat, NEW s \in Nat, NEW c \in Nat, NEW d \in Nat
  PROVE  /\ Cut(a, s, c, d) \in Nat /\ Cut(a, s, c, d) <= s /\ Cut(a, s, c, d) <= d
         /\ Most(0, Least(a + s, c) - a) + Cut(a, s, c, d) = Most(0, Least(a + s, c + d) - a)
         /\ Most(0, Least(a, c + d) - c) + Cut(a, s, c, d) = Most(0, Least(a + s, c + d) - c)
         /\ Cut(a, s, c, d) = Least(s - Most(0, Least(a + s, c) - a),
                                    d - Most(0, Least(a, c + d) - c))
BY DEF Cut, Least, Most

-----------------------------------------------------------------------------
(* The order of the lots.                                                  *)

LEMMA LinesAndLots ==
  /\ Lines = 1..Len(Demand) /\ Len(Demand) \in Nat /\ \A i \in Lines : Demand[i] \in Nat
  /\ Lots = 1..Len(LotDate) /\ Len(LotDate) \in Nat /\ \A k \in Lots : LotDate[k] \in Nat
  /\ \A k \in Lots : LotSize[k] \in Nat
  /\ IsFiniteSet(Lines) /\ IsFiniteSet(Lots)
<1>1. /\ Lines = 1..Len(Demand) /\ Len(Demand) \in Nat /\ \A i \in Lines : Demand[i] \in Nat
      /\ Lots = 1..Len(LotDate) /\ Len(LotDate) \in Nat /\ \A k \in Lots : LotDate[k] \in Nat
      /\ \A k \in Lots : LotSize[k] \in Nat
  <2>1. /\ Demand \in Seq(Nat) /\ LotDate \in Seq(Nat) /\ LotSize \in Seq(Nat)
        /\ Len(LotSize) = Len(LotDate)
    BY FifoAssumption
  <2>2. \A s \in Seq(Nat) : /\ DOMAIN s = 1..Len(s) /\ Len(s) \in Nat
                            /\ \A i \in 1..Len(s) : s[i] \in Nat
    OBVIOUS
  <2> QED BY <2>1, <2>2, Zenon DEF Lines, Lots
<1>2. IsFiniteSet(Lines) /\ IsFiniteSet(Lots)
  BY <1>1, FS_Interval
<1> QED BY <1>1, <1>2

LEMMA ByAgeOrders ==
  ASSUME NEW j \in Lots, NEW k \in Lots, NEW l \in Lots
  PROVE  /\ ~ByAge(k, k)
         /\ ByAge(j, k) \/ ByAge(k, j) \/ j = k
         /\ ByAge(j, k) /\ ByAge(k, l) => ByAge(j, l)
BY LinesAndLots DEF ByAge

\* Some lots have an oldest and a newest one.
LEMMA OldestAndNewest ==
  ASSUME NEW some \in SUBSET Lots, some # {}
  PROVE  /\ \E k \in some : \A j \in some : j = k \/ ByAge(k, j)
         /\ \E k \in some : \A j \in some : j = k \/ ByAge(j, k)
<1> DEFINE Ends(T) == /\ \E k \in T : \A j \in T : j = k \/ ByAge(k, j)
                      /\ \E k \in T : \A j \in T : j = k \/ ByAge(j, k)
           Good == {T \in SUBSET Lots : T # {} => Ends(T)}
<1>1. \A T \in SUBSET Lots : (\A U \in (SUBSET T) \ {T} : U \in Good) => T \in Good
  <2> SUFFICES ASSUME NEW T \in SUBSET Lots, \A U \in (SUBSET T) \ {T} : U \in Good, T # {}
               PROVE  Ends(T)
    OBVIOUS
  <2>1. PICK x \in T : TRUE
    OBVIOUS
  <2> DEFINE U == T \ {x}
  <2>2. CASE U = {}
    BY <2>1, <2>2
  <2>3. CASE U # {}
    <3>1. U \in Good
      BY <2>1
    <3>2. Ends(U)
      BY <3>1, <2>3
    <3>3. \A j \in T : j = x \/ j \in U
      OBVIOUS
    <3>4. PICK k \in U : \A j \in U : j = k \/ ByAge(k, j)
      BY <3>2
    <3>5. PICK l \in U : \A j \in U : j = l \/ ByAge(j, l)
      BY <3>2
    <3>6. \E m \in T : \A j \in T : j = m \/ ByAge(m, j)
      <4>1. CASE ByAge(x, k)
        BY <4>1, <3>3, <3>4, <2>1, ByAgeOrders
      <4>2. CASE ~ByAge(x, k)
        BY <4>2, <3>3, <3>4, <2>1, ByAgeOrders
      <4> QED BY <4>1, <4>2
    <3>7. \E m \in T : \A j \in T : j = m \/ ByAge(j, m)
      <4>1. CASE ByAge(l, x)
        BY <4>1, <3>3, <3>5, <2>1, ByAgeOrders
      <4>2. CASE ~ByAge(l, x)
        BY <4>2, <3>3, <3>5, <2>1, ByAgeOrders
      <4> QED BY <4>1, <4>2
    <3> QED BY <3>6, <3>7
  <2> QED BY <2>2, <2>3
<1> HIDE DEF Ends
<1>2. some \in Good
  <2> HIDE DEF Good
  <2>1. IsFiniteSet(Lots)
    BY LinesAndLots
  <2>2. \A T \in SUBSET Lots : T \in Good
    BY <1>1, <2>1, SubsetInduction
  <2> QED BY <2>2, Zenon
<1> QED BY <1>2 DEF Ends

-----------------------------------------------------------------------------
(* The cut, for what is available and what is needed.                      *)

\* The lots of T, with every older one among lots.
Closed(T, lots) == \A k \in T, j \in lots : ByAge(j, k) => j \in T
Supply(stock, k, lots) == SumFunctionOnSet(stock, Before(k, lots))
Wanted(need, i) == SumFunctionOnSet(need, 1..i)
CutAt(stock, need, lots, i, k) ==
  Cut(Supply(stock, k, lots), stock[k], Wanted(need, i - 1), need[i])

LEMMA SupplyIsNat ==
  ASSUME NEW lots \in SUBSET Lots, NEW stock, \A k \in lots : stock[k] \in Nat
  PROVE  /\ \A T \in SUBSET lots : SumFunctionOnSet(stock, T) \in Nat
         /\ \A k \in Lots : Before(k, lots) \in SUBSET lots /\ Supply(stock, k, lots) \in Nat
<1>1. IsFiniteSet(lots) /\ \A k \in lots : stock[k] \in Int /\ stock[k] >= 0
  <2>1. IsFiniteSet(lots)
    BY LinesAndLots, FS_Subset
  <2> QED BY <2>1
<1>2. ASSUME NEW T \in SUBSET lots
      PROVE  SumFunctionOnSet(stock, T) \in Nat
  <2>1. SumFunctionOnSet(stock, T) \in Int
    BY <1>1, SumIsInt
  <2>2. IsFiniteSet(T) /\ \A k \in T : stock[k] \in Int /\ stock[k] >= 0
    BY <1>1, FS_Subset
  <2>3. SumFunctionOnSet(stock, T) >= 0
    BY <2>2, SumAtLeast
  <2> QED BY <2>1, <2>3
<1>3. \A k \in Lots : Before(k, lots) \in SUBSET lots
  BY DEF Before
<1> QED BY <1>2, <1>3 DEF Supply

LEMMA WantedIsNat ==
  ASSUME NEW n \in Nat, NEW need, \A i \in 1..n : need[i] \in Nat
  PROVE  /\ Wanted(need, 0) = 0
         /\ \A i \in 0..n : Wanted(need, i) \in Nat
         /\ \A i \in 1..n : Wanted(need, i) = Wanted(need, i - 1) + need[i]
<1>1. /\ Wanted(need, 0) = 0
      /\ \A i \in 0..n : Wanted(need, i) \in Int
      /\ \A i \in 1..n : Wanted(need, i) = Wanted(need, i - 1) + need[i]
  <2>1. \A i \in 1..n : need[i] \in Int
    OBVIOUS
  <2> QED BY <2>1, SumOfFirst DEF Wanted
<1>2. ASSUME NEW i \in 0..n
      PROVE  Wanted(need, i) >= 0
  <2>1. IsFiniteSet(1..i)
    BY FS_Interval
  <2>2. \A h \in 1..i : need[h] \in Int /\ need[h] >= 0
    OBVIOUS
  <2> QED BY <2>1, <2>2, SumAtLeast DEF Wanted
<1> QED BY <1>1, <1>2

\* f: what the first n lines take from a lot, of which s lies at a.
TakesOfLot(f, n, need, a, s) ==
  /\ n \in Nat /\ a \in Nat /\ s \in Nat
  /\ \A i \in 1..n : need[i] \in Nat /\ f[i] = Cut(a, s, Wanted(need, i - 1), need[i])

\* What the first lines take from a lot.
LEMMA CutsOfLot ==
  ASSUME NEW n, NEW need, NEW a, NEW s, NEW f, TakesOfLot(f, n, need, a, s)
  PROVE  \A i \in 0..n : SumFunctionOnSet(f, 1..i) = Most(0, Least(a + s, Wanted(need, i)) - a)
<1> USE DEF TakesOfLot
<1> DEFINE F(i) == SumFunctionOnSet(f, 1..i)
           W(i) == Wanted(need, i)
           wrong == {i \in 0..n : F(i) # Most(0, Least(a + s, W(i)) - a)}
<1>1. \A i \in 1..n : /\ W(i) \in Nat /\ W(i - 1) \in Nat /\ W(i) = W(i - 1) + need[i]
                      /\ need[i] \in Nat
  BY WantedIsNat
<1>2. W(0) = 0
  BY WantedIsNat
<1>3. \A i \in 1..n : f[i] = Cut(a, s, W(i - 1), need[i]) /\ f[i] \in Int
  <2>1. \A i \in 1..n : Cut(a, s, W(i - 1), need[i]) \in Nat
    BY <1>1, CutsAddUp
  <2> QED BY <2>1
<1>4. F(0) = 0 /\ \A i \in 1..n : F(i) = F(i - 1) + f[i]
  BY <1>3, SumOfFirst
<1> HIDE DEF F, W
<1> SUFFICES ASSUME wrong # {} PROVE FALSE
  BY DEF F, W
<1>5. PICK i \in wrong : \A j \in wrong : i <= j
  <2>1. wrong \in SUBSET Nat
    OBVIOUS
  <2> HIDE DEF wrong
  <2> QED BY <2>1, LeastNumber
<1>6. i # 0
  BY <1>2, <1>4, <1>5 DEF Most, Least
<1>7. i \in 1..n /\ i - 1 \in 0..n
  BY <1>5, <1>6
<1>8. F(i - 1) = Most(0, Least(a + s, W(i - 1)) - a)
  BY <1>5, <1>7
<1>9. Most(0, Least(a + s, W(i - 1)) - a) + Cut(a, s, W(i - 1), need[i])
        = Most(0, Least(a + s, W(i - 1) + need[i]) - a)
  <2>1. \A x, y \in Nat : Most(0, Least(a + s, x) - a) + Cut(a, s, x, y)
                             = Most(0, Least(a + s, x + y) - a)
    BY CutsAddUp
  <2> QED BY <1>1, <1>7, <2>1
<1>10. F(i) = Most(0, Least(a + s, W(i)) - a)
  BY <1>1, <1>3, <1>4, <1>7, <1>8, <1>9
<1> QED BY <1>5, <1>10

\* What a line takes from the oldest lots.
LEMMA CutsOfLine ==
  ASSUME NEW lots \in SUBSET Lots, NEW stock, \A k \in lots : stock[k] \in Nat,
         NEW c \in Nat, NEW d \in Nat, NEW f,
         \A k \in lots : f[k] = Cut(Supply(stock, k, lots), stock[k], c, d)
  PROVE  \A T \in SUBSET lots : Closed(T, lots) =>
           SumFunctionOnSet(f, T) = Most(0, Least(SumFunctionOnSet(stock, T), c + d) - c)
<1> DEFINE F(T) == SumFunctionOnSet(f, T)
           S(T) == SumFunctionOnSet(stock, T)
           Good == {T \in SUBSET lots : Closed(T, lots) => F(T) = Most(0, Least(S(T), c + d) - c)}
<1>1. IsFiniteSet(lots) /\ lots \subseteq Lots
  BY LinesAndLots, FS_Subset
<1>2. \A k \in lots : /\ Before(k, lots) \in SUBSET lots /\ S(Before(k, lots)) \in Nat
                      /\ stock[k] \in Nat /\ stock[k] \in Int
                      /\ f[k] = Cut(S(Before(k, lots)), stock[k], c, d)
  BY <1>1, SupplyIsNat DEF Supply
<1>3. \A k \in lots : f[k] \in Int
  <2>1. \A k \in lots : Cut(S(Before(k, lots)), stock[k], c, d) \in Nat
    BY <1>2, CutsAddUp
  <2> QED BY <2>1, <1>2
<1>4. ASSUME NEW T \in SUBSET lots, NEW k \in T, NEW U, T \ {k} = U
      PROVE  F(T) = f[k] + F(U) /\ S(T) = stock[k] + S(U)
  BY <1>1, <1>2, <1>3, <1>4, SumTakenApart
<1>5. \A T : T = {} => F(T) = 0 /\ S(T) = 0
  BY SumOfNothing, Zenon
<1> HIDE DEF F, S
<1>6. \A T \in SUBSET lots : (\A U \in (SUBSET T) \ {T} : U \in Good) => T \in Good
  <2> SUFFICES ASSUME NEW T \in SUBSET lots, \A U \in (SUBSET T) \ {T} : U \in Good,
                      Closed(T, lots)
               PROVE  F(T) = Most(0, Least(S(T), c + d) - c)
    OBVIOUS
  <2>1. CASE T = {}
    BY <1>5, <2>1 DEF Most, Least
  <2>2. CASE T # {}
    <3>1. PICK k \in T : \A j \in T : j = k \/ ByAge(j, k)
      BY <1>1, <2>2, OldestAndNewest
    <3>2. T \ {k} = Before(k, lots)
      BY <1>1, <3>1, ByAgeOrders DEF Before, Closed
    <3> DEFINE U == Before(k, lots)
    <3>3. U \in Good
      BY <3>1, <3>2
    <3>4. Closed(U, lots)
      BY <1>1, <3>1, ByAgeOrders DEF Before, Closed
    <3> HIDE DEF U
    <3>5. F(U) = Most(0, Least(S(U), c + d) - c)
      BY <3>3, <3>4
    <3>6. F(T) = f[k] + F(U) /\ S(T) = stock[k] + S(U)
      BY <1>4, <3>2 DEF U
    <3>7. f[k] = Cut(S(U), stock[k], c, d) /\ S(U) \in Nat /\ stock[k] \in Nat /\ f[k] \in Int
      BY <1>2, <1>3 DEF U
    <3>8. Most(0, Least(S(U), c + d) - c) + Cut(S(U), stock[k], c, d)
            = Most(0, Least(S(U) + stock[k], c + d) - c)
      <4>1. \A x, y \in Nat : Most(0, Least(x, c + d) - c) + Cut(x, y, c, d)
                                 = Most(0, Least(x + y, c + d) - c)
        BY CutsAddUp
      <4> QED BY <3>7, <4>1
    <3>9. S(T) = S(U) + stock[k] /\ F(T) = F(U) + f[k]
      <4>1. F(U) \in Int
        BY <3>5, <3>7 DEF Most, Least
      <4> QED BY <4>1, <3>6, <3>7
    <3> QED BY <3>5, <3>7, <3>8, <3>9
  <2> QED BY <2>1, <2>2
<1> HIDE DEF Good
<1>7. \A T \in SUBSET lots : T \in Good
  BY <1>1, <1>6, SubsetInduction
<1> QED BY <1>7 DEF Good, F, S

-----------------------------------------------------------------------------
(* The recursion over the lots, for one line.                              *)

\* col: what earlier lines left of each lot; d: what the line needs.
SolvesRow(row, col, d, lots) ==
  row = [k \in lots |-> Min({col[k], d - SumFunction([j \in Before(k, lots) |-> row[j]])})]

LEMMA RowSolved ==
  ASSUME NEW lots \in SUBSET Lots, NEW stock, \A k \in lots : stock[k] \in Nat,
         NEW c \in Nat, NEW d \in Nat, NEW col,
         \A k \in lots : col[k] = stock[k] - Most(0, Least(Supply(stock, k, lots) + stock[k], c)
                                                       - Supply(stock, k, lots)),
         NEW cut, cut = [k \in lots |-> Cut(Supply(stock, k, lots), stock[k], c, d)]
  PROVE  /\ SolvesRow(cut, col, d, lots)
         /\ \A row : SolvesRow(row, col, d, lots) => row = cut
<1>1. ASSUME NEW k \in lots
      PROVE  cut[k] = Min({col[k], d - SumFunction([j \in Before(k, lots) |-> cut[j]])})
  <2> DEFINE a == Supply(stock, k, lots)
             s == stock[k]
             B == Before(k, lots)
             g == [j \in B |-> cut[j]]
  <2>1. a \in Nat /\ s \in Nat /\ B \in SUBSET lots /\ IsFiniteSet(B)
    <3>1. IsFiniteSet(Lots) /\ B \in SUBSET Lots
      BY LinesAndLots DEF Before
    <3>2. IsFiniteSet(B)
      BY <3>1, FS_Subset
    <3> QED BY <3>2, SupplyIsNat
  <2>2. Closed(B, lots)
    BY ByAgeOrders DEF Closed, Before
  <2>3. \A j \in lots : cut[j] = Cut(Supply(stock, j, lots), stock[j], c, d)
    OBVIOUS
  <2>4. SumFunctionOnSet(cut, B) = Most(0, Least(a, c + d) - c)
    <3>1. SumFunctionOnSet(cut, B) = Most(0, Least(SumFunctionOnSet(stock, B), c + d) - c)
      BY <2>1, <2>2, <2>3, CutsOfLine
    <3> QED BY <3>1, Zenon DEF Supply
  <2>5. \A j \in lots : cut[j] \in Nat
    <3>1. \A j \in lots : Supply(stock, j, lots) \in Nat
      BY SupplyIsNat
    <3> QED BY <2>3, <3>1, CutsAddUp
  <2>6. SumFunction(g) = SumFunctionOnSet(cut, B)
    <3>1. DOMAIN g = B /\ \A j \in B : cut[j] \in Int /\ g[j] = cut[j]
      BY <2>1, <2>5
    <3> HIDE DEF g, B
    <3>2. SumFunctionOnSet(g, B) = SumFunctionOnSet(cut, B)
      BY <3>1, <2>1, SumsAgree
    <3> QED BY <3>1, <3>2, Zenon DEF SumFunction
  <2>7. cut[k] = Cut(a, s, c, d)
    OBVIOUS
  <2>8. col[k] = s - Most(0, Least(a + s, c) - a)
    OBVIOUS
  <2> HIDE DEF a, s, g, B
  <2>9. Cut(a, s, c, d) = Least(s - Most(0, Least(a + s, c) - a), d - Most(0, Least(a, c + d) - c))
    <3>1. \A x, y, z, w \in Nat :
            Cut(x, y, z, w) = Least(y - Most(0, Least(x + y, z) - x), w - Most(0, Least(x, z + w) - z))
      <4> TAKE x, y, z, w \in Nat
      <4> QED BY CutsAddUp
    <3> QED BY <2>1, <3>1
  <2>10. col[k] \in Int /\ d - SumFunction(g) \in Int
    <3>1. \A x, y, z, w \in Nat :
            y - Most(0, Least(x + y, z) - x) \in Int /\ w - Most(0, Least(x, z + w) - z) \in Int
      BY DEF Most, Least
    <3>2. col[k] \in Int
      BY <2>1, <2>8, <3>1
    <3>3. d - SumFunction(g) = d - Most(0, Least(a, c + d) - c)
      BY <2>4, <2>6, Zenon
    <3> QED BY <2>1, <3>1, <3>2, <3>3
  <2>11. cut[k] = Min({col[k], d - SumFunction(g)})
    BY <2>4, <2>6, <2>7, <2>8, <2>9, <2>10, MinMaxOfTwo
  <2> QED BY <2>11 DEF g, B
<1>2. SolvesRow(cut, col, d, lots)
  BY <1>1 DEF SolvesRow
<1>3. ASSUME NEW row, SolvesRow(row, col, d, lots)
      PROVE  row = cut
  <2> DEFINE wrong == {k \in lots : row[k] # cut[k]}
  <2>1. row = [k \in lots |-> row[k]] /\ cut = [k \in lots |-> cut[k]]
    BY <1>3 DEF SolvesRow
  <2> SUFFICES ASSUME wrong # {} PROVE FALSE
    BY <2>1
  <2>2. PICK k \in wrong : \A j \in wrong : j = k \/ ByAge(k, j)
    BY OldestAndNewest
  <2>3. \A j \in Before(k, lots) : row[j] = cut[j]
    BY <2>2, ByAgeOrders DEF Before
  <2>4. [j \in Before(k, lots) |-> row[j]] = [j \in Before(k, lots) |-> cut[j]]
    BY <2>3
  <2>5. row[k] = Min({col[k], d - SumFunction([j \in Before(k, lots) |-> row[j]])})
    BY <1>3, <2>2 DEF SolvesRow
  <2>6. row[k] = cut[k]
    BY <1>1, <2>2, <2>4, <2>5
  <2> QED BY <2>2, <2>6
<1> QED BY <1>2, <1>3

-----------------------------------------------------------------------------
(* The recursion over the lines.                                           *)

\* Nobody has more of a lot than there is: supply and demand are not negative.
QuantitiesAreNat(r) ==
  (\A k \in Lots : Available(r, k) \in Nat) /\ (\A i \in Lines : Needed(r, i) \in Nat)

StockOf(r) == [k \in Lots |-> Available(r, k)]
NeedOf(r) == [i \in Lines |-> Needed(r, i)]
FifoCut(r) ==
  [i \in Lines |-> [k \in LotsOf(r) |-> CutAt(StockOf(r), NeedOf(r), LotsOf(r), i, k)]]

\* The equations of the recursive functions row and take in Suggestion.
IsRow(row, take, i, r) ==
  row = [k \in LotsOf(r) |->
           Min({Available(r, k) - SumFunction([h \in 1..(i-1) |-> take[h][k]]),
                Needed(r, i) - SumFunction([j \in Before(k, LotsOf(r)) |-> row[j]])})]
IsTake(take, r) == take = [i \in Lines |-> CHOOSE row : IsRow(row, take, i, r)]

LEMMA UnfoldSuggestion ==
  ASSUME NEW r
  PROVE  Suggestion(r) =
           [i \in Lines |-> [k \in Lots |->
              IF k \in LotsOf(r) THEN (CHOOSE t : IsTake(t, r))[i][k] ELSE 0]]
BY Zenon DEF Suggestion, IsTake, IsRow

\* Given the lines above, a line is cut as FifoCut says.
LEMMA RowIsCut ==
  ASSUME NEW r, QuantitiesAreNat(r), NEW i \in Lines, NEW take,
         \A h \in 1..(i-1) : take[h] = FifoCut(r)[h]
  PROVE  (CHOOSE row : IsRow(row, take, i, r)) = FifoCut(r)[i]
<1> DEFINE lots == LotsOf(r)
           stock == StockOf(r)
           need == NeedOf(r)
           c == Wanted(need, i - 1)
           d == Needed(r, i)
           col == [k \in lots |-> Available(r, k) - SumFunction([h \in 1..(i-1) |-> take[h][k]])]
           cut == [k \in lots |-> Cut(Supply(stock, k, lots), stock[k], c, d)]
<1>1. /\ lots \in SUBSET Lots /\ \A k \in lots : stock[k] \in Nat /\ stock[k] = Available(r, k)
      /\ \A h \in Lines : need[h] \in Nat /\ need[h] = Needed(r, h)
  BY DEF LotsOf, QuantitiesAreNat, StockOf, NeedOf
<1>2. FifoCut(r)[i] = cut
  BY <1>1 DEF FifoCut, CutAt
<1>3. /\ i - 1 \in Nat /\ 1..(i-1) \subseteq Lines /\ d \in Nat
      /\ \A h \in 1..(i-1) : need[h] \in Nat
  BY <1>1, LinesAndLots DEF QuantitiesAreNat
<1>4. c \in Nat
  <2>1. \A h \in 0..(i-1) : Wanted(need, h) \in Nat
    BY <1>3, WantedIsNat
  <2> QED BY <1>3, <2>1
<1>5. ASSUME NEW k \in lots
      PROVE  col[k] = stock[k] - Most(0, Least(Supply(stock, k, lots) + stock[k], c)
                                           - Supply(stock, k, lots))
  <2> DEFINE a == Supply(stock, k, lots)
             s == stock[k]
             f == [h \in 1..(i-1) |-> take[h][k]]
             W(h) == Wanted(need, h)
  <2>1. a \in Nat /\ s \in Nat
    BY <1>1, SupplyIsNat
  <2>2. \A h \in 1..(i-1) : f[h] = Cut(a, s, W(h - 1), need[h])
    <3>1. \A h \in 1..(i-1) : take[h] = FifoCut(r)[h] /\ h \in Lines
      BY <1>3
    <3>2. \A h \in Lines : FifoCut(r)[h][k] = Cut(a, s, W(h - 1), need[h])
      BY DEF FifoCut, CutAt
    <3> HIDE DEF a, s, W
    <3> QED BY <3>1, <3>2
  <2>3. DOMAIN f = 1..(i-1)
    OBVIOUS
  <2>4. col[k] = stock[k] - SumFunction(f)
    BY <1>1
  <2> HIDE DEF a, s, f, W, need
  <2>5. Wanted(need, i-1) = W(i-1)
    BY DEF W
  <2>6. SumFunctionOnSet(f, 1..(i-1)) = Most(0, Least(a + s, W(i-1)) - a)
    <3>1. PICK m, nd, g, x, y : m = i - 1 /\ nd = need /\ g = f /\ x = a /\ y = s
      BY Zenon
    <3>2. m \in Nat /\ x \in Nat /\ y \in Nat /\ \A h \in 1..m : nd[h] \in Nat
      BY <1>3, <2>1, <3>1
    <3>3. TakesOfLot(g, m, nd, x, y)
      BY <2>2, <3>1, <3>2 DEF W, TakesOfLot
    <3>4. \A h \in 0..m : SumFunctionOnSet(g, 1..h) = Most(0, Least(x + y, Wanted(nd, h)) - x)
      BY <3>3, CutsOfLot
    <3>5. m \in 0..m
      BY <3>2
    <3>6. SumFunctionOnSet(g, 1..m) = Most(0, Least(x + y, Wanted(nd, m)) - x)
      BY <3>4, <3>5
    <3> QED BY <2>5, <3>1, <3>6
  <2>7. SumFunction(f) = SumFunctionOnSet(f, 1..(i-1))
    BY <2>3, Zenon DEF SumFunction
  <2> QED BY <2>4, <2>6, <2>7, Zenon DEF a, s, W, need
<1>6. \A row : IsRow(row, take, i, r) <=> SolvesRow(row, col, d, lots)
  <2>1. \A row : SolvesRow(row, col, d, lots) <=>
          row = [k \in lots |-> Min({Available(r, k) - SumFunction([h \in 1..(i-1) |-> take[h][k]]),
                                     d - SumFunction([j \in Before(k, lots) |-> row[j]])})]
    BY DEF SolvesRow
  <2> QED BY <2>1, Zenon DEF IsRow
<1>7. SolvesRow(cut, col, d, lots) /\ \A row : SolvesRow(row, col, d, lots) => row = cut
  <2> HIDE DEF lots, stock, c, d, col
  <2>1. lots \in SUBSET Lots /\ c \in Nat /\ d \in Nat /\ \A k \in lots : stock[k] \in Nat
    BY <1>1, <1>3, <1>4
  <2>2. \A k \in lots : col[k] = stock[k] - Most(0, Least(Supply(stock, k, lots) + stock[k], c)
                                                      - Supply(stock, k, lots))
    BY <1>5
  <2>3. cut = [k \in lots |-> Cut(Supply(stock, k, lots), stock[k], c, d)]
    OBVIOUS
  <2> HIDE DEF cut
  <2>4. PICK x, y, z, f, g, h : x = lots /\ y = c /\ z = d /\ f = stock /\ g = col /\ h = cut
    BY Zenon
  <2>5. /\ x \in SUBSET Lots /\ y \in Nat /\ z \in Nat /\ \A k \in x : f[k] \in Nat
        /\ \A k \in x : g[k] = f[k] - Most(0, Least(Supply(f, k, x) + f[k], y) - Supply(f, k, x))
        /\ h = [k \in x |-> Cut(Supply(f, k, x), f[k], y, z)]
    BY <2>1, <2>2, <2>3, <2>4
  <2>6. SolvesRow(h, g, z, x) /\ \A row : SolvesRow(row, g, z, x) => row = h
    BY <2>5, RowSolved
  <2> QED BY <2>4, <2>6
<1> HIDE DEF cut, col, d, lots
<1>8. (CHOOSE row : IsRow(row, take, i, r)) = cut
  BY <1>6, <1>7, Zenon
<1> QED BY <1>2, <1>8

\* What suggestFifo computes is the cut.
LEMMA SuggestionIsCut ==
  ASSUME NEW r, QuantitiesAreNat(r)
  PROVE  Suggestion(r) =
           [i \in Lines |-> [k \in Lots |->
              IF k \in LotsOf(r) THEN FifoCut(r)[i][k] ELSE 0]]
<1> DEFINE X == FifoCut(r)
<1>1. X = [i \in Lines |-> X[i]]
  BY DEF FifoCut
<1>2. \A i \in Lines : 1..(i-1) \subseteq Lines
  BY LinesAndLots
<1> HIDE DEF X
<1>3. IsTake(X, r)
  <2>1. \A i \in Lines : (CHOOSE row : IsRow(row, X, i, r)) = X[i]
    BY RowIsCut DEF X
  <2>2. X = [i \in Lines |-> CHOOSE row : IsRow(row, X, i, r)]
    BY <1>1, <2>1
  <2> QED BY <2>2, Zenon DEF IsTake
<1>4. ASSUME NEW take, IsTake(take, r)
      PROVE  take = X
  <2>1. take = [i \in Lines |-> CHOOSE row : IsRow(row, take, i, r)]
    BY <1>4, Zenon DEF IsTake
  <2> DEFINE wrong == {i \in Lines : take[i] # X[i]}
  <2>2. take = [i \in Lines |-> take[i]]
    BY <2>1
  <2> SUFFICES ASSUME wrong # {} PROVE FALSE
    BY <1>1, <2>2
  <2>3. PICK i \in wrong : \A j \in wrong : i <= j
    <3>1. wrong \in SUBSET Nat
      BY LinesAndLots
    <3> HIDE DEF wrong
    <3> QED BY <3>1, LeastNumber
  <2>4. \A h \in 1..(i-1) : take[h] = X[h]
    BY <1>2, <2>3, LinesAndLots
  <2>5. (CHOOSE row : IsRow(row, take, i, r)) = X[i]
    BY <2>3, <2>4, RowIsCut DEF X
  <2>6. take[i] = X[i]
    BY <2>1, <2>3, <2>5
  <2> QED BY <2>3, <2>6
<1>5. (CHOOSE t : IsTake(t, r)) = X
  BY <1>3, <1>4, Zenon
<1> DEFINE T == CHOOSE t : IsTake(t, r)
<1>6. Suggestion(r) =
        [i \in Lines |-> [k \in Lots |-> IF k \in LotsOf(r) THEN T[i][k] ELSE 0]]
  BY UnfoldSuggestion, Zenon
<1>7. T = X
  BY <1>5
<1> HIDE DEF T
<1> QED BY <1>6, <1>7 DEF X

-----------------------------------------------------------------------------
(* What a suggestion takes.                                                *)

Takes == [Lines -> [Lots -> Nat]]

LEMMA OnLotAndOfLine ==
  ASSUME NEW takes \in Takes
  PROVE  /\ \A k \in Lots : /\ OnLot(takes, k) \in Nat
                            /\ \A i \in Lines : takes[i][k] <= OnLot(takes, k)
         /\ \A i \in Lines : OfLine(takes, i) \in Nat
<1>1. \A i \in Lines, k \in Lots : takes[i][k] \in Nat
  BY DEF Takes
<1>2. ASSUME NEW k \in Lots
      PROVE  OnLot(takes, k) \in Nat /\ \A i \in Lines : takes[i][k] <= OnLot(takes, k)
  <2> DEFINE f == [i \in Lines |-> takes[i][k]]
  <2>1. /\ IsFiniteSet(Lines) /\ OnLot(takes, k) = SumFunctionOnSet(f, Lines)
        /\ \A i \in Lines : f[i] \in Int /\ f[i] >= 0 /\ f[i] = takes[i][k]
    BY <1>1, LinesAndLots DEF OnLot, SumFunction
  <2> HIDE DEF f
  <2>2. SumFunctionOnSet(f, Lines) \in Int
    BY <2>1, SumIsInt
  <2>3. SumFunctionOnSet(f, Lines) >= 0 /\ \A i \in Lines : SumFunctionOnSet(f, Lines) >= f[i]
    BY <2>1, SumAtLeast
  <2> QED BY <2>1, <2>2, <2>3
<1>3. ASSUME NEW i \in Lines
      PROVE  OfLine(takes, i) \in Nat
  <2> DEFINE f == [k \in Lots |-> takes[i][k]]
  <2>1. /\ IsFiniteSet(Lots) /\ OfLine(takes, i) = SumFunctionOnSet(f, Lots)
        /\ \A k \in Lots : f[k] \in Int /\ f[k] >= 0
    BY <1>1, LinesAndLots DEF OfLine, SumFunction
  <2> HIDE DEF f
  <2>2. SumFunctionOnSet(f, Lots) \in Int
    BY <2>1, SumIsInt
  <2>3. SumFunctionOnSet(f, Lots) >= 0
    BY <2>1, SumAtLeast
  <2> QED BY <2>1, <2>2, <2>3
<1> QED BY <1>2, <1>3

\* Where a suggestion stands: before a lot, and above a line.
LEMMA PlacesAreNat ==
  ASSUME NEW r, QuantitiesAreNat(r)
  PROVE  /\ LotsOf(r) \in SUBSET Lots
         /\ \A k \in Lots : /\ StockOf(r)[k] = Available(r, k) /\ StockOf(r)[k] \in Nat
                            /\ Supply(StockOf(r), k, LotsOf(r)) \in Nat
         /\ \A i \in Lines : /\ NeedOf(r)[i] = Needed(r, i) /\ NeedOf(r)[i] \in Nat
                             /\ Wanted(NeedOf(r), i - 1) \in Nat
<1>1. /\ LotsOf(r) \in SUBSET Lots
      /\ \A k \in Lots : StockOf(r)[k] = Available(r, k) /\ StockOf(r)[k] \in Nat
      /\ \A i \in Lines : NeedOf(r)[i] = Needed(r, i) /\ NeedOf(r)[i] \in Nat
  BY DEF LotsOf, QuantitiesAreNat, StockOf, NeedOf
<1>2. \A k \in LotsOf(r) : StockOf(r)[k] \in Nat
  BY <1>1
<1>3. \A k \in Lots : Supply(StockOf(r), k, LotsOf(r)) \in Nat
  BY <1>1, <1>2, SupplyIsNat
<1>4. PICK n \in Nat : n = Len(Demand) /\ Lines = 1..n
  BY LinesAndLots
<1>5. \A i \in 0..n : Wanted(NeedOf(r), i) \in Nat
  BY <1>1, <1>4, WantedIsNat
<1>6. \A i \in Lines : Wanted(NeedOf(r), i - 1) \in Nat
  BY <1>4, <1>5
<1> QED BY <1>1, <1>3, <1>6

LEMMA SuggestionFits ==
  ASSUME NEW r, QuantitiesAreNat(r), NEW takes, takes = Suggestion(r)
  PROVE  /\ takes \in Takes
         /\ \A k \in Lots : OnLot(takes, k) <= Available(r, k)
         /\ \A i \in Lines : OfLine(takes, i) <= Needed(r, i)
<1> DEFINE Cell(i, k) == CutAt(StockOf(r), NeedOf(r), LotsOf(r), i, k)
<1>1. takes = [i \in Lines |-> [k \in Lots |-> IF k \in LotsOf(r) THEN Cell(i, k) ELSE 0]]
  <2>1. \A i \in Lines, k \in LotsOf(r) : FifoCut(r)[i][k] = Cell(i, k)
    BY DEF FifoCut
  <2>2. takes = [i \in Lines |-> [k \in Lots |->
                   IF k \in LotsOf(r) THEN FifoCut(r)[i][k] ELSE 0]]
    BY SuggestionIsCut
  <2> HIDE DEF Cell
  <2> QED BY <2>1, <2>2
<1>2. \A i \in Lines, k \in Lots : Cell(i, k) \in Nat
  <2>1. \A x, y, z, w \in Nat : Cut(x, y, z, w) \in Nat
    BY CutsAddUp
  <2> QED BY <2>1, PlacesAreNat DEF CutAt
<1> HIDE DEF Cell
<1>3. takes \in Takes
  BY <1>1, <1>2 DEF Takes
<1>4. ASSUME NEW k \in Lots
      PROVE  OnLot(takes, k) <= Available(r, k)
  <2> DEFINE f == [i \in Lines |-> takes[i][k]]
  <2>1. OnLot(takes, k) = SumFunctionOnSet(f, Lines)
    BY DEF OnLot, SumFunction
  <2>2. CASE k \notin LotsOf(r)
    <3>1. \A i \in Lines : f[i] = 0
      BY <1>1, <2>2
    <3> HIDE DEF f
    <3>2. SumFunctionOnSet(f, Lines) = 0
      BY <3>1, LinesAndLots, SumOfZeros
    <3> QED BY <2>1, <3>2 DEF QuantitiesAreNat
  <2>3. CASE k \in LotsOf(r)
    <3>1. PICK n, need, a, s : /\ n = Len(Demand) /\ need = NeedOf(r) /\ s = StockOf(r)[k]
                               /\ a = Supply(StockOf(r), k, LotsOf(r))
      BY Zenon
    <3>2. /\ n \in Nat /\ Lines = 1..n /\ a \in Nat /\ s \in Nat /\ s = Available(r, k)
          /\ \A i \in Lines : need[i] \in Nat
      BY <3>1, LinesAndLots, PlacesAreNat
    <3>3. \A i \in Lines : f[i] = Cut(a, s, Wanted(need, i - 1), need[i])
      BY <1>1, <2>3, <3>1 DEF Cell, CutAt
    <3> HIDE DEF f
    <3>4. TakesOfLot(f, n, need, a, s)
      BY <3>2, <3>3 DEF TakesOfLot
    <3>5. \A i \in 0..n : SumFunctionOnSet(f, 1..i) = Most(0, Least(a + s, Wanted(need, i)) - a)
      BY <3>4, CutsOfLot
    <3>6. SumFunctionOnSet(f, Lines) = Most(0, Least(a + s, Wanted(need, n)) - a)
      BY <3>2, <3>5
    <3>7. Wanted(need, n) \in Nat
      <4>1. \A i \in 0..n : Wanted(need, i) \in Nat
        BY <3>2, WantedIsNat
      <4> QED BY <3>2, <4>1
    <3> QED BY <2>1, <3>2, <3>6, <3>7 DEF Most, Least
  <2> QED BY <2>2, <2>3
<1>5. ASSUME NEW i \in Lines
      PROVE  OfLine(takes, i) <= Needed(r, i)
  <2> DEFINE f == [k \in Lots |-> takes[i][k]]
             S == SumFunctionOnSet(StockOf(r), LotsOf(r))
  <2>1. OfLine(takes, i) = SumFunctionOnSet(f, Lots)
    BY DEF OfLine, SumFunction
  <2>2. PICK lots, stock, c, d : /\ lots = LotsOf(r) /\ stock = StockOf(r)
                                 /\ c = Wanted(NeedOf(r), i - 1) /\ d = NeedOf(r)[i]
    BY Zenon
  <2>3. /\ lots \in SUBSET Lots /\ c \in Nat /\ d \in Nat /\ d = Needed(r, i)
        /\ \A k \in lots : stock[k] \in Nat
    BY <2>2, PlacesAreNat
  <2>4. /\ \A k \in lots : f[k] = Cut(Supply(stock, k, lots), stock[k], c, d) /\ f[k] \in Int
        /\ \A k \in Lots \ lots : f[k] = 0
    <3>1. \A k \in lots : Cell(i, k) = Cut(Supply(stock, k, lots), stock[k], c, d)
      BY <2>2, Zenon DEF Cell, CutAt
    <3>2. \A k \in lots : f[k] = Cell(i, k) /\ f[k] \in Nat
      BY <1>1, <1>2, <2>2, <2>3
    <3>3. \A k \in Lots \ lots : f[k] = 0
      BY <1>1, <2>2
    <3> HIDE DEF f
    <3> QED BY <3>1, <3>2, <3>3
  <2> HIDE DEF f
  <2>5. Closed(lots, lots)
    BY DEF Closed
  <2>6. SumFunctionOnSet(f, lots) = Most(0, Least(SumFunctionOnSet(stock, lots), c + d) - c)
    BY <2>3, <2>4, <2>5, CutsOfLine
  <2>7. SumFunctionOnSet(f, Lots) = SumFunctionOnSet(f, lots)
    <3>1. \A k \in lots : f[k] \in Int /\ f[k] = f[k]
      BY <2>4
    <3>2. IsFiniteSet(Lots)
      BY LinesAndLots
    <3> QED BY <2>3, <2>4, <3>1, <3>2, SumOfPart
  <2>8. SumFunctionOnSet(stock, lots) \in Nat
    BY <2>3, SupplyIsNat
  <2> QED BY <2>1, <2>3, <2>6, <2>7, <2>8 DEF Most, Least
<1> QED BY <1>3, <1>4, <1>5

-----------------------------------------------------------------------------
(* What drafts hold of a lot, for any book of allocations.                 *)

HeldIn(book, k, some) == SumFunctionOnSet([d \in Batches |-> OnLot(book[d].takes, k)], some)
HasTakes(book) == \A d \in Batches : book[d].takes \in Takes

LEMMA HeldAddsUp ==
  ASSUME NEW book, HasTakes(book), NEW k \in Lots
  PROVE  /\ \A some \in SUBSET Batches : HeldIn(book, k, some) \in Nat
         /\ \A some \in SUBSET Batches, d \in Batches : d \in some =>
              /\ HeldIn(book, k, some) = OnLot(book[d].takes, k) + HeldIn(book, k, some \ {d})
              /\ OnLot(book[d].takes, k) \in Nat
<1> DEFINE f == [d \in Batches |-> OnLot(book[d].takes, k)]
<1>1. \A d \in Batches : f[d] = OnLot(book[d].takes, k) /\ f[d] \in Nat
  BY OnLotAndOfLine DEF HasTakes
<1>2. \A some : HeldIn(book, k, some) = SumFunctionOnSet(f, some)
  BY DEF HeldIn
<1> HIDE DEF f
<1>3. \A d \in Batches : f[d] \in Int /\ f[d] >= 0
  BY <1>1
<1>4. ASSUME NEW some \in SUBSET Batches
      PROVE  SumFunctionOnSet(f, some) \in Nat
  <2>1. IsFiniteSet(some)
    BY BatchesAreFinite, FS_Subset
  <2>2. \A d \in some : f[d] \in Int /\ f[d] >= 0
    BY <1>3
  <2>3. SumFunctionOnSet(f, some) \in Int
    BY <1>3, BatchesAreFinite, SumIsInt
  <2>4. SumFunctionOnSet(f, some) >= 0
    BY <2>1, <2>2, SumAtLeast
  <2> QED BY <2>3, <2>4
<1>5. ASSUME NEW some \in SUBSET Batches, NEW d \in some
      PROVE  SumFunctionOnSet(f, some) = f[d] + SumFunctionOnSet(f, some \ {d})
  BY <1>3, BatchesAreFinite, SumWithout
<1> QED BY <1>1, <1>2, <1>4, <1>5

\* Two books that agree on some allocations hold as much by them.
LEMMA HeldAlike ==
  ASSUME NEW book, NEW other, HasTakes(book), NEW k \in Lots, NEW some \in SUBSET Batches,
         \A d \in some : OnLot(other[d].takes, k) = OnLot(book[d].takes, k)
  PROVE  HeldIn(other, k, some) = HeldIn(book, k, some)
<1> DEFINE f == [d \in Batches |-> OnLot(book[d].takes, k)]
           g == [d \in Batches |-> OnLot(other[d].takes, k)]
<1>1. \A d \in some : f[d] \in Int /\ g[d] = f[d]
  BY OnLotAndOfLine DEF HasTakes
<1>2. IsFiniteSet(some)
  BY BatchesAreFinite, FS_Subset
<1>3. HeldIn(other, k, some) = SumFunctionOnSet(g, some)
      /\ HeldIn(book, k, some) = SumFunctionOnSet(f, some)
  BY DEF HeldIn
<1> HIDE DEF f, g
<1> QED BY <1>1, <1>2, <1>3, SumsAgree

\* Less is held by fewer.
LEMMA HeldByFewer ==
  ASSUME NEW book, HasTakes(book), NEW k \in Lots, NEW some \in SUBSET Batches, NEW d
  PROVE  HeldIn(book, k, some \ {d}) <= HeldIn(book, k, some)
<1>1. CASE d \in some
  <2>1. d \in Batches /\ some \ {d} \in SUBSET Batches
    BY <1>1
  <2> QED BY <1>1, <2>1, HeldAddsUp
<1>2. CASE d \notin some
  <2>1. some \ {d} = some
    BY <1>2
  <2>2. HeldIn(book, k, some) \in Nat
    BY HeldAddsUp
  <2>3. HeldIn(book, k, some \ {d}) = HeldIn(book, k, some)
    BY <2>1, Zenon
  <2> QED BY <2>2, <2>3
<1> QED BY <1>1, <1>2

-----------------------------------------------------------------------------
(* The invariant.                                                          *)

Requests == [on : BOOLEAN, edits : SUBSET Batches, waits : SUBSET Queries,
             given : [Lines -> Nat], lots : [Lots -> Nat], held : [Lots -> Nat],
             stale : SUBSET Lots]
FifoTypes ==
  /\ left \in [Lots -> Nat] /\ loose \in SUBSET Lots
  /\ batch \in [Batches -> [status : {"none", "DRAFT", "CONFIRMED", "CANCELLED"}, takes : Takes]]
  /\ asked \in [Askers -> Requests]

\* The answers about a lot leave no less to others than they hold: as long as one
\* of the two is missing, the other may count too much but not too little.
FitsLot(r, k, reserved, there) ==
  /\ "lots" \notin r.waits /\ "drafts" \notin r.waits => reserved + r.lots[k] <= there + r.held[k]
  /\ "lots" \notin r.waits /\ "drafts" \in r.waits => r.lots[k] <= there
  /\ "lots" \in r.waits /\ "drafts" \notin r.waits => reserved <= r.held[k]
MaySave(r) == r.on /\ \A b \in r.edits : batch[b].status \in {"none", "DRAFT"}
AnswersFit(r) ==
  MaySave(r) =>
    \A k \in Lots : k \notin r.stale /\ k \notin loose => FitsLot(r, k, Reserved(k, r.edits), left[k])

FifoInv == FifoTypes /\ (\A c \in Askers : AnswersFit(asked[c])) /\ DraftsFitUnlessLoose

\* What the answers make of supply and demand.
LEMMA AnswersAreNat ==
  ASSUME NEW r \in Requests
  PROVE  /\ QuantitiesAreNat(r)
         /\ \A k \in Lots : Available(r, k) > 0 => Available(r, k) + r.held[k] = r.lots[k]
<1>1. \A x \in Int : Max({0, x}) = Most(0, x)
  BY MinMaxOfTwo
<1>2. ASSUME NEW k \in Lots
      PROVE  /\ Available(r, k) \in Nat
             /\ Available(r, k) > 0 => Available(r, k) + r.held[k] = r.lots[k]
  <2>1. r.lots[k] \in Nat /\ r.held[k] \in Nat
    BY DEF Requests
  <2>2. r.lots[k] - r.held[k] \in Int
    BY <2>1
  <2>3. Available(r, k) = Most(0, r.lots[k] - r.held[k])
    BY <1>1, <2>2 DEF Available
  <2> QED BY <2>1, <2>3 DEF Most
<1>3. ASSUME NEW i \in Lines
      PROVE  Needed(r, i) \in Nat
  <2>1. Demand[i] \in Nat /\ r.given[i] \in Nat
    BY LinesAndLots DEF Requests
  <2>2. Demand[i] - r.given[i] \in Int
    BY <2>1
  <2>3. Needed(r, i) = Most(0, Demand[i] - r.given[i])
    BY <1>1, <2>2 DEF Needed
  <2> QED BY <2>2, <2>3 DEF Most
<1> QED BY <1>2, <1>3 DEF QuantitiesAreNat

\* What the queries can read.
LEMMA QuantitiesOfState ==
  ASSUME FifoTypes
  PROVE  /\ HasTakes(batch)
         /\ \A i \in Lines : AlreadyAllocated(i) \in Nat
         /\ \A k \in Lots : \A edits : Reserved(k, edits) \in Nat
<1>1. HasTakes(batch)
  BY DEF FifoTypes, HasTakes
<1>2. ASSUME NEW k \in Lots, NEW edits
      PROVE  Reserved(k, edits) \in Nat
  <2>1. Reserved(k, edits) = HeldIn(batch, k, Having("DRAFT") \ edits)
    BY DEF Reserved, Held, HeldIn
  <2>2. Having("DRAFT") \ edits \in SUBSET Batches
    BY DEF Having
  <2> QED BY <1>1, <2>1, <2>2, HeldAddsUp
<1>3. ASSUME NEW i \in Lines
      PROVE  AlreadyAllocated(i) \in Nat
  <2> DEFINE g(b) == [k \in Lots |-> ItemFor(batch[b].takes, i, k)]
             f == [b \in Batches |-> SumFunction(g(b))]
  <2>1. ASSUME NEW b \in Batches
        PROVE  SumFunction(g(b)) \in Nat
    <3>1. DOMAIN g(b) = Lots /\ \A k \in Lots : g(b)[k] = ItemFor(batch[b].takes, i, k)
      OBVIOUS
    <3>2. \A k \in Lots : ItemFor(batch[b].takes, i, k) \in Nat
      <4>1. \A k \in Lots : OnLot(batch[b].takes, k) \in Nat
        BY <1>1, OnLotAndOfLine DEF HasTakes
      <4> QED BY <4>1 DEF ItemFor
    <3> HIDE DEF g
    <3>3. \A k \in Lots : g(b)[k] \in Int /\ g(b)[k] >= 0
      BY <3>1, <3>2
    <3>4. SumFunctionOnSet(g(b), Lots) \in Int /\ SumFunctionOnSet(g(b), Lots) >= 0
      BY <3>3, LinesAndLots, SumIsInt, SumAtLeast
    <3>5. SumFunctionOnSet(g(b), Lots) \in Nat
      BY <3>4
    <3> QED BY <3>1, <3>5, Zenon DEF SumFunction
  <2>2. AlreadyAllocated(i) = SumFunctionOnSet(f, Having("CONFIRMED"))
    BY DEF AlreadyAllocated
  <2>3. \A b \in Having("CONFIRMED") : f[b] \in Int /\ f[b] >= 0
    BY <2>1 DEF Having
  <2>4. IsFiniteSet(Having("CONFIRMED"))
    <3>1. Having("CONFIRMED") \in SUBSET Batches
      BY DEF Having
    <3> QED BY <3>1, BatchesAreFinite, FS_Subset
  <2>5. \A b \in Batches : f[b] \in Int
    BY <2>1
  <2>6. Having("CONFIRMED") \in SUBSET Batches
    BY DEF Having
  <2> HIDE DEF f
  <2>7. SumFunctionOnSet(f, Having("CONFIRMED")) \in Int
    BY <2>5, <2>6, BatchesAreFinite, SumIsInt
  <2>8. SumFunctionOnSet(f, Having("CONFIRMED")) >= 0
    BY <2>3, <2>4, SumAtLeast
  <2> QED BY <2>2, <2>7, <2>8
<1> QED BY <1>1, <1>2, <1>3

\* A saved suggestion holds its lots; nobody else holds more.
SavedIn(other, book, b, now) ==
  /\ HasTakes(book) /\ b \in Batches /\ now \in Takes /\ book = [d \in Batches |-> book[d]]
  /\ other = [book EXCEPT ![b] = [status |-> "DRAFT", takes |-> now]]

LEMMA DraftHeld ==
  ASSUME NEW other, NEW book, NEW b, NEW now, SavedIn(other, book, b, now)
  PROVE  /\ HasTakes(other)
         /\ \A some \in SUBSET Batches, k \in Lots :
              /\ b \notin some => HeldIn(other, k, some) = HeldIn(book, k, some)
              /\ b \in some => HeldIn(other, k, some) = OnLot(now, k) + HeldIn(book, k, some \ {b})
<1> USE DEF SavedIn
<1>1. \A d \in Batches : /\ d # b => other[d] = book[d]
                         /\ other[b].takes = now
  OBVIOUS
<1>2. HasTakes(other)
  BY <1>1 DEF HasTakes
<1>3. ASSUME NEW some \in SUBSET Batches, NEW k \in Lots, b \notin some
      PROVE  HeldIn(other, k, some) = HeldIn(book, k, some)
  <2>1. \A d \in some : OnLot(other[d].takes, k) = OnLot(book[d].takes, k)
    BY <1>1, <1>3
  <2> QED BY <2>1, HeldAlike
<1>4. ASSUME NEW some \in SUBSET Batches, NEW k \in Lots, b \in some
      PROVE  HeldIn(other, k, some) = OnLot(now, k) + HeldIn(book, k, some \ {b})
  <2>1. some \ {b} \in SUBSET Batches
    OBVIOUS
  <2>2. \A d \in some \ {b} : OnLot(other[d].takes, k) = OnLot(book[d].takes, k)
    BY <1>1
  <2>3. HeldIn(other, k, some \ {b}) = HeldIn(book, k, some \ {b})
    BY <2>1, <2>2, HeldAlike
  <2>4. HeldIn(other, k, some) = OnLot(other[b].takes, k) + HeldIn(other, k, some \ {b})
    BY <1>2, <1>4, HeldAddsUp
  <2> QED BY <1>1, <2>3, <2>4
<1> QED BY <1>2, <1>3, <1>4

-----------------------------------------------------------------------------
(* Its proof: one lemma for each kind of step.                             *)

\* Held and Reserved, as what a book of allocations holds.
LEMMA HeldInBook ==
  /\ \A k, some : Held(k, some) = HeldIn(batch, k, some)
  /\ \A k, edits : Reserved(k, edits) = HeldIn(batch, k, Having("DRAFT") \ edits)
  /\ Having("DRAFT") \in SUBSET Batches
BY DEF Held, Reserved, HeldIn, Having

LEMMA NotAskedIsRequest == NotAsked \in Requests /\ ~NotAsked.on
BY DEF NotAsked, Requests

LEMMA TypesAtFirst ==
  ASSUME FifoInit
  PROVE  FifoInv
<1>1. Nothing \in Takes
  BY DEF Nothing, Takes
<1>2. FifoTypes
  BY <1>1, LinesAndLots, NotAskedIsRequest DEF FifoInit, FifoTypes
<1>3. \A c \in Askers : AnswersFit(asked[c])
  BY NotAskedIsRequest DEF FifoInit, AnswersFit, MaySave
<1>4. Having("DRAFT") = {}
  BY DEF FifoInit, Having
<1>5. \A k \in Lots : Held(k, {}) = 0
  BY SumOfNothing DEF Held
<1>6. \A k \in Lots : Held(k, Having("DRAFT")) = 0 /\ left[k] \in Nat
  BY <1>2, <1>4, <1>5, Zenon DEF FifoTypes
<1>7. DraftsFitUnlessLoose
  BY <1>6 DEF DraftsFitUnlessLoose
<1> QED BY <1>2, <1>3, <1>7 DEF FifoInv

\* A client asks, has an answer, or forgets: nobody else is concerned.
LEMMA OneRequest ==
  ASSUME FifoInv, NEW c \in Askers, NEW r \in Requests, AnswersFit(r),
         asked' = [asked EXCEPT ![c] = r], UNCHANGED <<left, batch, loose>>
  PROVE  FifoInv'
<1>1. \A e \in Askers : asked'[e] = IF e = c THEN r ELSE asked[e]
  BY DEF FifoInv, FifoTypes
<1>2. FifoTypes'
  BY DEF FifoInv, FifoTypes
<1>3. /\ \A k, edits : Reserved(k, edits)' = Reserved(k, edits)
      /\ \A k : Held(k, Having("DRAFT"))' = Held(k, Having("DRAFT"))
  BY DEF Reserved, Held, Having
<1>4. DraftsFitUnlessLoose'
  BY <1>3 DEF FifoInv, DraftsFitUnlessLoose
<1>5. ASSUME NEW e \in Askers
      PROVE  AnswersFit(asked[e])'
  <2>1. PICK now : now = asked'[e] /\ AnswersFit(now)
    BY <1>1 DEF FifoInv
  <2> QED BY <1>3, <2>1 DEF AnswersFit, MaySave
<1> QED BY <1>2, <1>4, <1>5 DEF FifoInv

\* The answer about the lots, or that about the drafts, which is right when it
\* is given and goes with the other if that came first.
LEMMA RequestKeepsFifo ==
  ASSUME FifoInv, NEW c \in Askers,
         \/ \E edits \in {{}} \cup {{b} : b \in Batches} : Ask(c, edits)
         \/ QueryConfirmed(c) \/ QueryDrafts(c) \/ Forget(c)
         \/ \E day \in SalesDates : QueryLots(c, day)
  PROVE  FifoInv'
<1>1. asked[c] \in Requests /\ AnswersFit(asked[c]) /\ FifoTypes
  BY DEF FifoInv, FifoTypes
<1>2. ASSUME NEW edits \in {{}} \cup {{b} : b \in Batches}, Ask(c, edits)
      PROVE  FifoInv'
  <2> DEFINE r == [NotAsked EXCEPT !.on = TRUE, !.edits = edits, !.waits = Queries]
  <2>1. r \in Requests /\ "lots" \in r.waits /\ "drafts" \in r.waits
    BY DEF NotAsked, Requests, Queries
  <2>2. asked' = [asked EXCEPT ![c] = r] /\ UNCHANGED <<left, batch, loose>>
    BY <1>2 DEF Ask
  <2> HIDE DEF r
  <2>3. AnswersFit(r)
    BY <2>1 DEF AnswersFit, FitsLot
  <2> QED BY <2>1, <2>2, <2>3, OneRequest
<1>3. ASSUME QueryConfirmed(c)
      PROVE  FifoInv'
  <2> DEFINE r == [asked[c] EXCEPT !.waits = @ \ {"given"},
                                   !.given = [i \in Lines |-> AlreadyAllocated(i)]]
  <2>1. [i \in Lines |-> AlreadyAllocated(i)] \in [Lines -> Nat]
    BY <1>1, QuantitiesOfState
  <2>2. /\ r \in Requests /\ r.on = asked[c].on /\ r.edits = asked[c].edits
        /\ r.lots = asked[c].lots /\ r.held = asked[c].held /\ r.stale = asked[c].stale
        /\ "lots" \in r.waits <=> "lots" \in asked[c].waits
        /\ "drafts" \in r.waits <=> "drafts" \in asked[c].waits
    BY <1>1, <2>1 DEF Requests
  <2>3. asked' = [asked EXCEPT ![c] = r] /\ UNCHANGED <<left, batch, loose>>
    BY <1>3 DEF QueryConfirmed
  <2> HIDE DEF r
  <2>4. AnswersFit(r)
    BY <1>1, <2>2 DEF AnswersFit, MaySave, FitsLot
  <2> QED BY <2>2, <2>3, <2>4, OneRequest
<1>4. ASSUME NEW day \in SalesDates, QueryLots(c, day)
      PROVE  FifoInv'
  <2> DEFINE lots == [k \in Lots |-> IF LotDate[k] <= day THEN left[k] ELSE 0]
             r == [asked[c] EXCEPT !.waits = @ \ {"lots"}, !.lots = lots]
  <2>1. lots \in [Lots -> Nat] /\ \A k \in Lots : lots[k] <= left[k] /\ left[k] \in Nat
    BY <1>1 DEF FifoTypes
  <2>2. "lots" \in asked[c].waits
    BY <1>4 DEF QueryLots
  <2>3. asked' = [asked EXCEPT ![c] = r] /\ UNCHANGED <<left, batch, loose>>
    BY <1>4 DEF QueryLots
  <2> HIDE DEF lots
  <2>4. /\ r \in Requests /\ r.on = asked[c].on /\ r.edits = asked[c].edits
        /\ r.lots = lots /\ r.held = asked[c].held /\ r.stale = asked[c].stale
        /\ "lots" \notin r.waits /\ ("drafts" \in r.waits <=> "drafts" \in asked[c].waits)
    BY <1>1, <2>1 DEF Requests
  <2> HIDE DEF r
  <2>5. AnswersFit(r)
    <3> SUFFICES ASSUME MaySave(r), NEW k \in Lots, k \notin r.stale, k \notin loose
                 PROVE  FitsLot(r, k, Reserved(k, r.edits), left[k])
      BY DEF AnswersFit
    <3>1. FitsLot(asked[c], k, Reserved(k, r.edits), left[k])
      BY <1>1, <2>4 DEF AnswersFit, MaySave
    <3>2. Reserved(k, r.edits) \in Nat /\ r.held[k] \in Nat
      BY <1>1, <2>4, QuantitiesOfState DEF Requests
    <3> QED BY <2>1, <2>2, <2>4, <3>1, <3>2 DEF FitsLot
  <2> QED BY <2>3, <2>4, <2>5, OneRequest
<1>5. ASSUME QueryDrafts(c)
      PROVE  FifoInv'
  <2> DEFINE held == [k \in Lots |-> Reserved(k, asked[c].edits)]
             r == [asked[c] EXCEPT !.waits = @ \ {"drafts"}, !.held = held]
  <2>1. held \in [Lots -> Nat] /\ \A k \in Lots : held[k] = Reserved(k, asked[c].edits)
    BY <1>1, QuantitiesOfState
  <2>2. "drafts" \in asked[c].waits
    BY <1>5 DEF QueryDrafts
  <2>3. asked' = [asked EXCEPT ![c] = r] /\ UNCHANGED <<left, batch, loose>>
    BY <1>5 DEF QueryDrafts
  <2> HIDE DEF held
  <2>4. /\ r \in Requests /\ r.on = asked[c].on /\ r.edits = asked[c].edits
        /\ r.lots = asked[c].lots /\ r.held = held /\ r.stale = asked[c].stale
        /\ "drafts" \notin r.waits /\ ("lots" \in r.waits <=> "lots" \in asked[c].waits)
    BY <1>1, <2>1 DEF Requests
  <2> HIDE DEF r
  <2>5. AnswersFit(r)
    <3> SUFFICES ASSUME MaySave(r), NEW k \in Lots, k \notin r.stale, k \notin loose
                 PROVE  FitsLot(r, k, Reserved(k, r.edits), left[k])
      BY DEF AnswersFit
    <3>1. FitsLot(asked[c], k, Reserved(k, r.edits), left[k])
      BY <1>1, <2>4 DEF AnswersFit, MaySave
    <3>2. /\ Reserved(k, r.edits) \in Nat /\ r.lots[k] \in Nat /\ left[k] \in Nat
          /\ r.held[k] = Reserved(k, r.edits)
      BY <1>1, <2>1, <2>4, QuantitiesOfState DEF Requests, FifoTypes
    <3> QED BY <2>2, <2>4, <3>1, <3>2 DEF FitsLot
  <2> QED BY <2>3, <2>4, <2>5, OneRequest
<1>6. ASSUME Forget(c)
      PROVE  FifoInv'
  <2>1. asked' = [asked EXCEPT ![c] = NotAsked] /\ UNCHANGED <<left, batch, loose>>
    BY <1>6 DEF Forget
  <2>2. NotAsked \in Requests /\ AnswersFit(NotAsked)
    BY NotAskedIsRequest DEF AnswersFit, MaySave
  <2> QED BY <2>1, <2>2, OneRequest
<1> QED BY <1>2, <1>3, <1>4, <1>5, <1>6

\* What the others' requests become when an allocation is saved or confirmed.
StillAsked(now, was, lots, marked) ==
  /\ now \in Requests
  /\ now.on = was.on /\ now.edits = was.edits /\ now.waits = was.waits
  /\ now.lots = was.lots /\ now.held = was.held
  /\ now.stale = IF marked THEN was.stale \cup lots ELSE was.stale

LEMMA DisturbedIsAsked ==
  ASSUME FifoTypes, NEW lots \in SUBSET Lots, NEW these, NEW those
  PROVE  \A e \in Askers :
           StillAsked(Disturb(lots, these, those)[e], asked[e], lots,
                      asked[e].on /\ these \cap asked[e].waits = {} /\ those \subseteq asked[e].waits)
<1> SUFFICES ASSUME NEW e \in Askers
             PROVE  StillAsked(Disturb(lots, these, those)[e], asked[e], lots,
                      asked[e].on /\ these \cap asked[e].waits = {} /\ those \subseteq asked[e].waits)
  OBVIOUS
<1> DEFINE marked == asked[e].on /\ these \cap asked[e].waits = {} /\ those \subseteq asked[e].waits
           was == asked[e]
           more == [was EXCEPT !.stale = @ \cup lots]
<1>1. Disturb(lots, these, those)[e] = IF marked THEN more ELSE was
  BY DEF Disturb
<1>2. was \in Requests
  BY DEF FifoTypes
<1> HIDE DEF was, marked
<1>3. /\ more \in Requests /\ more.on = was.on /\ more.edits = was.edits /\ more.waits = was.waits
      /\ more.lots = was.lots /\ more.held = was.held /\ more.stale = was.stale \cup lots
  BY <1>2 DEF Requests
<1> HIDE DEF more
<1>4. StillAsked(IF marked THEN more ELSE was, was, lots, marked)
  BY <1>2, <1>3 DEF StillAsked
<1> QED BY <1>1, <1>4 DEF was, marked

\* Answers that fit still do when less is held and more is there.
LEMMA FitsAsBefore ==
  ASSUME NEW now, NEW was \in Requests, NEW lots, NEW marked, StillAsked(now, was, lots, marked),
         NEW k \in Lots, NEW x \in Nat, NEW y \in Nat, NEW m \in Nat, NEW n \in Nat,
         FitsLot(was, k, x, m),
         "drafts" \notin was.waits => y <= x /\ m + y <= n + x,
         "lots" \notin was.waits /\ "drafts" \in was.waits => m <= n
  PROVE  FitsLot(now, k, y, n)
<1>1. was.lots[k] \in Nat /\ was.held[k] \in Nat
  BY DEF Requests
<1>2. now.waits = was.waits /\ now.lots = was.lots /\ now.held = was.held
  BY DEF StillAsked
<1> QED BY <1>1, <1>2 DEF FitsLot

LEMMA SaveKeepsFifo ==
  ASSUME FifoInv, NEW c \in Askers, NEW b \in Batches, SaveSuggested(c, b)
  PROVE  FifoInv'
<1> USE DEF FifoInv
<1>1. PICK now, r, used : /\ r = asked[c] /\ now = Suggestion(r) /\ used = UsedLots(now)
                          /\ used = {k \in Lots : OnLot(now, k) > 0}
  BY DEF UsedLots
<1>2. /\ Ready(c)
      /\ \/ r.edits = {} /\ batch[b].status = "none"
         \/ r.edits = {b} /\ batch[b].status = "DRAFT"
      /\ batch' = [batch EXCEPT ![b] = [status |-> "DRAFT", takes |-> now]]
      /\ asked' = [Disturb(used, {"drafts"}, {}) EXCEPT ![c] = NotAsked]
      /\ loose' = loose \cup (r.stale \cap used)
      /\ left' = left
  BY <1>1 DEF SaveSuggested
<1>3. /\ r \in Requests /\ now \in Takes /\ HasTakes(batch)
      /\ batch = [d \in Batches |-> batch[d]]
      /\ \A k \in Lots : left[k] \in Nat /\ OnLot(now, k) \in Nat /\ OnLot(now, k) <= Available(r, k)
  <2>1. r \in Requests /\ batch = [d \in Batches |-> batch[d]] /\ \A k \in Lots : left[k] \in Nat
    BY <1>1 DEF FifoTypes
  <2>2. QuantitiesAreNat(r)
    BY <2>1, AnswersAreNat
  <2>3. now \in Takes /\ \A k \in Lots : OnLot(now, k) <= Available(r, k)
    BY <1>1, <2>2, SuggestionFits
  <2> QED BY <2>1, <2>3, QuantitiesOfState, OnLotAndOfLine
<1>4. \A e \in Askers :
        \/ asked'[e] = NotAsked
        \/ StillAsked(asked'[e], asked[e], used, asked[e].on /\ "drafts" \notin asked[e].waits)
  <2>1. \A e \in Askers : (asked[e].on /\ {"drafts"} \cap asked[e].waits = {}
                             /\ {} \subseteq asked[e].waits)
                            <=> (asked[e].on /\ "drafts" \notin asked[e].waits)
    OBVIOUS
  <2>2. used \in SUBSET Lots
    BY <1>1
  <2>3. \A e \in Askers :
          StillAsked(Disturb(used, {"drafts"}, {})[e], asked[e], used,
                     asked[e].on /\ {"drafts"} \cap asked[e].waits = {} /\ {} \subseteq asked[e].waits)
    BY <2>2, DisturbedIsAsked
  <2>4. \A e \in Askers : \/ asked'[e] = NotAsked
                          \/ asked'[e] = Disturb(used, {"drafts"}, {})[e]
    BY <1>2 DEF Disturb
  <2> QED BY <2>1, <2>3, <2>4 DEF StillAsked
<1>5. FifoTypes'
  <2>1. batch' \in [Batches -> [status : {"none", "DRAFT", "CONFIRMED", "CANCELLED"}, takes : Takes]]
    BY <1>2, <1>3 DEF FifoTypes
  <2>2. loose' \in SUBSET Lots
    BY <1>1, <1>2 DEF FifoTypes
  <2>3. asked' \in [Askers -> Requests]
    <3>1. asked' = [e \in Askers |-> asked'[e]]
      BY <1>2 DEF Disturb
    <3>2. \A e \in Askers : asked'[e] \in Requests
      BY <1>4, NotAskedIsRequest DEF StillAsked
    <3> QED BY <3>1, <3>2
  <2> QED BY <1>2, <2>1, <2>2, <2>3 DEF FifoTypes
<1>6. PICK D, E, other : /\ D = Having("DRAFT") /\ E = Having("DRAFT")' /\ other = batch'
                         /\ D \in SUBSET Batches
  BY HeldInBook
<1>7. E = D \cup {b} /\ D \ r.edits = D \ {b}
  BY <1>2, <1>3, <1>6 DEF Having
<1>8. /\ \A k : Held(k, D) = HeldIn(batch, k, D) /\ Held(k, Having("DRAFT"))' = HeldIn(other, k, E)
      /\ \A k, edits : /\ Reserved(k, edits) = HeldIn(batch, k, D \ edits)
                       /\ Reserved(k, edits)' = HeldIn(other, k, E \ edits)
  BY <1>6 DEF Held, Reserved, HeldIn
<1>9. \A some \in SUBSET Batches, k \in Lots :
        /\ b \notin some => HeldIn(other, k, some) = HeldIn(batch, k, some)
        /\ b \in some => HeldIn(other, k, some) = OnLot(now, k) + HeldIn(batch, k, some \ {b})
  <2>1. SavedIn(other, batch, b, now)
    BY <1>2, <1>3, <1>6 DEF SavedIn
  <2> QED BY <2>1, DraftHeld
<1>10. \A some \in SUBSET Batches, k \in Lots : \A d :
         /\ HeldIn(batch, k, some) \in Nat
         /\ HeldIn(batch, k, some \ {d}) <= HeldIn(batch, k, some)
  BY <1>3, HeldAddsUp, HeldByFewer
<1>11. DraftsFitUnlessLoose'
  <2> SUFFICES ASSUME NEW k \in Lots, k \notin loose, ~(k \in r.stale /\ k \in used)
               PROVE  HeldIn(other, k, E) <= left[k]
    BY <1>2, <1>8 DEF DraftsFitUnlessLoose
  <2>1. HeldIn(other, k, E) = OnLot(now, k) + HeldIn(batch, k, D \ {b})
    <3>1. E \in SUBSET Batches /\ b \in E /\ E \ {b} = D \ {b}
      BY <1>6, <1>7
    <3> QED BY <1>9, <3>1
  <2>2. HeldIn(batch, k, D \ {b}) \in Nat /\ HeldIn(batch, k, D \ {b}) <= HeldIn(batch, k, D)
    <3>1. D \ {b} \in SUBSET Batches
      BY <1>6
    <3> QED BY <1>6, <1>10, <3>1
  <2>3. CASE k \in used
    <3>1. OnLot(now, k) > 0 /\ k \notin r.stale
      BY <1>1, <2>3
    <3>2. MaySave(r) /\ "lots" \notin r.waits /\ "drafts" \notin r.waits
      BY <1>1, <1>2 DEF MaySave, Ready
    <3>3. Reserved(k, r.edits) + r.lots[k] <= left[k] + r.held[k]
      <4>1. FitsLot(r, k, Reserved(k, r.edits), left[k])
        BY <1>1, <3>1, <3>2 DEF AnswersFit
      <4> QED BY <3>2, <4>1 DEF FitsLot
    <3>4. Reserved(k, r.edits) = HeldIn(batch, k, D \ {b})
      BY <1>7, <1>8
    <3>5. Available(r, k) \in Nat /\ (Available(r, k) > 0 => Available(r, k) + r.held[k] = r.lots[k])
      BY <1>3, AnswersAreNat DEF QuantitiesAreNat
    <3>6. r.lots[k] \in Nat /\ r.held[k] \in Nat
      BY <1>3 DEF Requests
    <3> QED BY <1>3, <2>1, <2>2, <3>1, <3>3, <3>4, <3>5, <3>6
  <2>4. CASE k \notin used
    <3>1. OnLot(now, k) = 0
      BY <1>1, <1>3, <2>4
    <3>2. HeldIn(batch, k, D) <= left[k] /\ HeldIn(batch, k, D) \in Nat
      BY <1>6, <1>8, <1>10 DEF DraftsFitUnlessLoose
    <3> QED BY <1>3, <2>1, <2>2, <3>1, <3>2
  <2> QED BY <2>3, <2>4
<1>12. ASSUME NEW edits \in SUBSET Batches, NEW k \in Lots
       PROVE  /\ HeldIn(batch, k, D \ edits) \in Nat /\ HeldIn(other, k, E \ edits) \in Nat
              /\ k \notin used => HeldIn(other, k, E \ edits) <= HeldIn(batch, k, D \ edits)
  <2>1. D \ edits \in SUBSET Batches /\ E \ edits \in SUBSET Batches
    BY <1>6, <1>7
  <2>2. HeldIn(batch, k, D \ edits) \in Nat /\ HeldIn(other, k, E \ edits) \in Nat
    <3>1. HasTakes(other)
      BY <1>5, <1>6 DEF FifoTypes, HasTakes
    <3> QED BY <1>10, <2>1, <3>1, HeldAddsUp
  <2>3. ASSUME k \notin used, b \in edits
        PROVE  HeldIn(other, k, E \ edits) <= HeldIn(batch, k, D \ edits)
    <3>1. E \ edits = D \ edits /\ b \notin E \ edits
      BY <1>7, <2>3
    <3>2. HeldIn(other, k, E \ edits) = HeldIn(batch, k, D \ edits)
      BY <1>9, <2>1, <3>1
    <3> QED BY <2>2, <3>2
  <2>4. ASSUME k \notin used, b \notin edits
        PROVE  HeldIn(other, k, E \ edits) <= HeldIn(batch, k, D \ edits)
    <3>1. b \in E \ edits /\ (E \ edits) \ {b} = (D \ edits) \ {b}
      BY <1>7, <2>4
    <3>2. OnLot(now, k) = 0
      BY <1>1, <1>3, <2>4
    <3>3. HeldIn(other, k, E \ edits) = OnLot(now, k) + HeldIn(batch, k, (D \ edits) \ {b})
      BY <1>9, <2>1, <3>1
    <3>4. /\ HeldIn(batch, k, (D \ edits) \ {b}) \in Nat
          /\ HeldIn(batch, k, (D \ edits) \ {b}) <= HeldIn(batch, k, D \ edits)
      <4>1. (D \ edits) \ {b} \in SUBSET Batches
        BY <2>1
      <4> QED BY <1>10, <2>1, <4>1
    <3> QED BY <3>2, <3>3, <3>4
  <2> QED BY <2>2, <2>3, <2>4
<1>13. ASSUME NEW e \in Askers
       PROVE  AnswersFit(asked[e])'
  <2>1. PICK new, was : new = asked'[e] /\ was = asked[e] /\ was \in Requests
    BY DEF FifoTypes
  <2> SUFFICES ASSUME MaySave(new)', NEW k \in Lots, k \notin new.stale, k \notin loose'
               PROVE  FitsLot(new, k, HeldIn(other, k, E \ new.edits), left[k])
    BY <1>2, <1>8, <2>1 DEF AnswersFit, MaySave
  <2>2. StillAsked(new, was, used, was.on /\ "drafts" \notin was.waits)
    <3>1. new # NotAsked
      BY NotAskedIsRequest DEF MaySave
    <3> QED BY <1>4, <2>1, <3>1
  <2>3. new.on = was.on /\ new.edits = was.edits /\ k \notin was.stale
    BY <2>2 DEF StillAsked
  <2>4. MaySave(was) /\ was.on /\ was.edits \in SUBSET Batches
    <3>1. was.edits \in SUBSET Batches
      BY <2>1 DEF Requests
    <3>2. \A d \in Batches : batch'[d].status \in {"none", "DRAFT"} => batch[d].status \in {"none", "DRAFT"}
      BY <1>2, <1>3
    <3> QED BY <2>3, <3>1, <3>2 DEF MaySave
  <2>5. FitsLot(was, k, HeldIn(batch, k, D \ was.edits), left[k])
    <3>1. k \notin loose
      BY <1>2
    <3> QED BY <1>8, <2>1, <2>3, <2>4, <3>1 DEF AnswersFit
  <2>6. "drafts" \notin was.waits => k \notin used
    BY <2>2, <2>4 DEF StillAsked
  <2>7. FitsLot(new, k, HeldIn(other, k, E \ was.edits), left[k])
    <3>1. /\ HeldIn(batch, k, D \ was.edits) \in Nat /\ HeldIn(other, k, E \ was.edits) \in Nat
          /\ k \notin used => HeldIn(other, k, E \ was.edits) <= HeldIn(batch, k, D \ was.edits)
      BY <1>12, <2>4
    <3>2. PICK x \in Nat, y \in Nat, n \in Nat :
            /\ x = HeldIn(batch, k, D \ was.edits) /\ y = HeldIn(other, k, E \ was.edits)
            /\ n = left[k] /\ (k \notin used => y <= x)
      BY <1>3, <3>1
    <3>3. FitsLot(was, k, x, n) /\ ("drafts" \notin was.waits => y <= x /\ n + y <= n + x) /\ n <= n
      BY <2>5, <2>6, <3>2
    <3>4. FitsLot(new, k, y, n)
      BY <2>1, <2>2, <3>3, FitsAsBefore
    <3> QED BY <3>2, <3>4
  <2> QED BY <2>3, <2>7
<1> QED BY <1>5, <1>11, <1>13

\* A draft that is confirmed or cancelled holds nothing any more, and takes
\* no more than it held.
LEMMA LeavingKeepsFifo ==
  ASSUME FifoInv, NEW b \in Batches, ConfirmBatch(b) \/ CancelBatch(b)
  PROVE  FifoInv'
<1> USE DEF FifoInv
<1>1. PICK now, status, used :
        /\ now = batch[b].takes /\ status \in {"CONFIRMED", "CANCELLED"}
        /\ used = UsedLots(now) /\ used = {k \in Lots : OnLot(now, k) > 0}
        /\ batch' = [batch EXCEPT ![b].status = status]
  BY DEF ConfirmBatch, CancelBatch, UsedLots
<1>2. /\ batch[b].status = "DRAFT" /\ loose' = loose
      /\ \/ left' = left /\ asked' = asked
         \/ /\ \A k \in Lots : OnLot(now, k) <= left[k]
            /\ left' = [k \in Lots |-> left[k] - OnLot(now, k)]
            /\ asked' = Disturb(used, {"lots"}, {"drafts"})
  BY <1>1 DEF ConfirmBatch, CancelBatch, Enough
<1>3. /\ now \in Takes /\ HasTakes(batch) /\ used \in SUBSET Lots
      /\ \A k \in Lots : left[k] \in Nat /\ OnLot(now, k) \in Nat
  <2>1. now \in Takes /\ \A k \in Lots : left[k] \in Nat
    BY <1>1 DEF FifoTypes
  <2> QED BY <1>1, <2>1, QuantitiesOfState, OnLotAndOfLine
<1>4. \A k \in Lots : /\ left'[k] \in Nat /\ left'[k] + OnLot(now, k) >= left[k]
                      /\ k \notin used => left'[k] = left[k]
  BY <1>1, <1>2, <1>3
<1>5. \A e \in Askers :
        /\ asked[e] \in Requests
        /\ \/ asked'[e] = asked[e] /\ left' = left
           \/ StillAsked(asked'[e], asked[e], used,
                         asked[e].on /\ "lots" \notin asked[e].waits /\ "drafts" \in asked[e].waits)
  <2>1. \A e \in Askers :
          (asked[e].on /\ {"lots"} \cap asked[e].waits = {} /\ {"drafts"} \subseteq asked[e].waits)
            <=> (asked[e].on /\ "lots" \notin asked[e].waits /\ "drafts" \in asked[e].waits)
    OBVIOUS
  <2>2. \A e \in Askers :
          StillAsked(Disturb(used, {"lots"}, {"drafts"})[e], asked[e], used,
                     asked[e].on /\ {"lots"} \cap asked[e].waits = {}
                       /\ {"drafts"} \subseteq asked[e].waits)
    BY <1>3, DisturbedIsAsked
  <2>3. \A e \in Askers :
          StillAsked(Disturb(used, {"lots"}, {"drafts"})[e], asked[e], used,
                     asked[e].on /\ "lots" \notin asked[e].waits /\ "drafts" \in asked[e].waits)
    BY <2>1, <2>2 DEF StillAsked
  <2>4. \A e \in Askers : asked[e] \in Requests
    BY DEF FifoTypes
  <2> QED BY <1>2, <2>3, <2>4
<1>6. FifoTypes'
  <2>1. left' \in [Lots -> Nat]
    BY <1>2, <1>4 DEF FifoTypes
  <2>2. asked' \in [Askers -> Requests]
    <3>1. asked' = [e \in Askers |-> asked'[e]]
      BY <1>2 DEF Disturb, FifoTypes
    <3>2. \A e \in Askers : asked'[e] \in Requests
      BY <1>5 DEF StillAsked
    <3> QED BY <3>1, <3>2
  <2> QED BY <1>1, <1>2, <2>1, <2>2 DEF FifoTypes
<1>7. \A d \in Batches : /\ batch'[d].takes = batch[d].takes
                         /\ d # b => batch'[d].status = batch[d].status
                         /\ batch'[b].status = status
  BY <1>1 DEF FifoTypes
<1>8. PICK D, E, other : /\ D = Having("DRAFT") /\ E = Having("DRAFT")' /\ other = batch'
                         /\ D \in SUBSET Batches
  BY HeldInBook
<1>9. E = D \ {b} /\ b \in D
  BY <1>1, <1>2, <1>7, <1>8 DEF Having
<1>10. /\ \A k : Held(k, D) = HeldIn(batch, k, D) /\ Held(k, Having("DRAFT"))' = HeldIn(other, k, E)
       /\ \A k, edits : /\ Reserved(k, edits) = HeldIn(batch, k, D \ edits)
                        /\ Reserved(k, edits)' = HeldIn(other, k, E \ edits)
  BY <1>8 DEF Held, Reserved, HeldIn
<1>11. \A some \in SUBSET Batches, k \in Lots : HeldIn(other, k, some) = HeldIn(batch, k, some)
  <2>1. \A k : \A d \in Batches : OnLot(other[d].takes, k) = OnLot(batch[d].takes, k)
    BY <1>7, <1>8
  <2> QED BY <1>3, <2>1, HeldAlike
<1>12. \A some \in SUBSET Batches, k \in Lots : b \in some =>
         /\ HeldIn(batch, k, some) = OnLot(now, k) + HeldIn(other, k, some \ {b})
         /\ HeldIn(batch, k, some) \in Nat /\ HeldIn(other, k, some \ {b}) \in Nat
  <2>1. \A some \in SUBSET Batches : some \ {b} \in SUBSET Batches
    OBVIOUS
  <2>2. \A some \in SUBSET Batches, k \in Lots : b \in some =>
          /\ HeldIn(batch, k, some) = OnLot(now, k) + HeldIn(batch, k, some \ {b})
          /\ HeldIn(batch, k, some) \in Nat /\ HeldIn(batch, k, some \ {b}) \in Nat
    BY <1>1, <1>3, <2>1, HeldAddsUp
  <2> QED BY <1>11, <2>1, <2>2
<1>13. DraftsFitUnlessLoose'
  <2> SUFFICES ASSUME NEW k \in Lots \ loose PROVE HeldIn(other, k, E) <= left'[k]
    BY <1>2, <1>10 DEF DraftsFitUnlessLoose
  <2>1. HeldIn(batch, k, D) <= left[k]
    BY <1>8, <1>10 DEF DraftsFitUnlessLoose
  <2>2. /\ HeldIn(batch, k, D) = OnLot(now, k) + HeldIn(other, k, E)
        /\ HeldIn(batch, k, D) \in Nat /\ HeldIn(other, k, E) \in Nat
    BY <1>8, <1>9, <1>12
  <2> QED BY <1>3, <1>4, <2>1, <2>2
<1>14. ASSUME NEW e \in Askers
       PROVE  AnswersFit(asked[e])'
  <2>1. PICK new, was : new = asked'[e] /\ was = asked[e] /\ was \in Requests
    BY DEF FifoTypes
  <2> SUFFICES ASSUME MaySave(new)', NEW k \in Lots, k \notin new.stale, k \notin loose'
               PROVE  FitsLot(new, k, HeldIn(other, k, E \ new.edits), left'[k])
    BY <1>10, <2>1 DEF AnswersFit, MaySave
  <2>2. PICK marked : /\ StillAsked(new, was, used, marked)
                      /\ left' = left \/ (was.on /\ "lots" \notin was.waits /\ "drafts" \in was.waits
                                            => marked)
    <3>1. StillAsked(was, was, used, FALSE)
      BY <2>1 DEF StillAsked
    <3>2. CASE new = was /\ left' = left
      BY <3>1, <3>2
    <3>3. CASE StillAsked(new, was, used, was.on /\ "lots" \notin was.waits /\ "drafts" \in was.waits)
      BY <3>3
    <3> QED BY <1>5, <2>1, <3>2, <3>3
  <2>3. new.on = was.on /\ new.edits = was.edits /\ k \notin was.stale
    BY <2>2 DEF StillAsked
  <2>4. MaySave(was) /\ was.on /\ was.edits \in SUBSET Batches /\ b \notin was.edits
    <3>1. was.edits \in SUBSET Batches
      BY <2>1 DEF Requests
    <3>2. \A d \in Batches : batch'[d].status \in {"none", "DRAFT"} =>
            d # b /\ batch[d].status \in {"none", "DRAFT"}
      BY <1>1, <1>7
    <3> QED BY <2>3, <3>1, <3>2 DEF MaySave
  <2>5. PICK D1, E1 : D1 = D \ was.edits /\ E1 = E \ was.edits
    BY Zenon
  <2>6. FitsLot(was, k, HeldIn(batch, k, D1), left[k])
    <3>1. k \notin loose
      BY <1>2
    <3> QED BY <1>10, <2>1, <2>3, <2>4, <2>5, <3>1 DEF AnswersFit
  <2>7. /\ HeldIn(batch, k, D1) = OnLot(now, k) + HeldIn(other, k, E1)
        /\ HeldIn(batch, k, D1) \in Nat /\ HeldIn(other, k, E1) \in Nat
    <3>1. D1 \in SUBSET Batches /\ b \in D1 /\ E1 = D1 \ {b}
      BY <1>8, <1>9, <2>4, <2>5
    <3> QED BY <1>12, <3>1
  <2>8. "lots" \notin was.waits /\ "drafts" \in was.waits => left'[k] = left[k]
    <3>1. was.on /\ "lots" \notin was.waits /\ "drafts" \in was.waits /\ left' # left => k \notin used
      BY <2>2 DEF StillAsked
    <3> QED BY <1>4, <2>4, <3>1
  <2>9. PICK x \in Nat, y \in Nat, m \in Nat, n \in Nat :
          /\ x = HeldIn(batch, k, D1) /\ y = HeldIn(other, k, E1) /\ m = left[k] /\ n = left'[k]
          /\ y <= x /\ m + y <= n + x
    BY <1>3, <1>4, <2>7
  <2>10. FitsLot(new, k, y, n)
    <3>1. FitsLot(was, k, x, m) /\ ("lots" \notin was.waits /\ "drafts" \in was.waits => m <= n)
      BY <2>6, <2>8, <2>9
    <3> QED BY <2>1, <2>2, <2>9, <3>1, FitsAsBefore
  <2> QED BY <2>3, <2>5, <2>9, <2>10
<1> QED BY <1>6, <1>13, <1>14

\* What stock documents do to a lot: receive more of it, or make it loose.
LEMMA LotsKeepFifo ==
  ASSUME FifoInv, NEW j \in Lots, Receive(j) \/ Consume(j)
  PROVE  FifoInv'
<1> USE DEF FifoInv
<1>1. /\ batch' = batch /\ asked' = asked /\ left' \in [Lots -> Nat]
      /\ loose' \in SUBSET Lots /\ loose \subseteq loose'
      /\ \A k \in Lots : k \in loose' \/ left'[k] >= left[k]
  <2>1. CASE Receive(j)
    <3>1. LotSize[j] \in Nat /\ left \in [Lots -> Nat]
      BY LinesAndLots DEF FifoTypes
    <3>2. left' = [left EXCEPT ![j] = LotSize[j]] /\ left[j] = 0
      BY <2>1 DEF Receive
    <3>3. left' \in [Lots -> Nat] /\ \A k \in Lots : left'[k] >= left[k]
      BY <3>1, <3>2
    <3> QED BY <2>1, <3>3 DEF Receive, FifoTypes
  <2>2. CASE Consume(j)
    BY <2>2 DEF Consume, FifoTypes
  <2> QED BY <2>1, <2>2
<1>2. /\ \A k, edits : Reserved(k, edits)' = Reserved(k, edits)
      /\ \A k : Held(k, Having("DRAFT"))' = Held(k, Having("DRAFT"))
  BY <1>1 DEF Reserved, Held, Having
<1>3. FifoTypes'
  BY <1>1 DEF FifoTypes
<1>4. DraftsFitUnlessLoose'
  <2> SUFFICES ASSUME NEW k \in Lots, k \notin loose'
               PROVE  Held(k, Having("DRAFT")) <= left'[k]
    BY <1>2 DEF DraftsFitUnlessLoose
  <2>1. Held(k, Having("DRAFT")) <= left[k]
    BY <1>1 DEF DraftsFitUnlessLoose
  <2>2. Held(k, Having("DRAFT")) \in Nat
    BY QuantitiesOfState, HeldInBook, HeldAddsUp
  <2>3. left[k] \in Nat /\ left'[k] \in Nat /\ left'[k] >= left[k]
    BY <1>1 DEF FifoTypes
  <2> QED BY <2>1, <2>2, <2>3
<1>5. ASSUME NEW c \in Askers
      PROVE  AnswersFit(asked[c])'
  <2>1. PICK r \in Requests : r = asked[c] /\ r = asked'[c] /\ AnswersFit(r)
    BY <1>1 DEF FifoTypes
  <2> SUFFICES ASSUME MaySave(r)', NEW k \in Lots, k \notin r.stale, k \notin loose'
               PROVE  FitsLot(r, k, Reserved(k, r.edits), left'[k])
    BY <1>2, <2>1 DEF AnswersFit, MaySave
  <2>2. FitsLot(r, k, Reserved(k, r.edits), left[k])
    <3>1. MaySave(r) /\ k \notin loose
      BY <1>1 DEF MaySave
    <3> QED BY <2>1, <3>1 DEF AnswersFit
  <2>3. PICK x \in Nat, m \in Nat, n \in Nat :
          x = Reserved(k, r.edits) /\ m = left[k] /\ n = left'[k] /\ m <= n
    BY <1>1, QuantitiesOfState DEF FifoTypes
  <2>4. r.lots[k] \in Nat /\ r.held[k] \in Nat
    BY DEF Requests
  <2>5. FitsLot(r, k, x, n)
    BY <2>2, <2>3, <2>4 DEF FitsLot
  <2> QED BY <2>3, <2>5
<1> QED BY <1>3, <1>4, <1>5

LEMMA StepKeepsFifo ==
  ASSUME FifoInv, [FifoNext]_fifoVars
  PROVE  FifoInv'
<1>1. ASSUME NEW c \in Askers, NEW edits \in {{}} \cup {{b} : b \in Batches}, Ask(c, edits)
      PROVE  FifoInv'
  BY <1>1, RequestKeepsFifo
<1>2. ASSUME NEW c \in Askers, NEW day \in SalesDates, QueryLots(c, day)
      PROVE  FifoInv'
  BY <1>2, RequestKeepsFifo
<1>3. ASSUME NEW c \in Askers, QueryConfirmed(c) \/ QueryDrafts(c) \/ Forget(c)
      PROVE  FifoInv'
  BY <1>3, RequestKeepsFifo
<1>4. ASSUME NEW c \in Askers, NEW b \in Batches, SaveSuggested(c, b)
      PROVE  FifoInv'
  BY <1>4, SaveKeepsFifo
<1>5. ASSUME NEW b \in Batches, ConfirmBatch(b) \/ CancelBatch(b)
      PROVE  FifoInv'
  BY <1>5, LeavingKeepsFifo
<1>6. ASSUME NEW k \in Lots, Receive(k) \/ Consume(k)
      PROVE  FifoInv'
  BY <1>6, LotsKeepFifo
<1>7. CASE UNCHANGED fifoVars
  BY <1>7 DEF fifoVars, FifoInv, FifoTypes, AnswersFit, MaySave, DraftsFitUnlessLoose,
              Reserved, Held, Having
<1> QED BY <1>1, <1>2, <1>3, <1>4, <1>5, <1>6, <1>7 DEF FifoNext

\* What drafts hold, what clients have read and what is left, over every step.
THEOREM FifoInvariant == FifoSpec => []FifoInv
<1>1. FifoInit => FifoInv
  BY TypesAtFirst
<1>2. FifoInv /\ [FifoNext]_fifoVars => FifoInv'
  BY StepKeepsFifo
<1> QED BY <1>1, <1>2, PTL DEF FifoSpec

-----------------------------------------------------------------------------
(* What it gives.                                                          *)

\* The definition of first in, first out, which is not that of suggestFifo.
LEMMA OverlapIsCut ==
  ASSUME NEW r, QuantitiesAreNat(r), NEW i \in Lines, NEW k \in Lots
  PROVE  Overlap(r, i, k) = CutAt(StockOf(r), NeedOf(r), LotsOf(r), i, k)
<1> DEFINE Older(j) == LotDate[j] < LotDate[k] \/ (LotDate[j] = LotDate[k] /\ j < k)
           older == {j \in LotsOf(r) : Older(j)}
           f == [j \in older |-> Available(r, j)]
           g == [h \in 1..(i-1) |-> Needed(r, h)]
           before == SumFunction(f)
           above == SumFunction(g)
           end == Min({before + Available(r, k), above + Needed(r, i)})
<1>1. Overlap(r, i, k) = Max({0, end - Max({before, above})})
  BY DEF Overlap
<1>2. before = Supply(StockOf(r), k, LotsOf(r))
  <2>1. older = Before(k, LotsOf(r))
    BY DEF Before, ByAge
  <2>2. older \in SUBSET Lots /\ IsFiniteSet(older)
    <3>1. older \in SUBSET Lots
      BY DEF LotsOf
    <3> QED BY <3>1, LinesAndLots, FS_Subset
  <2>3. DOMAIN f = older /\ \A j \in older : f[j] = Available(r, j)
    OBVIOUS
  <2> HIDE DEF older, f
  <2>4. \A j \in older : StockOf(r)[j] \in Int /\ f[j] = StockOf(r)[j]
    BY <2>2, <2>3, PlacesAreNat
  <2>5. SumFunctionOnSet(f, older) = SumFunctionOnSet(StockOf(r), older)
    BY <2>2, <2>4, SumsAgree
  <2> QED BY <2>1, <2>3, <2>5, Zenon DEF SumFunction, Supply
<1>3. above = Wanted(NeedOf(r), i - 1)
  <2>1. DOMAIN g = 1..(i-1) /\ \A h \in 1..(i-1) : g[h] = Needed(r, h) /\ h \in Lines
    BY LinesAndLots
  <2>2. IsFiniteSet(1..(i-1))
    <3>1. i - 1 \in Int
      BY LinesAndLots
    <3> QED BY <3>1, FS_Interval
  <2> HIDE DEF g
  <2>3. \A h \in 1..(i-1) : NeedOf(r)[h] \in Int /\ g[h] = NeedOf(r)[h]
    <3>1. \A h \in Lines : NeedOf(r)[h] = Needed(r, h) /\ NeedOf(r)[h] \in Nat
      BY PlacesAreNat
    <3> QED BY <2>1, <3>1
  <2>4. SumFunctionOnSet(g, 1..(i-1)) = SumFunctionOnSet(NeedOf(r), 1..(i-1))
    BY <2>2, <2>3, SumsAgree
  <2> QED BY <2>1, <2>4, Zenon DEF SumFunction, Wanted
<1> HIDE DEF before, above
<1>4. /\ before \in Nat /\ above \in Nat /\ Available(r, k) \in Nat /\ Needed(r, i) \in Nat
      /\ StockOf(r)[k] = Available(r, k) /\ NeedOf(r)[i] = Needed(r, i)
  BY <1>2, <1>3, PlacesAreNat DEF QuantitiesAreNat
<1>5. \A x, y \in Int : Min({x, y}) = Least(x, y) /\ Max({x, y}) = Most(x, y)
  BY MinMaxOfTwo
<1>6. PICK x, y : x = before + Available(r, k) /\ y = above + Needed(r, i)
  BY Zenon
<1>7. x \in Int /\ y \in Int /\ before \in Int /\ above \in Int
  BY <1>4, <1>6
<1>8. Min({x, y}) = Least(x, y) /\ Max({before, above}) = Most(before, above)
  BY <1>5, <1>7
<1>9. PICK z : z = Least(x, y) - Most(before, above) /\ z \in Int
  BY <1>7 DEF Least, Most
<1>10. Max({0, z}) = Most(0, z)
  BY <1>5, <1>9
<1>11. Overlap(r, i, k) = Most(0, Least(x, y) - Most(before, above))
  BY <1>1, <1>6, <1>8, <1>9, <1>10
<1>12. CutAt(StockOf(r), NeedOf(r), LotsOf(r), i, k)
         = Cut(before, Available(r, k), above, Needed(r, i))
  BY <1>2, <1>3, <1>4 DEF CutAt
<1> QED BY <1>6, <1>11, <1>12 DEF Cut

LEMMA TypesGiveFifo == FifoTypes => SuggestionIsFifo
<1> SUFFICES ASSUME NEW r \in Requests
             PROVE  Suggestion(r) =
                      [i \in Lines |-> [k \in Lots |->
                        IF k \in LotsOf(r) THEN Overlap(r, i, k) ELSE 0]]
  BY DEF SuggestionIsFifo, FifoTypes
<1>1. QuantitiesAreNat(r)
  BY AnswersAreNat
<1>2. \A i \in Lines, k \in LotsOf(r) : FifoCut(r)[i][k] = Overlap(r, i, k)
  <2>1. \A i \in Lines, k \in LotsOf(r) :
          FifoCut(r)[i][k] = CutAt(StockOf(r), NeedOf(r), LotsOf(r), i, k)
    BY DEF FifoCut
  <2>2. LotsOf(r) \in SUBSET Lots
    BY DEF LotsOf
  <2> QED BY <1>1, <2>1, <2>2, OverlapIsCut
<1>3. Suggestion(r) =
        [i \in Lines |-> [k \in Lots |-> IF k \in LotsOf(r) THEN FifoCut(r)[i][k] ELSE 0]]
  BY <1>1, SuggestionIsCut
<1> QED BY <1>2, <1>3

\* suggestFifo, line by line and lot by lot, takes first in, first out, for any
\* lines, lots and dates.
THEOREM SuggestionsAreFifo == FifoSpec => []SuggestionIsFifo
<1>1. FifoInv => SuggestionIsFifo
  BY TypesGiveFifo DEF FifoInv
<1> QED BY <1>1, FifoInvariant, PTL

\* Drafts saved from suggestions can all be confirmed, in any order, unless
\* a lot was used beside them or in between their queries.
THEOREM DraftsFit == FifoSpec => []DraftsFitUnlessLoose
<1>1. FifoInv => DraftsFitUnlessLoose
  BY DEF FifoInv
<1> QED BY <1>1, FifoInvariant, PTL

-----------------------------------------------------------------------------
(* Demand that is met already.                                             *)

\* An item that is for one line says how much of its lot the line has.
LEMMA ItemTellsLine ==
  ASSUME NEW takes \in Takes, NEW k \in Lots, NEW i \in Lines,
         Cardinality(LinesOn(takes, k)) <= 1
  PROVE  ItemFor(takes, i, k) = takes[i][k]
<1> DEFINE on == LinesOn(takes, k)
<1>1. /\ on \in SUBSET Lines /\ IsFiniteSet(on)
      /\ \A h \in Lines : takes[h][k] \in Nat /\ (h \in on <=> takes[h][k] > 0)
  <2>1. on \in SUBSET Lines /\ \A h \in Lines : takes[h][k] \in Nat /\ (h \in on <=> takes[h][k] > 0)
    BY DEF LinesOn, Takes
  <2> HIDE DEF on
  <2> QED BY <2>1, LinesAndLots, FS_Subset
<1>2. \A h, l \in on : h = l
  <2> SUFFICES ASSUME NEW h \in on, NEW l \in on, h # l PROVE FALSE
    OBVIOUS
  <2>1. IsFiniteSet(on \ {l}) /\ Cardinality(on \ {l}) = Cardinality(on) - 1
    BY <1>1, FS_RemoveElement
  <2>2. Cardinality(on \ {l}) \in Nat /\ Cardinality(on) \in Nat
    BY <1>1, <2>1, FS_CardinalityType
  <2>3. Cardinality(on \ {l}) = 0
    BY <2>1, <2>2
  <2>4. on \ {l} = {}
    BY <2>1, <2>3, FS_EmptySet
  <2> QED BY <2>4
<1>3. CASE i \notin on
  <2>1. takes[i][k] = 0
    BY <1>1, <1>3
  <2>2. ASSUME on # {} PROVE Min(on) \in on
    <3>1. PICK h \in on : TRUE
      BY <2>2
    <3>2. on = {h} /\ h \in Int
      BY <1>1, <1>2, <3>1, LinesAndLots
    <3>3. \E x \in on : \A y \in on : x =< y
      BY <3>2
    <3> QED BY <3>3, Zenon DEF Min
  <2> QED BY <1>3, <2>1, <2>2 DEF ItemFor, LineOf
<1>4. CASE i \in on
  <2>1. on = {i}
    BY <1>2, <1>4
  <2>2. LineOf(takes, k) = i
    <3>1. \A x \in {i} : x = i
      OBVIOUS
    <3>2. i \in Int
      BY LinesAndLots
    <3>3. Min({i}) = i
      BY <3>2 DEF Min
    <3> QED BY <2>1, <3>3 DEF LineOf
  <2>3. OnLot(takes, k) = takes[i][k]
    <3> DEFINE f == [h \in Lines |-> takes[h][k]]
    <3>1. OnLot(takes, k) = SumFunctionOnSet(f, Lines)
      BY DEF OnLot, SumFunction
    <3>2. /\ \A h \in Lines : f[h] = takes[h][k] /\ f[h] \in Int
          /\ \A h \in Lines \ {i} : f[h] = 0
      BY <1>1, <2>1
    <3> HIDE DEF f
    <3>3. SumFunctionOnSet(f, Lines) = f[i] + SumFunctionOnSet(f, Lines \ {i})
      <4>1. IsFiniteSet(Lines) /\ \A h \in Lines : f[h] \in Int
        BY <3>2, LinesAndLots
      <4> QED BY <4>1, SumWithout
    <3>4. SumFunctionOnSet(f, Lines \ {i}) = 0
      <4>1. IsFiniteSet(Lines \ {i})
        BY LinesAndLots, FS_RemoveElement
      <4> QED BY <3>2, <4>1, SumOfZeros
    <3> QED BY <3>1, <3>2, <3>3, <3>4
  <2> QED BY <1>4, <2>2, <2>3 DEF ItemFor
<1> QED BY <1>3, <1>4

LEMMA OpenIsMissing ==
  ASSUME FifoTypes, \A b \in Having("CONFIRMED") : ~Shared(b), NEW i \in Lines
  PROVE  Max({0, Demand[i] - AlreadyAllocated(i)}) = Missing(i)
<1> DEFINE f == [b \in Batches |-> SumFunction([k \in Lots |-> ItemFor(batch[b].takes, i, k)])]
           g == [b \in Batches |-> OfLine(batch[b].takes, i)]
           some == Having("CONFIRMED")
<1>1. some \in SUBSET Batches
  BY DEF Having
<1>2. \A b \in Batches : batch[b].takes \in Takes
  BY DEF FifoTypes
<1>3. ASSUME NEW b \in some
      PROVE  f[b] = g[b] /\ g[b] \in Int
  <2>1. b \in Batches /\ batch[b].takes \in Takes
    BY <1>1, <1>2
  <2>2. \A k \in Lots : Cardinality(LinesOn(batch[b].takes, k)) <= 1
    <3>1. ASSUME NEW k \in Lots
          PROVE  Cardinality(LinesOn(batch[b].takes, k)) \in Nat
      <4>1. IsFiniteSet(LinesOn(batch[b].takes, k))
        <5>1. LinesOn(batch[b].takes, k) \in SUBSET Lines
          BY DEF LinesOn
        <5> QED BY <5>1, LinesAndLots, FS_Subset
      <4> QED BY <4>1, FS_CardinalityType
    <3> QED BY <3>1 DEF Shared
  <2>3. \A k \in Lots : ItemFor(batch[b].takes, i, k) = batch[b].takes[i][k]
    BY <2>1, <2>2, ItemTellsLine
  <2>4. [k \in Lots |-> ItemFor(batch[b].takes, i, k)] = [k \in Lots |-> batch[b].takes[i][k]]
    BY <2>3
  <2>5. f[b] = g[b]
    BY <2>1, <2>4 DEF OfLine
  <2>6. g[b] \in Int
    <3>1. OfLine(batch[b].takes, i) \in Nat
      BY <2>1, OnLotAndOfLine
    <3> QED BY <2>1, <3>1
  <2> QED BY <2>5, <2>6
<1>4. AlreadyAllocated(i) = SumFunctionOnSet(f, some)
  BY DEF AlreadyAllocated
<1>5. Missing(i) = Max({0, Demand[i] - SumFunctionOnSet(g, some)})
  BY DEF Missing
<1> HIDE DEF f, g, some
<1>6. SumFunctionOnSet(f, some) = SumFunctionOnSet(g, some)
  BY <1>1, <1>3, BatchesAreFinite, FS_Subset, SumsAgree
<1> QED BY <1>4, <1>5, <1>6, Zenon

\* While nothing is confirmed after the confirmed items were read, no line is
\* offered more than they left open of it, unless one of them took a lot for
\* several lines.
THEOREM OnlyMissingOffered == FifoSpec => []OffersOnlyMissingUnlessShared
<1>1. FifoTypes => OffersOnlyMissingUnlessShared
  <2> SUFFICES ASSUME FifoTypes, \A b \in Having("CONFIRMED") : ~Shared(b),
                      NEW c \in Askers, UpToDate(c), NEW i \in Lines
               PROVE  OfLine(Suggestion(asked[c]), i) <= Missing(i)
    BY Zenon DEF OffersOnlyMissingUnlessShared, OffersOnlyMissing
  <2>1. PICK r \in Requests : r = asked[c]
    BY DEF FifoTypes
  <2>2. OfLine(Suggestion(r), i) <= Needed(r, i)
    BY AnswersAreNat, SuggestionFits
  <2>3. r.given[i] = AlreadyAllocated(i)
    BY <2>1 DEF UpToDate
  <2>4. Needed(r, i) = Missing(i)
    BY <2>3, OpenIsMissing, Zenon DEF Needed
  <2> QED BY <2>1, <2>2, <2>4
<1>2. FifoInv => FifoTypes
  BY DEF FifoInv
<1> QED BY <1>1, <1>2, FifoInvariant, PTL
=============================================================================
