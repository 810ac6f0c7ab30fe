-------------------------- MODULE MCStockDocuments --------------------------
(* Two documents of any kind and two requests over two warehouses.         *)
EXTENDS StockDocuments, TLC

CONSTANTS w1, w2, m1

MCLine(q, price) == [m |-> m1, q |-> q, price |-> price]
MCDto(from, to, date, lines) ==
  [from |-> from, to |-> to, date |-> date, lines |-> lines]

MCPayloads ==
  [receipt |-> {MCDto(w1, w1, 3, <<MCLine(2, 9)>>)},
   issue |-> {MCDto(w1, w1, 2, <<MCLine(1, 0), MCLine(1, 0)>>)},
   transfer |-> {MCDto(w1, w2, 3, <<MCLine(2, 0)>>), MCDto(w2, w1, 3, <<MCLine(1, 0)>>)},
   count |-> {MCDto(w1, w1, 3, <<MCLine(0, 0)>>), MCDto(w2, w2, 3, <<MCLine(2, 0)>>)}]

MCOpeningLots ==
  <<[cell |-> <<w1, m1>>, date |-> 1, rem |-> 1],
    [cell |-> <<w1, m1>>, date |-> 2, rem |-> 1],
    [cell |-> <<w2, m1>>, date |-> 1, rem |-> 1]>>
MCOpeningBalance ==
  [c \in Cells |->
     MapThenSumSet(LAMBDA j : MCOpeningLots[j].rem,
                   {j \in DOMAIN MCOpeningLots : MCOpeningLots[j].cell = c})]
MCLotIds == 1..7
MCSymmetry == Permutations(Docs) \cup Permutations(Requests)
=============================================================================
