------------------------ MODULE MCMaterialAllocation ------------------------
(* Two allocations, a project each, and a transfer on the same lots.       *)
EXTENDS MaterialAllocation

CONSTANTS w1, w2, m1, prj1, prj2, a1

MCLine(q) == [m |-> m1, q |-> q, price |-> 0]
MCPayloads ==
  [receipt |-> {}, issue |-> {}, count |-> {},
   transfer |-> {[from |-> w1, to |-> w2, date |-> 3, lines |-> <<MCLine(1)>>],
                 [from |-> w2, to |-> w1, date |-> 3, lines |-> <<MCLine(2)>>]}]
MCOnePayload ==
  [receipt |-> {}, issue |-> {}, count |-> {},
   transfer |-> {[from |-> w1, to |-> w2, date |-> 3, lines |-> <<MCLine(1)>>]}]

MCItem(l, q) == [l |-> l, q |-> q]
MCAllocPayloads ==
  {[date |-> 3, items |-> <<MCItem(2, 1), MCItem(1, 1)>>],
   [date |-> 1, items |-> <<MCItem(1, 2)>>]}

MCOpeningLots ==
  <<[cell |-> <<w1, m1>>, date |-> 1, rem |-> 2],
    [cell |-> <<w2, m1>>, date |-> 2, rem |-> 2]>>
MCOpeningBalance ==
  [c \in Cells |->
     MapThenSumSet(LAMBDA j : MCOpeningLots[j].rem,
                   {j \in DOMAIN MCOpeningLots : MCOpeningLots[j].cell = c})]
MCLotIds == 1..4
MCProjectOf == [a \in Allocs |-> IF a = a1 THEN prj1 ELSE prj2]
=============================================================================
