-------------------------- MODULE StockLedgerProofs --------------------------
(***************************************************************************)
(* What confirming a document adds up to.  A request's open transaction    *)
(* holds, at every statement, the lines it is done with and what it has    *)
(* done of the line it is on: in the balances, in the lots behind them and *)
(* in the invoice dates of the lots.  From this the balances are backed by *)
(* lots, a commit posts one whole document, and the stock is the opening   *)
(* stock and the confirmed documents.                                      *)
(***************************************************************************)
EXTENDS StockDocumentsProofs

-----------------------------------------------------------------------------
(* What a document does to a cell, line by line.                           *)
EffectTerms(body, c) ==
  [j \in DOMAIN body.lines |-> LineEffect(body, body.lines[j], c)]
PartOf(body, i, c) == SumFunctionOnSet(EffectTerms(body, c), 1..i)

LineOf(r) == r.body.lines[r.i]
SourceOf(r) == <<r.body.from, LineOf(r).m>>
TargetOf(r) == <<r.body.to, LineOf(r).m>>
NeededBy(r) == IF r.body.kind = "count" THEN -Diff(LineOf(r)) ELSE LineOf(r).q

\* What a request has posted of the line it is on ...
Begun(r, c) ==
  IF r.pc = "credit" THEN IF c = SourceOf(r) THEN -LineOf(r).q ELSE 0
  ELSE IF r.pc \in {"cost", "stock", "average"}
       THEN IF c = TargetOf(r) THEN LineOf(r).q ELSE 0
  ELSE 0

\* ... and of its document.
Posted(r, c) ==
  IF r.pc = "finish" THEN Effect(r.body)[c]
  ELSE IF r.pc \in {"idle", "check", "write"} THEN 0
  ELSE PartOf(r.body, r.i - 1, c) + Begun(r, c)

\* How far the lots are ahead of the balances, while a line is worked on.
Ahead(r, c) ==
  IF r.pc = "take"
  THEN (IF c = SourceOf(r) THEN r.need - NeededBy(r) ELSE 0)
         + (IF r.body.kind = "transfer" /\ c = TargetOf(r)
            THEN NeededBy(r) - r.need ELSE 0)
  ELSE IF r.pc = "credit" THEN IF c = TargetOf(r) THEN LineOf(r).q ELSE 0
  ELSE IF r.pc \in {"cost", "stock", "average"}
       THEN IF c = TargetOf(r) THEN -LineOf(r).q ELSE 0
  ELSE 0

\* The lines of a body have effects, which are numbers.
LEMMA EffectsAreInts ==
  ASSUME NEW body \in Body, NEW c \in Cells
  PROVE  /\ DOMAIN body.lines = 1..Len(body.lines) /\ Len(body.lines) \in Nat
         /\ \A j \in 1..Len(body.lines) : EffectTerms(body, c)[j] \in Int
         /\ \A j \in 1..Len(body.lines) :
              EffectTerms(body, c)[j] = LineEffect(body, body.lines[j], c)
<1>1. /\ DOMAIN body.lines = 1..Len(body.lines) /\ Len(body.lines) \in Nat
      /\ body.kind \in Kinds
  BY LenProperties DEF Body
<1>2. \A j \in 1..Len(body.lines) : body.lines[j] \in Line
  BY ElementOfSeq DEF Body
<1>3. \A j \in 1..Len(body.lines) :
        EffectTerms(body, c)[j] = LineEffect(body, body.lines[j], c)
  BY <1>1 DEF EffectTerms
<1>4. ASSUME NEW line \in Line
      PROVE  LineEffect(body, line, c) \in Int
  <2>1. line.q \in Int /\ -line.q \in Int /\ Diff(line) \in Int
    BY DEF Line, Diff
  <2>2. CASE c[2] # line.m
    BY <2>2 DEF LineEffect
  <2>3. CASE body.kind = "receipt"
    BY <2>1, <2>2, <2>3 DEF LineEffect
  <2>4. CASE body.kind = "issue"
    BY <2>1, <2>2, <2>4 DEF LineEffect
  <2>5. CASE body.kind = "count"
    BY <2>1, <2>2, <2>5 DEF LineEffect
  <2>6. CASE body.kind = "transfer"
    BY <2>1, <2>2, <2>6 DEF LineEffect
  <2> QED BY <1>1, <2>3, <2>4, <2>5, <2>6 DEF Kinds
<1> QED BY <1>1, <1>2, <1>3, <1>4

\* The lines done so far grow by one line at a time, from none to all.
LEMMA PartsGrow ==
  ASSUME NEW body \in Body, NEW c \in Cells
  PROVE  /\ PartOf(body, 0, c) = 0
         /\ \A i \in 0..Len(body.lines) : PartOf(body, i, c) \in Int
         /\ \A i \in 1..Len(body.lines) :
              PartOf(body, i, c) = PartOf(body, i - 1, c)
                                     + LineEffect(body, body.lines[i], c)
         /\ PartOf(body, Len(body.lines), c) = Effect(body)[c]
<1> DEFINE n == Len(body.lines)
           f == EffectTerms(body, c)
<1>1. /\ DOMAIN body.lines = 1..n /\ n \in Nat
      /\ \A j \in 1..n : f[j] \in Int
      /\ \A j \in 1..n : f[j] = LineEffect(body, body.lines[j], c)
  BY EffectsAreInts
<1>3. Effect(body)[c] = SumFunctionOnSet(f, 1..n)
  <2>1. Effect(body)[c] = SumFunction(f)
    BY DEF Effect, EffectTerms
  <2>2. DOMAIN f = 1..n
    BY <1>1 DEF EffectTerms
  <2> QED BY <2>1, <2>2, Zenon DEF SumFunction
<1> HIDE DEF f, n
<1>4. /\ SumFunctionOnSet(f, 1..0) = 0
      /\ \A i \in 0..n : SumFunctionOnSet(f, 1..i) \in Int
      /\ \A i \in 1..n :
           SumFunctionOnSet(f, 1..i) = SumFunctionOnSet(f, 1..(i - 1)) + f[i]
  BY <1>1, SumOfFirst
<1>5. PartOf(body, 0, c) = 0 /\ \A i \in 0..n : PartOf(body, i, c) \in Int
  BY <1>4 DEF PartOf, f
<1>6. \A i \in 1..n : PartOf(body, i, c) = PartOf(body, i - 1, c) + f[i]
  BY <1>4 DEF PartOf, f
<1>7. \A i \in 1..n : PartOf(body, i, c) = PartOf(body, i - 1, c)
                                            + LineEffect(body, body.lines[i], c)
  BY <1>1, <1>6
<1>8. PartOf(body, n, c) = Effect(body)[c]
  BY <1>3 DEF PartOf, f
<1> QED BY <1>5, <1>7, <1>8 DEF n

-----------------------------------------------------------------------------
(* The ledger of one request.                                              *)

\* A transfer goes somewhere else.
Sendable(body) == body.kind = "transfer" => body.from # body.to

\* The statements belong to confirm, and to the kind of the document.
OnItsKind(r) ==
  /\ r.pc \notin {"idle", "write"} => r.op = "confirm"
  /\ r.pc = "credit" => r.body.kind = "transfer"
  /\ r.pc \in {"cost", "stock", "average"} => r.body.kind = "receipt"
  /\ r.pc = "take" => \/ r.body.kind \in {"issue", "transfer"}
                      \/ r.body.kind = "count" /\ Diff(LineOf(r)) < 0
  /\ Sendable(r.body)

\* The cells and the dated stock of a material.
CellRegion(c) == {c} \X Nat
DatedRegion(m, date) == {<<<<w, m>>, date>> : w \in Warehouses}

Ledger(p) ==
  /\ OnItsKind(req[p])
  /\ \A l \in LotIds : req[p].read[l] # 0 =>
       req[p].pc = "take" /\ lot[l].cell = SourceOf(req[p])
  /\ req[p].pc \in {"idle", "check", "write"} => \A R : NetIn(p, R) = 0
  /\ \A c \in Cells : dBalance[p][c] = Posted(req[p], c)
  /\ \A c \in Cells :
       NetIn(p, CellRegion(c)) = dBalance[p][c] + Ahead(req[p], c)
  /\ req[p].body.kind = "transfer" =>
       \A m \in Materials, date \in Nat : NetIn(p, DatedRegion(m, date)) = 0

\* Where a loop goes next.
LEMMA AfterFields ==
  ASSUME NEW r \in Request, OnItsLine(r), NEW here \in Steps, NEW next \in Steps,
         NEW s, s = After(r, here, next)
  PROVE  /\ s \in Request /\ OnItsLine(s)
         /\ s.op = r.op /\ s.d = r.d /\ s.body = r.body /\ s.read = r.read
         /\ \/ r.i < Len(r.body.lines) /\ s.pc = here /\ s.i = r.i + 1
            \/ r.i = Len(r.body.lines) /\ s.pc = next /\ s.i = 1
<1>1. s \in Request /\ OnItsLine(s)
  BY AfterStaysOnLines
<1>2. Len(r.body.lines) \in Nat /\ r.i \in 1..Len(r.body.lines)
  BY LenProperties DEF OnItsLine, Request, Body
<1>3. CASE r.i < Len(r.body.lines)
  <2>1. s = [r EXCEPT !.i = @ + 1, !.pc = here]
    BY <1>3 DEF After
  <2> QED BY <1>1, <1>3, <2>1 DEF Request
<1>4. CASE ~(r.i < Len(r.body.lines))
  <2>1. s = [r EXCEPT !.i = 1, !.pc = next]
    BY <1>4 DEF After
  <2> QED BY <1>1, <1>2, <1>4, <2>1 DEF Request
<1> QED BY <1>3, <1>4

\* The line is done: the document's part has grown by it, and the lots agree.
LEMMA NextLinePosts ==
  ASSUME NEW r \in Request, OnItsLine(r), NEW s, s = After(r, "line", "finish"),
         NEW c \in Cells
  PROVE  /\ Posted(s, c) = PartOf(r.body, r.i - 1, c) + LineEffect(r.body, LineOf(r), c)
         /\ Ahead(s, c) = 0 /\ s.pc \in {"line", "finish"}
<1>1. /\ s.body = r.body
      /\ \/ r.i < Len(r.body.lines) /\ s.pc = "line" /\ s.i = r.i + 1
         \/ r.i = Len(r.body.lines) /\ s.pc = "finish" /\ s.i = 1
  BY AfterFields, SMTT(30) DEF Steps
<1>2. Ahead(s, c) = 0
  BY <1>1 DEF Ahead
<1>3. r.body \in Body /\ r.i \in 1..Len(r.body.lines) /\ Len(r.body.lines) \in Nat
  BY LenProperties DEF OnItsLine, Request, Body
<1>4. /\ PartOf(r.body, r.i, c) =
           PartOf(r.body, r.i - 1, c) + LineEffect(r.body, LineOf(r), c)
      /\ PartOf(r.body, Len(r.body.lines), c) = Effect(r.body)[c]
      /\ PartOf(r.body, r.i, c) \in Int
  <2>1. r.i \in 0..Len(r.body.lines)
    BY <1>3
  <2> QED BY <1>3, <2>1, PartsGrow DEF LineOf
<1>5. Posted(s, c) = PartOf(r.body, r.i, c)
  <2>1. CASE s.pc = "line" /\ s.i = r.i + 1
    <3>1. s.i - 1 = r.i
      BY <2>1, <1>3
    <3> QED BY <1>1, <1>4, <2>1, <3>1 DEF Posted, Begun
  <2>2. CASE s.pc = "finish" /\ r.i = Len(r.body.lines)
    BY <1>1, <1>4, <2>2 DEF Posted
  <2> QED BY <1>1, <2>1, <2>2
<1> QED BY <1>1, <1>2, <1>4, <1>5

\* What other requests do to the ledger of one: nothing.
Alone(q) ==
  /\ req'[q] = req[q] /\ dBalance'[q] = dBalance[q]
  /\ \A R : NetIn(q, R)' = NetIn(q, R)
  /\ KnownLotsStay(q)

\* So it keeps its ledger.
LEMMA AloneKeepsLedger ==
  ASSUME RequestsInv, NEW q \in Requests, Ledger(q), Alone(q)
  PROVE  Ledger(q)'
<1>1. req'[q] = req[q]
  BY DEF Alone
<1>2. \A l \in LotIds : req[q].read[l] # 0 => lot'[l].cell = lot[l].cell
  BY DEF RequestsInv, Alone, KnownLotsStay
<1>3. \A l \in LotIds : req'[q].read[l] # 0 =>
        req'[q].pc = "take" /\ lot'[l].cell = SourceOf(req'[q])
  BY <1>1, <1>2 DEF Ledger
<1>4. \A c \in Cells :
        /\ dBalance'[q][c] = Posted(req'[q], c)
        /\ NetIn(q, CellRegion(c))' = dBalance'[q][c] + Ahead(req'[q], c)
  BY <1>1 DEF Ledger, Alone
<1> QED BY <1>1, <1>3, <1>4 DEF Ledger, Alone
-----------------------------------------------------------------------------
(* Steps that do not write to the stock tables.                            *)

\* Nobody's sums change.
LEMMA StandingStill ==
  ASSUME LotsInv, UNCHANGED <<balance, lot, dBalance, dLot>>
  PROVE  /\ \A R : CommittedIn(R)' = CommittedIn(R)
         /\ \A q \in Requests : /\ \A R : NetIn(q, R)' = NetIn(q, R)
                                /\ dBalance'[q] = dBalance[q] /\ KnownLotsStay(q)
<1>1. \A R : CommittedIn(R)' = CommittedIn(R)
  BY DEF CommittedIn, CommittedTerms, At
<1>2. \A R : \A q \in Requests : NetIn(q, R)' = NetIn(q, R)
  BY DEF NetIn, NetTerms, At
<1>3. \A q \in Requests : KnownLotsStay(q)
  BY DEF KnownLotsStay, Exists
<1> QED BY <1>1, <1>2, <1>3

\* A request on the first line of its document has posted nothing.
LEMMA NothingPostedYet ==
  ASSUME NEW r \in Request, OnItsLine(r), r.i = 1, r.pc \in {"check", "write", "line"},
         NEW c \in Cells
  PROVE  Posted(r, c) = 0 /\ Ahead(r, c) = 0
<1>1. Ahead(r, c) = 0
  BY DEF Ahead
<1>2. CASE r.pc \in {"check", "write"}
  BY <1>1, <1>2 DEF Posted
<1>3. CASE r.pc = "line"
  <2>1. r.body \in Body
    BY DEF Request
  <2>2. PartOf(r.body, 0, c) = 0
    BY <2>1, PartsGrow
  <2>3. r.i - 1 = 0
    OBVIOUS
  <2>4. Begun(r, c) = 0
    BY <1>3 DEF Begun
  <2> QED BY <1>1, <1>3, <2>2, <2>3, <2>4 DEF Posted
<1> QED BY <1>1, <1>2, <1>3

\* A request that has written nothing begins its first line, or its pre-checks.
LEMMA BeginsLedger ==
  ASSUME StockInv, NEW p \in Requests, Ledger(p), req[p].pc \in {"idle", "check"},
         UNCHANGED <<balance, lot, dBalance, dLot>>,
         NEW r \in Request, req'[p] = r, OnItsLine(r), r.read = NothingTaken,
         r.pc \in {"check", "write", "line"}, r.pc = "line" => r.i = 1,
         r.pc # "write" => r.op = "confirm", Sendable(r.body)
  PROVE  Ledger(p)'
<1>1. \A R : NetIn(p, R) = 0
  BY DEF Ledger
<1>2. \A c \in Cells : dBalance[p][c] = 0
  BY DEF Ledger, Posted
<1>3. \A R : NetIn(p, R)' = 0
  BY <1>1, StandingStill DEF StockInv, TablesInv
<1>4. ASSUME NEW c \in Cells
      PROVE  /\ dBalance'[p][c] = Posted(r, c)
             /\ NetIn(p, CellRegion(c))' = dBalance'[p][c] + Ahead(r, c)
  <2>1. Posted(r, c) = 0 /\ Ahead(r, c) = 0
    <3>1. CASE r.pc = "line"
      BY <3>1, NothingPostedYet
    <3>2. CASE r.pc \in {"check", "write"}
      BY <3>2 DEF Posted, Ahead
    <3> QED BY <3>1, <3>2
  <2> QED BY <1>2, <1>3, <2>1
<1>5. OnItsKind(r)
  BY DEF OnItsKind
<1>6. \A l \in LotIds : r.read[l] = 0
  BY DEF NothingTaken
<1> QED BY <1>3, <1>4, <1>5, <1>6 DEF Ledger

\* findMany reads lots of the line's source; nothing is taken yet.
LEMMA ReadLotsLedger ==
  ASSUME StockInv, NEW p \in Requests, Ledger(p), ReadLots(p)
  PROVE  Ledger(p)'
<1> DEFINE r == req'[p]
           old == req[p]
<1>1. old \in Request /\ OnItsLine(old) /\ NeededBy(old) \in Int
  BY CurrentIsLine DEF ReadLots, StockInv, NeededBy, Required, Is, Current, LineOf
<1>2. /\ r.pc = "take" /\ r.op = old.op /\ r.d = old.d /\ r.body = old.body /\ r.i = old.i
      /\ r.need = NeededBy(old)
      /\ \A l \in LotIds : r.read[l] # 0 => lot[l].cell = SourceOf(old)
  <2>1. \A l \in LotIds : l \in EligibleLots(p, Source(p), old.body.date) =>
          lot[l].cell = SourceOf(old)
    BY DEF EligibleLots, Source, SourceOf, Current, LineOf
  <2>2. req \in [Requests -> Request]
    BY DEF StockInv, RequestsInv
  <2>3. Required(p) = NeededBy(old)
    BY DEF NeededBy, Required, Is, Current, LineOf
  <2> QED BY <1>1, <2>1, <2>2, <2>3 DEF ReadLots, Request
<1>3. UNCHANGED <<balance, lot, dBalance, dLot>>
  BY DEF ReadLots, tables, pending
<1>4. /\ dBalance'[p] = dBalance[p] /\ \A R : NetIn(p, R)' = NetIn(p, R)
  BY <1>3, StandingStill DEF StockInv, TablesInv
<1>5. LineOf(r) = LineOf(old) /\ SourceOf(r) = SourceOf(old) /\ NeededBy(r) = NeededBy(old)
  BY <1>2 DEF LineOf, SourceOf, NeededBy
<1>6. old.pc = "line" /\ Consumes(p)
  BY DEF ReadLots
<1>7. OnItsKind(r)
  <2>1. \/ old.body.kind \in {"issue", "transfer"}
        \/ old.body.kind = "count" /\ Diff(LineOf(old)) < 0
    BY <1>6 DEF Consumes, Is, Current, LineOf
  <2> QED BY <1>2, <1>5, <1>6, <2>1 DEF OnItsKind, Ledger
<1>8. ASSUME NEW c \in Cells
      PROVE  Posted(r, c) = Posted(old, c) /\ Ahead(r, c) = 0 /\ Ahead(old, c) = 0
  <2>1. Ahead(r, c) = 0
    BY <1>1, <1>2, <1>5 DEF Ahead
  <2> QED BY <1>2, <1>6, <2>1 DEF Posted, Begun, Ahead
<1>9. \A c \in Cells : /\ dBalance'[p][c] = Posted(r, c)
                       /\ NetIn(p, CellRegion(c))' = dBalance'[p][c] + Ahead(r, c)
  BY <1>4, <1>8 DEF Ledger
<1>10. \A l \in LotIds : r.read[l] # 0 => r.pc = "take" /\ lot'[l].cell = SourceOf(r)
  BY <1>2, <1>3, <1>5
<1>11. r.body.kind = "transfer" =>
         \A m \in Materials, date \in Nat : NetIn(p, DatedRegion(m, date))' = 0
  BY <1>2, <1>4 DEF Ledger
<1> QED BY <1>2, <1>7, <1>9, <1>10, <1>11 DEF Ledger

\* updateAverageCostPrice reads between the balance and the lot of a line.
LEMMA CostReadsLedger ==
  ASSUME StockInv, NEW p \in Requests, Ledger(p), ReadCost(p) \/ ReadStock(p)
  PROVE  Ledger(p)'
<1> DEFINE r == req'[p]
           old == req[p]
<1>1. /\ old.pc \in {"cost", "stock"} /\ r.pc \in {"stock", "average"}
      /\ r.op = old.op /\ r.body = old.body /\ r.i = old.i /\ r.read = old.read
      /\ UNCHANGED <<balance, lot, dBalance, dLot>>
  <2>1. old \in Request /\ req \in [Requests -> Request]
    BY DEF StockInv, RequestsInv
  <2> QED BY <2>1 DEF ReadCost, ReadStock, Goto, Request, tables, pending
<1>2. /\ dBalance'[p] = dBalance[p] /\ \A R : NetIn(p, R)' = NetIn(p, R)
  BY <1>1, StandingStill DEF StockInv, TablesInv
<1>3. LineOf(r) = LineOf(old) /\ TargetOf(r) = TargetOf(old)
  BY <1>1 DEF LineOf, TargetOf
<1>4. \A c : Posted(r, c) = Posted(old, c) /\ Ahead(r, c) = Ahead(old, c)
  BY <1>1, <1>3 DEF Posted, Begun, Ahead
<1>5. OnItsKind(r)
  BY <1>1 DEF OnItsKind, Ledger
<1>6. \A l \in LotIds : r.read[l] = 0
  BY <1>1 DEF Ledger
<1>7. \A c \in Cells : /\ dBalance'[p][c] = Posted(r, c)
                       /\ NetIn(p, CellRegion(c))' = dBalance'[p][c] + Ahead(r, c)
  BY <1>2, <1>4 DEF Ledger
<1>8. r.body.kind # "transfer"
  BY <1>1 DEF Ledger, OnItsKind
<1> QED BY <1>1, <1>5, <1>6, <1>7, <1>8 DEF Ledger
-----------------------------------------------------------------------------
(* The statements of confirm that write.                                   *)

\* A statement of p changes its own pending rows only, and commits nothing.
Aside(p) ==
  /\ \A R : CommittedIn(R)' = CommittedIn(R)
  /\ \A q \in Requests \ {p} : Alone(q)

\* Which regions a lot of a line lies in.
LEMMA RegionMembers ==
  ASSUME NEW w \in Warehouses, NEW m \in Materials, NEW d \in Nat
  PROVE  /\ \A c \in Cells : <<<<w, m>>, d>> \in CellRegion(c) <=> c = <<w, m>>
         /\ \A n \in Materials, date \in Nat :
              <<<<w, m>>, d>> \in DatedRegion(n, date) <=> n = m /\ date = d
<1>1. \A c \in Cells : <<<<w, m>>, d>> \in CellRegion(c) <=> c = <<w, m>>
  BY DEF CellRegion
<1>2. \A n \in Materials, date \in Nat :
        <<<<w, m>>, d>> \in DatedRegion(n, date) <=> n = m /\ date = d
  BY DEF DatedRegion
<1> QED BY <1>1, <1>2

\* The line, source and target of a request, as its record has them.
LEMMA RecordFields ==
  ASSUME RequestsInv, NEW p \in Requests, req[p].pc # "idle"
  PROVE  /\ req[p] \in Request /\ OnItsLine(req[p]) /\ req[p].body \in Body
         /\ LineOf(req[p]) \in Line /\ LineOf(req[p]).q \in Nat
         /\ LineOf(req[p]).m \in Materials
         /\ req[p].body.from \in Warehouses /\ req[p].body.to \in Warehouses
         /\ req[p].body.date \in Nat
         /\ Diff(LineOf(req[p])) \in Int /\ NeededBy(req[p]) \in Int
         /\ Current(p) = LineOf(req[p]) /\ Required(p) = NeededBy(req[p])
         /\ Source(p) = SourceOf(req[p]) /\ Target(p) = TargetOf(req[p])
         /\ SourceOf(req[p]) \in Cells /\ TargetOf(req[p]) \in Cells
<1>1. /\ Current(p) = LineOf(req[p]) /\ Required(p) = NeededBy(req[p])
      /\ Source(p) = SourceOf(req[p]) /\ Target(p) = TargetOf(req[p])
  BY DEF Current, LineOf, Required, NeededBy, Is, Source, SourceOf, Target, TargetOf
<1>2. /\ req[p] \in Request /\ OnItsLine(req[p]) /\ req[p].body \in Body
      /\ Current(p) \in Line /\ Diff(Current(p)) \in Int /\ Required(p) \in Int
      /\ Source(p) \in Cells /\ Target(p) \in Cells
  BY CurrentIsLine
<1>3. /\ LineOf(req[p]).q \in Nat /\ LineOf(req[p]).m \in Materials
      /\ req[p].body.from \in Warehouses /\ req[p].body.to \in Warehouses
      /\ req[p].body.date \in Nat
  BY <1>1, <1>2 DEF Line, Body
<1> QED BY <1>1, <1>2, <1>3

\* One turn of the lot loop moves the lots ahead of the balance, at the source
\* and for a transfer at the target, where the new lot has the date of the old.
LEMMA TakeLotLedger ==
  ASSUME StockInv, NEW p \in Requests, Ledger(p), NEW l \in LotIds, TakeLot(p, l)
  PROVE  Ledger(p)' /\ Aside(p)
<1> DEFINE r == req'[p]
           old == req[p]
           t == Take(p, l)
           d == lot[l].date
           moved == old.body.kind = "transfer"
<1>1. /\ old \in Request /\ OnItsLine(old) /\ NeededBy(old) \in Int
      /\ LineOf(old).m \in Materials /\ Target(p) \in Cells
      /\ old.body.from \in Warehouses /\ old.body.to \in Warehouses
      /\ SourceOf(old) = <<old.body.from, LineOf(old).m>>
      /\ TargetOf(old) = <<old.body.to, LineOf(old).m>> /\ Target(p) = TargetOf(old)
      /\ SourceOf(old) \in Cells
  BY RecordFields DEF StockInv, TakeLot, SourceOf, TargetOf
<1>2. /\ old.pc = "take" /\ old.need \in Int /\ t \in Nat
      /\ Exists(p, l) /\ lot[l].cell = SourceOf(old) /\ d \in Nat
  <2>1. old.need \in Int /\ old.read[l] \in Nat
    BY <1>1 DEF Request
  <2>2. t \in Nat /\ old.read[l] # 0 /\ old.pc = "take"
    BY <2>1 DEF TakeLot, Take, NextToTake
  <2>3. Exists(p, l) /\ lot[l].cell = SourceOf(old)
    BY <2>2 DEF StockInv, RequestsInv, Ledger
  <2>4. d \in Nat
    BY DEF StockInv, TablesInv, LotsInv
  <2> QED BY <2>1, <2>2, <2>3, <2>4
<1>3. /\ r.pc = "take" /\ r.op = old.op /\ r.body = old.body /\ r.i = old.i
      /\ r.need = old.need - t
      /\ \A k \in LotIds : r.read[k] # 0 => old.read[k] # 0
      /\ \A q \in Requests \ {p} : req'[q] = req[q]
  <2>1. req \in [Requests -> Request] /\ old.read \in [LotIds -> Nat]
    BY <1>1 DEF StockInv, RequestsInv, Request
  <2> HIDE DEF t
  <2>2. r = [old EXCEPT !.need = @ - t, !.read[l] = 0]
    BY <2>1 DEF TakeLot, t
  <2>3. \A q \in Requests \ {p} : req'[q] = req[q]
    BY <2>1 DEF TakeLot
  <2> HIDE DEF r
  <2>4. r.read = [old.read EXCEPT ![l] = 0]
    BY <2>2, <1>1 DEF Request
  <2>5. \A k \in LotIds : r.read[k] # 0 => old.read[k] # 0
    BY <2>1, <2>4
  <2> QED BY <1>1, <1>2, <2>2, <2>3, <2>5 DEF Request
<1>4. /\ TakesFrom(p, l, t)
      /\ moved => CreateLot(p, Target(p), d, t)
      /\ ~moved => lot' = lot
      /\ dBalance' = dBalance
  BY DEF TakeLot, DecrementLot, Is, TakesFrom
<1> HIDE DEF t, d
<1>5. /\ \A R : CommittedIn(R)' = CommittedIn(R)
      /\ \A R : \A q \in Requests \ {p} : NetIn(q, R)' = NetIn(q, R)
      /\ \A R : NetIn(p, R)' = NetIn(p, R)
                  + (IF moved /\ <<TargetOf(old), d>> \in R THEN t ELSE 0)
                  - (IF <<SourceOf(old), d>> \in R THEN t ELSE 0)
  <2>1. At(l) = <<SourceOf(old), d>> /\ LotsInv
    BY <1>2 DEF At, d, StockInv, TablesInv
  <2>2. CASE moved
    <3>1. ASSUME NEW R
          PROVE  /\ CommittedIn(R)' = CommittedIn(R)
                 /\ \A q \in Requests \ {p} : NetIn(q, R)' = NetIn(q, R)
                 /\ NetIn(p, R)' = NetIn(p, R)
                      + (IF <<TargetOf(old), d>> \in R THEN t ELSE 0)
                      - (IF At(l) \in R THEN t ELSE 0)
      BY <1>1, <1>2, <1>4, <2>1, <2>2, MoveMovesSums
    <3> QED BY <2>1, <2>2, <3>1
  <2>3. CASE ~moved
    <3>1. ASSUME NEW R
          PROVE  /\ CommittedIn(R)' = CommittedIn(R)
                 /\ \A q \in Requests \ {p} : NetIn(q, R)' = NetIn(q, R)
                 /\ NetIn(p, R)' = NetIn(p, R) - (IF At(l) \in R THEN t ELSE 0)
      BY <1>2, <1>4, <2>1, <2>3, DecrementMovesSums
    <3>2. \A R : NetIn(p, R) \in Int
      BY <2>1, RegionSumsAreInts
    <3> HIDE DEF moved, old
    <3> QED BY <1>2, <2>1, <2>3, <3>1, <3>2
  <2> QED BY <2>2, <2>3
<1>6. \A q \in Requests : KnownLotsStay(q)
  BY <1>1, <1>2, <1>4, CreateKeepsPlaces DEF StockInv, TablesInv
<1>7. Aside(p)
  BY <1>3, <1>4, <1>5, <1>6 DEF Aside, Alone
<1>8. /\ LineOf(r) = LineOf(old) /\ SourceOf(r) = SourceOf(old)
      /\ TargetOf(r) = TargetOf(old) /\ NeededBy(r) = NeededBy(old)
  BY <1>3 DEF LineOf, SourceOf, TargetOf, NeededBy
<1>9. ASSUME NEW c \in Cells
      PROVE  /\ dBalance'[p][c] = Posted(r, c)
             /\ NetIn(p, CellRegion(c))' = dBalance'[p][c] + Ahead(r, c)
  <2>1. Posted(r, c) = Posted(old, c)
    BY <1>2, <1>3 DEF Posted, Begun
  <2>2. dBalance'[p][c] = Posted(r, c)
    BY <1>4, <2>1 DEF Ledger
  <2>3. /\ <<SourceOf(old), d>> \in CellRegion(c) <=> c = SourceOf(old)
        /\ <<TargetOf(old), d>> \in CellRegion(c) <=> c = TargetOf(old)
    BY <1>1, <1>2, RegionMembers DEF d
  <2>4. NetIn(p, CellRegion(c))' = NetIn(p, CellRegion(c))
          + (IF moved /\ c = TargetOf(old) THEN t ELSE 0)
          - (IF c = SourceOf(old) THEN t ELSE 0)
    BY <1>5, <2>3
  <2>5. NetIn(p, CellRegion(c)) = dBalance[p][c] + Ahead(old, c)
    BY DEF Ledger
  <2>6. dBalance[p][c] \in Int /\ NetIn(p, CellRegion(c)) \in Int
    BY RegionSumsAreInts DEF StockInv, TablesInv, BalancesInv
  <2>7. Ahead(old, c) = (IF c = SourceOf(old) THEN old.need - NeededBy(old) ELSE 0)
                          + (IF moved /\ c = TargetOf(old) THEN NeededBy(old) - old.need ELSE 0)
    BY <1>2 DEF Ahead
  <2>8. Ahead(r, c) = (IF c = SourceOf(old) THEN r.need - NeededBy(old) ELSE 0)
                        + (IF moved /\ c = TargetOf(old) THEN NeededBy(old) - r.need ELSE 0)
    BY <1>3, <1>8 DEF Ahead
  <2>9. NetIn(p, CellRegion(c))' = dBalance[p][c] + Ahead(r, c)
    <3> DEFINE here == c = SourceOf(old)
               there == moved /\ c = TargetOf(old)
               need == old.need
               all == NeededBy(old)
               left == r.need
    <3>1. left = need - t /\ need \in Int /\ all \in Int /\ t \in Int
      BY <1>1, <1>2, <1>3
    <3>2. /\ Ahead(old, c) = (IF here THEN need - all ELSE 0) + (IF there THEN all - need ELSE 0)
          /\ Ahead(r, c) = (IF here THEN left - all ELSE 0) + (IF there THEN all - left ELSE 0)
          /\ NetIn(p, CellRegion(c))' = NetIn(p, CellRegion(c))
                + (IF there THEN t ELSE 0) - (IF here THEN t ELSE 0)
      BY <2>4, <2>7, <2>8
    <3> HIDE DEF here, there, need, all, left, r, old
    <3> QED BY <2>5, <2>6, <3>1, <3>2
  <2> QED BY <1>4, <2>2, <2>9
<1>10. ASSUME moved, NEW m \in Materials, NEW date \in Nat
       PROVE  NetIn(p, DatedRegion(m, date))' = 0
  <2>1. /\ <<SourceOf(old), d>> \in DatedRegion(m, date) <=> m = LineOf(old).m /\ date = d
        /\ <<TargetOf(old), d>> \in DatedRegion(m, date) <=> m = LineOf(old).m /\ date = d
    BY <1>1, <1>2, RegionMembers DEF d
  <2>2. NetIn(p, DatedRegion(m, date)) = 0
    BY <1>10 DEF Ledger
  <2> QED BY <1>2, <1>5, <1>10, <2>1, <2>2
<1>11. OnItsKind(r)
  BY <1>2, <1>3, <1>8 DEF OnItsKind, Ledger
<1>12. \A k \in LotIds : r.read[k] # 0 => r.pc = "take" /\ lot'[k].cell = SourceOf(r)
  <2>1. \A k \in LotIds : r.read[k] # 0 => Exists(p, k) /\ lot[k].cell = SourceOf(old)
    BY <1>3 DEF StockInv, RequestsInv, Ledger
  <2> QED BY <1>3, <1>6, <1>8, <2>1 DEF KnownLotsStay
<1> QED BY <1>3, <1>7, <1>9, <1>10, <1>11, <1>12 DEF Ledger

\* What a line does to a cell, by the kind of its document.
LEMMA LineEffectAt ==
  ASSUME NEW body \in Body, NEW line \in Line, NEW c \in Cells
  PROVE  /\ body.kind = "receipt" =>
              LineEffect(body, line, c) = IF c = <<body.to, line.m>> THEN line.q ELSE 0
         /\ body.kind = "issue" =>
              LineEffect(body, line, c) = IF c = <<body.from, line.m>> THEN -line.q ELSE 0
         /\ body.kind = "count" =>
              LineEffect(body, line, c) = IF c = <<body.from, line.m>> THEN Diff(line) ELSE 0
         /\ body.kind = "transfer" /\ body.from # body.to =>
              LineEffect(body, line, c) =
                IF c = <<body.from, line.m>> THEN -line.q
                ELSE IF c = <<body.to, line.m>> THEN line.q ELSE 0
<1>1. /\ c = <<body.to, line.m>> <=> c[1] = body.to /\ c[2] = line.m
      /\ c = <<body.from, line.m>> <=> c[1] = body.from /\ c[2] = line.m
  BY DEF Cells
<1>2. CASE body.kind = "receipt"
  BY <1>1, <1>2 DEF LineEffect
<1>3. CASE body.kind = "issue"
  BY <1>1, <1>3 DEF LineEffect
<1>4. CASE body.kind = "count"
  BY <1>1, <1>4 DEF LineEffect
<1>5. CASE body.kind = "transfer" /\ body.from # body.to
  BY <1>1, <1>5 DEF LineEffect
<1> QED BY <1>2, <1>3, <1>4, <1>5

\* Statements that leave the lots alone.
LEMMA LotsStandingStill ==
  ASSUME LotsInv, lot' = lot, dLot' = dLot
  PROVE  /\ \A R : CommittedIn(R)' = CommittedIn(R)
         /\ \A R : \A q \in Requests : NetIn(q, R)' = NetIn(q, R)
         /\ \A q \in Requests : KnownLotsStay(q)
<1>1. \A R : CommittedIn(R)' = CommittedIn(R)
  BY DEF CommittedIn, CommittedTerms, At
<1>2. \A R : \A q \in Requests : NetIn(q, R)' = NetIn(q, R)
  BY DEF NetIn, NetTerms, At
<1>3. \A q \in Requests : KnownLotsStay(q)
  BY DEF KnownLotsStay, Exists
<1> QED BY <1>1, <1>2, <1>3

\* adjustBalance changes one balance of one request.
AdjustsBalance(p, cell, delta) ==
  dBalance' = [dBalance EXCEPT ![p][cell] = @ + delta]

\* What that leaves of the balances.
LEMMA AdjustedBalance ==
  ASSUME BalancesInv, NEW p \in Requests, NEW cell \in Cells, NEW delta \in Int,
         AdjustsBalance(p, cell, delta)
  PROVE  /\ \A c \in Cells : dBalance'[p][c] =
              dBalance[p][c] + (IF c = cell THEN delta ELSE 0)
         /\ \A q \in Requests \ {p} : dBalance'[q] = dBalance[q]
<1>1. dBalance \in [Requests -> [Cells -> Int]]
  BY DEF BalancesInv
<1>2. dBalance'[p] = [dBalance[p] EXCEPT ![cell] = @ + delta]
  BY <1>1 DEF AdjustsBalance
<1>3. \A q \in Requests \ {p} : dBalance'[q] = dBalance[q]
  BY <1>1 DEF AdjustsBalance
<1> QED BY <1>1, <1>2, <1>3

\* The balance follows: a transfer has left its source, any other line is done.
LEMMA DebitLedger ==
  ASSUME StockInv, NEW p \in Requests, Ledger(p), Debit(p)
  PROVE  Ledger(p)' /\ Aside(p)
<1> DEFINE r == req'[p]
           old == req[p]
           drained == [old EXCEPT !.read = NothingTaken]
           all == NeededBy(old)
           line == LineOf(old)
<1>1. /\ old \in Request /\ OnItsLine(old) /\ old.body \in Body
      /\ line \in Line /\ line.q \in Nat /\ all \in Int
      /\ SourceOf(old) \in Cells /\ Diff(line) \in Int
      /\ Source(p) = SourceOf(old) /\ Required(p) = all
  BY RecordFields DEF StockInv, Debit
<1>2. /\ old.pc = "take" /\ old.need = 0
      /\ AdjustsBalance(p, SourceOf(old), -all) /\ lot' = lot /\ dLot' = dLot
  <2>1. dBalance \in [Requests -> [Cells -> Int]]
    BY DEF StockInv, TablesInv, BalancesInv
  <2>2. dBalance' = [dBalance EXCEPT ![p][SourceOf(old)] = @ - all]
    BY <1>1 DEF Debit, DebitBalance
  <2> HIDE DEF all, old
  <2>3. AdjustsBalance(p, SourceOf(old), -all)
    BY <1>1, <2>1, <2>2 DEF AdjustsBalance
  <2> QED BY <2>3 DEF Debit, tables, old
<1>3. /\ \A R : CommittedIn(R)' = CommittedIn(R)
      /\ \A R : \A q \in Requests : NetIn(q, R)' = NetIn(q, R)
      /\ \A q \in Requests : KnownLotsStay(q)
  BY <1>2, LotsStandingStill DEF StockInv, TablesInv
<1>4. /\ \A c \in Cells : dBalance'[p][c] =
           dBalance[p][c] + (IF c = SourceOf(old) THEN -all ELSE 0)
      /\ \A q \in Requests \ {p} : dBalance'[q] = dBalance[q]
  <2>1. -all \in Int
    BY <1>1
  <2> QED BY <1>1, <1>2, <2>1, AdjustedBalance DEF StockInv, TablesInv
<1>5. /\ drained \in Request /\ OnItsLine(drained) /\ drained.read = NothingTaken
      /\ drained.body = old.body /\ drained.i = old.i /\ drained.op = old.op
      /\ LineOf(drained) = line
  BY <1>1 DEF Request, NothingTaken, OnItsLine, LineOf
<1>6. /\ r = IF old.body.kind = "transfer" THEN [drained EXCEPT !.pc = "credit"]
             ELSE After(drained, "line", "finish")
      /\ \A q \in Requests \ {p} : req'[q] = req[q]
  <2>1. req \in [Requests -> Request]
    BY DEF StockInv, RequestsInv
  <2> QED BY <2>1 DEF Debit, Is
<1>7. Aside(p)
  BY <1>3, <1>4, <1>6 DEF Aside, Alone
<1> HIDE DEF drained
<1>8. \/ old.body.kind \in {"issue", "transfer"}
      \/ old.body.kind = "count" /\ Diff(line) < 0
  BY <1>2 DEF Ledger, OnItsKind
<1>9. ASSUME NEW c \in Cells
      PROVE  /\ dBalance[p][c] \in Int /\ PartOf(old.body, old.i - 1, c) \in Int
             /\ dBalance[p][c] = PartOf(old.body, old.i - 1, c)
             /\ NetIn(p, CellRegion(c)) = dBalance[p][c]
                  + (IF c = SourceOf(old) THEN -all ELSE 0)
                  + (IF old.body.kind = "transfer" /\ c = TargetOf(old) THEN all ELSE 0)
  <2>1. dBalance[p][c] = PartOf(old.body, old.i - 1, c) + 0 /\ dBalance[p][c] \in Int
    <3>1. dBalance[p][c] \in Int
      BY DEF StockInv, TablesInv, BalancesInv
    <3> QED BY <1>2, <3>1 DEF Ledger, Posted, Begun
  <2>2. PartOf(old.body, old.i - 1, c) \in Int
    <3>1. old.i - 1 \in 0..Len(old.body.lines)
      BY <1>1, LenProperties DEF OnItsLine, Body
    <3> QED BY <1>1, <3>1, PartsGrow
  <2>3. NetIn(p, CellRegion(c)) = dBalance[p][c] + Ahead(old, c)
    BY DEF Ledger
  <2>4. Ahead(old, c) = (IF c = SourceOf(old) THEN -all ELSE 0)
                  + (IF old.body.kind = "transfer" /\ c = TargetOf(old) THEN all ELSE 0)
    <3>1. old.need - all = -all /\ all - old.need = all
      BY <1>1, <1>2
    <3> QED BY <1>2, <3>1 DEF Ahead
  <2> HIDE DEF all, old
  <2> QED BY <1>1, <2>1, <2>2, <2>3, <2>4
<1>10. CASE old.body.kind = "transfer"
  <2>1. /\ r.pc = "credit" /\ r.body = old.body /\ r.i = old.i /\ r.op = old.op
        /\ r.read = NothingTaken /\ all = line.q
    BY <1>5, <1>6, <1>10 DEF Request, NeededBy
  <2>2. /\ LineOf(r) = line /\ SourceOf(r) = SourceOf(old) /\ TargetOf(r) = TargetOf(old)
    BY <2>1 DEF LineOf, SourceOf, TargetOf
  <2>3. ASSUME NEW c \in Cells
        PROVE  /\ dBalance'[p][c] = Posted(r, c)
               /\ NetIn(p, CellRegion(c))' = dBalance'[p][c] + Ahead(r, c)
    <3>1. Posted(r, c) = PartOf(old.body, old.i - 1, c)
                           + (IF c = SourceOf(old) THEN -all ELSE 0)
      BY <2>1, <2>2 DEF Posted, Begun
    <3>2. Ahead(r, c) = IF c = TargetOf(old) THEN all ELSE 0
      BY <2>1, <2>2 DEF Ahead
    <3> QED BY <1>1, <1>3, <1>4, <1>9, <1>10, <3>1, <3>2
  <2>4. \A m \in Materials, date \in Nat : NetIn(p, DatedRegion(m, date))' = 0
    BY <1>3, <1>10 DEF Ledger
  <2>5. OnItsKind(r)
    BY <2>1, <1>2, <1>10 DEF Ledger, OnItsKind
  <2>6. \A l \in LotIds : r.read[l] = 0
    BY <2>1 DEF NothingTaken
  <2> QED BY <1>7, <2>1, <2>3, <2>4, <2>5, <2>6 DEF Ledger
<1>11. CASE old.body.kind # "transfer"
  <2>1. /\ r.body = old.body /\ r.op = old.op /\ r.read = NothingTaken
        /\ r.pc \in {"line", "finish"}
    BY <1>5, <1>6, <1>11, AfterFields, SMTT(30) DEF Steps
  <2>2. ASSUME NEW c \in Cells
        PROVE  /\ dBalance'[p][c] = Posted(r, c)
               /\ NetIn(p, CellRegion(c))' = dBalance'[p][c] + Ahead(r, c)
    <3>1. /\ Posted(r, c) = PartOf(old.body, old.i - 1, c) + LineEffect(old.body, line, c)
          /\ Ahead(r, c) = 0
      BY <1>5, <1>6, <1>11, NextLinePosts
    <3>2. LineEffect(old.body, line, c) = IF c = SourceOf(old) THEN -all ELSE 0
      <4>1. CASE old.body.kind = "issue"
        BY <1>1, <4>1, LineEffectAt DEF NeededBy, SourceOf
      <4>2. CASE old.body.kind = "count"
        <5>1. -all = Diff(line)
          BY <1>1, <4>2 DEF NeededBy
        <5> QED BY <1>1, <4>2, <5>1, LineEffectAt DEF SourceOf
      <4> QED BY <1>8, <1>11, <4>1, <4>2
    <3> QED BY <1>1, <1>3, <1>4, <1>9, <1>11, <3>1, <3>2
  <2>3. OnItsKind(r)
    BY <2>1, <1>2 DEF Ledger, OnItsKind
  <2>4. \A l \in LotIds : r.read[l] = 0
    BY <2>1 DEF NothingTaken
  <2> QED BY <1>7, <1>11, <2>1, <2>2, <2>3, <2>4 DEF Ledger
<1> QED BY <1>10, <1>11

\* The line is complete: its effect is in the balances, its stock in the lots.
LEMMA LineCompletes ==
  ASSUME StockInv, NEW p \in Requests, Ledger(p), req[p].pc # "idle",
         NextLine(p), req[p].read = NothingTaken \/ req[p].pc # "take",
         \A q \in Requests \ {p} :
           /\ dBalance'[q] = dBalance[q] /\ KnownLotsStay(q)
           /\ \A R : NetIn(q, R)' = NetIn(q, R),
         \A R : CommittedIn(R)' = CommittedIn(R),
         \A c \in Cells :
           /\ dBalance'[p][c] = PartOf(req[p].body, req[p].i - 1, c)
                                  + LineEffect(req[p].body, LineOf(req[p]), c)
           /\ NetIn(p, CellRegion(c))' = dBalance'[p][c],
         req[p].body.kind = "transfer" =>
           \A m \in Materials, date \in Nat : NetIn(p, DatedRegion(m, date))' = 0,
         req[p].pc # "write"
  PROVE  Ledger(p)' /\ Aside(p)
<1> DEFINE r == req'[p]
           old == req[p]
<1>1. old \in Request /\ OnItsLine(old) /\ req \in [Requests -> Request]
  BY DEF StockInv, RequestsInv
<1>2. r = After(old, "line", "finish") /\ \A q \in Requests \ {p} : req'[q] = req[q]
  BY <1>1 DEF NextLine
<1>3. Aside(p)
  BY <1>2 DEF Aside, Alone
<1>4. r.body = old.body /\ r.op = old.op /\ r.read = old.read /\ r.pc \in {"line", "finish"}
  BY <1>1, <1>2, AfterFields DEF Steps
<1>5. \A l \in LotIds : r.read[l] = 0
  BY <1>4 DEF Ledger, NothingTaken
<1>6. OnItsKind(r)
  BY <1>4 DEF Ledger, OnItsKind
<1>7. ASSUME NEW c \in Cells
      PROVE  /\ dBalance'[p][c] = Posted(r, c)
             /\ NetIn(p, CellRegion(c))' = dBalance'[p][c] + Ahead(r, c)
  <2>1. /\ Posted(r, c) = PartOf(old.body, old.i - 1, c) + LineEffect(old.body, LineOf(old), c)
        /\ Ahead(r, c) = 0
    BY <1>1, <1>2, NextLinePosts
  <2>2. dBalance'[p][c] \in Int
    <3>1. old.body \in Body /\ old.i \in 1..Len(old.body.lines) /\ Len(old.body.lines) \in Nat
      BY <1>1, LenProperties DEF OnItsLine, Request, Body
    <3>2. old.i \in 0..Len(old.body.lines)
      BY <3>1
    <3>3. PartOf(old.body, old.i, c) \in Int
          /\ PartOf(old.body, old.i, c) = PartOf(old.body, old.i - 1, c)
                                            + LineEffect(old.body, LineOf(old), c)
      BY <3>1, <3>2, PartsGrow DEF LineOf
    <3> QED BY <3>3
  <2> QED BY <2>1, <2>2
<1> QED BY <1>3, <1>4, <1>5, <1>6, <1>7 DEF Ledger

\* On a line the ledger says what is posted of it; the sums are numbers.
LEMMA LedgerOnLine ==
  ASSUME StockInv, NEW p \in Requests, Ledger(p), req[p].pc # "idle", NEW c \in Cells
  PROVE  /\ dBalance[p][c] \in Int /\ PartOf(req[p].body, req[p].i - 1, c) \in Int
         /\ NetIn(p, CellRegion(c)) = dBalance[p][c] + Ahead(req[p], c)
         /\ req[p].pc \in {"line", "credit", "cost", "stock", "average"} =>
              dBalance[p][c] = PartOf(req[p].body, req[p].i - 1, c) + Begun(req[p], c)
<1>1. req[p].body \in Body /\ OnItsLine(req[p])
  BY RecordFields DEF StockInv
<1>2. req[p].i - 1 \in 0..Len(req[p].body.lines)
  BY <1>1, LenProperties DEF OnItsLine, Body
<1>3. PartOf(req[p].body, req[p].i - 1, c) \in Int
  BY <1>1, <1>2, PartsGrow
<1>4. dBalance[p][c] \in Int
  BY DEF StockInv, TablesInv, BalancesInv
<1>5. /\ NetIn(p, CellRegion(c)) = dBalance[p][c] + Ahead(req[p], c)
      /\ dBalance[p][c] = Posted(req[p], c)
  BY DEF Ledger
<1> QED BY <1>3, <1>4, <1>5 DEF Posted

\* A transfer arrives in the balance of its target.
LEMMA CreditTargetLedger ==
  ASSUME StockInv, NEW p \in Requests, Ledger(p), CreditTarget(p)
  PROVE  Ledger(p)' /\ Aside(p)
<1> DEFINE old == req[p]
           line == LineOf(old)
<1>1. /\ old.body \in Body /\ line \in Line /\ line.q \in Nat /\ old.pc = "credit"
      /\ SourceOf(old) \in Cells /\ TargetOf(old) \in Cells
      /\ SourceOf(old) = <<old.body.from, line.m>> /\ TargetOf(old) = <<old.body.to, line.m>>
      /\ Target(p) = TargetOf(old) /\ Current(p) = line
  BY RecordFields DEF StockInv, CreditTarget, SourceOf, TargetOf
<1>2. /\ AdjustsBalance(p, TargetOf(old), line.q)
      /\ lot' = lot /\ dLot' = dLot /\ NextLine(p)
  BY <1>1 DEF CreditTarget, CreditBalance, AdjustsBalance, tables
<1>3. /\ \A R : CommittedIn(R)' = CommittedIn(R)
      /\ \A R : \A q \in Requests : NetIn(q, R)' = NetIn(q, R)
      /\ \A q \in Requests : KnownLotsStay(q)
  BY <1>2, LotsStandingStill DEF StockInv, TablesInv
<1>4. /\ \A c \in Cells : dBalance'[p][c] =
           dBalance[p][c] + (IF c = TargetOf(old) THEN line.q ELSE 0)
      /\ \A q \in Requests \ {p} : dBalance'[q] = dBalance[q]
  <2>1. BalancesInv
    BY DEF StockInv, TablesInv
  <2>2. line.q \in Int
    BY <1>1
  <2> HIDE DEF line, old
  <2> QED BY <1>1, <1>2, <2>1, <2>2, AdjustedBalance
<1>5. old.body.kind = "transfer" /\ old.body.from # old.body.to
  BY <1>1 DEF Ledger, OnItsKind, Sendable
<1>6. ASSUME NEW c \in Cells
      PROVE  /\ dBalance'[p][c] = PartOf(old.body, old.i - 1, c)
                                    + LineEffect(old.body, line, c)
             /\ NetIn(p, CellRegion(c))' = dBalance'[p][c]
  <2>1. LineEffect(old.body, line, c) = IF c = SourceOf(old) THEN -line.q
                                        ELSE IF c = TargetOf(old) THEN line.q ELSE 0
    BY <1>1, <1>5, LineEffectAt
  <2>2. /\ dBalance[p][c] \in Int /\ PartOf(old.body, old.i - 1, c) \in Int
        /\ NetIn(p, CellRegion(c)) = dBalance[p][c] + Ahead(old, c)
        /\ dBalance[p][c] = PartOf(old.body, old.i - 1, c) + Begun(old, c)
    BY <1>1, LedgerOnLine
  <2>3. /\ Begun(old, c) = IF c = SourceOf(old) THEN -line.q ELSE 0
        /\ Ahead(old, c) = IF c = TargetOf(old) THEN line.q ELSE 0
    BY <1>1 DEF Begun, Ahead
  <2>4. SourceOf(old) # TargetOf(old)
    BY <1>1, <1>5
  <2> QED BY <1>1, <1>3, <1>4, <2>1, <2>2, <2>3, <2>4
<1>7. \A m \in Materials, date \in Nat : NetIn(p, DatedRegion(m, date))' = 0
  BY <1>3, <1>5 DEF Ledger
<1> HIDE DEF line
<1>8. \A c \in Cells : /\ dBalance'[p][c] = PartOf(old.body, old.i - 1, c)
                                              + LineEffect(old.body, LineOf(old), c)
                       /\ NetIn(p, CellRegion(c))' = dBalance'[p][c]
  BY <1>6 DEF line
<1> QED BY <1>1, <1>2, <1>3, <1>4, <1>7, <1>8, LineCompletes

\* A received line is in the balance before it is in a lot.
LEMMA CreditReceiptLedger ==
  ASSUME StockInv, NEW p \in Requests, Ledger(p), CreditReceipt(p)
  PROVE  Ledger(p)' /\ Aside(p)
<1> DEFINE r == req'[p]
           old == req[p]
           line == LineOf(old)
<1>1. /\ old \in Request /\ line.q \in Nat /\ old.pc = "line"
      /\ old.body.kind = "receipt" /\ TargetOf(old) \in Cells
      /\ Target(p) = TargetOf(old) /\ Current(p) = line
  BY RecordFields DEF StockInv, CreditReceipt, Is
<1>2. AdjustsBalance(p, TargetOf(old), line.q) /\ lot' = lot /\ dLot' = dLot
  BY <1>1 DEF CreditReceipt, CreditBalance, AdjustsBalance, tables
<1>3. /\ \A R : CommittedIn(R)' = CommittedIn(R)
      /\ \A R : \A q \in Requests : NetIn(q, R)' = NetIn(q, R)
      /\ \A q \in Requests : KnownLotsStay(q)
  BY <1>2, LotsStandingStill DEF StockInv, TablesInv
<1>4. /\ \A c \in Cells : dBalance'[p][c] =
           dBalance[p][c] + (IF c = TargetOf(old) THEN line.q ELSE 0)
      /\ \A q \in Requests \ {p} : dBalance'[q] = dBalance[q]
  <2>1. BalancesInv
    BY DEF StockInv, TablesInv
  <2>2. line.q \in Int
    BY <1>1
  <2> HIDE DEF line, old
  <2> QED BY <1>1, <1>2, <2>1, <2>2, AdjustedBalance
<1>5. /\ r.pc = "cost" /\ r.op = old.op /\ r.body = old.body /\ r.i = old.i
      /\ r.read = old.read /\ \A q \in Requests \ {p} : req'[q] = req[q]
  <2>1. req \in [Requests -> Request]
    BY DEF StockInv, RequestsInv
  <2> QED BY <1>1, <2>1 DEF CreditReceipt, Goto, Request
<1>6. Aside(p)
  BY <1>3, <1>4, <1>5 DEF Aside, Alone
<1>7. LineOf(r) = line /\ TargetOf(r) = TargetOf(old)
  BY <1>5 DEF LineOf, TargetOf
<1>8. ASSUME NEW c \in Cells
      PROVE  /\ dBalance'[p][c] = Posted(r, c)
             /\ NetIn(p, CellRegion(c))' = dBalance'[p][c] + Ahead(r, c)
  <2>1. /\ dBalance[p][c] \in Int /\ PartOf(old.body, old.i - 1, c) \in Int
        /\ NetIn(p, CellRegion(c)) = dBalance[p][c] + Ahead(old, c)
        /\ dBalance[p][c] = PartOf(old.body, old.i - 1, c) + Begun(old, c)
    BY <1>1, LedgerOnLine
  <2>2. Begun(old, c) = 0 /\ Ahead(old, c) = 0
    BY <1>1 DEF Begun, Ahead
  <2>3. /\ Posted(r, c) = PartOf(old.body, old.i - 1, c)
                            + (IF c = TargetOf(old) THEN line.q ELSE 0)
        /\ Ahead(r, c) = IF c = TargetOf(old) THEN -line.q ELSE 0
    BY <1>5, <1>7 DEF Posted, Begun, Ahead
  <2> HIDE DEF line, old, r
  <2> QED BY <1>1, <1>3, <1>4, <2>1, <2>2, <2>3
<1>9. OnItsKind(r)
  BY <1>1, <1>5 DEF Ledger, OnItsKind
<1>10. \A l \in LotIds : r.read[l] = 0
  BY <1>1, <1>5 DEF Ledger
<1> QED BY <1>1, <1>5, <1>6, <1>8, <1>9, <1>10 DEF Ledger

\* Its lot follows with the new cost price.
LEMMA WriteAverageLedger ==
  ASSUME StockInv, NEW p \in Requests, Ledger(p), WriteAverage(p)
  PROVE  Ledger(p)' /\ Aside(p)
<1> DEFINE old == req[p]
           line == LineOf(old)
           d == old.body.date
<1>1. /\ old.body \in Body /\ line \in Line /\ line.q \in Nat /\ old.pc = "average"
      /\ line.m \in Materials /\ old.body.to \in Warehouses /\ d \in Nat
      /\ TargetOf(old) \in Cells /\ TargetOf(old) = <<old.body.to, line.m>>
      /\ Target(p) = TargetOf(old) /\ Current(p) = line
  BY RecordFields DEF StockInv, WriteAverage, TargetOf
<1>2. /\ dBalance' = dBalance /\ dLot' = dLot /\ NextLine(p)
      /\ CreateLot(p, TargetOf(old), d, line.q)
  BY <1>1 DEF WriteAverage
<1>3. old.body.kind = "receipt"
  BY <1>1 DEF Ledger, OnItsKind
<1> HIDE DEF d
<1>4. /\ \A R : CommittedIn(R)' = CommittedIn(R)
      /\ \A R : \A q \in Requests \ {p} : NetIn(q, R)' = NetIn(q, R)
      /\ \A R : NetIn(p, R)' = NetIn(p, R)
                  + (IF <<TargetOf(old), d>> \in R THEN line.q ELSE 0)
  <2>1. LotsInv /\ \A q \in Requests : dLot'[q] = dLot[q]
    BY <1>2 DEF StockInv, TablesInv
  <2>2. ASSUME NEW R
        PROVE  /\ CommittedIn(R)' = CommittedIn(R)
               /\ \A q \in Requests \ {p} : NetIn(q, R)' = NetIn(q, R)
               /\ NetIn(p, R)' = NetIn(p, R)
                    + (IF <<TargetOf(old), d>> \in R THEN line.q ELSE 0)
    BY <1>1, <1>2, <2>1, CreateMovesSums
  <2> QED BY <2>2
<1>5. \A q \in Requests : KnownLotsStay(q)
  BY <1>1, <1>2, CreateKeepsPlaces DEF StockInv, TablesInv
<1>6. ASSUME NEW c \in Cells
      PROVE  /\ dBalance'[p][c] = PartOf(old.body, old.i - 1, c)
                                    + LineEffect(old.body, line, c)
             /\ NetIn(p, CellRegion(c))' = dBalance'[p][c]
  <2>1. LineEffect(old.body, line, c) = IF c = TargetOf(old) THEN line.q ELSE 0
    BY <1>1, <1>3, LineEffectAt
  <2>2. /\ dBalance[p][c] \in Int /\ PartOf(old.body, old.i - 1, c) \in Int
        /\ NetIn(p, CellRegion(c)) = dBalance[p][c] + Ahead(old, c)
        /\ dBalance[p][c] = PartOf(old.body, old.i - 1, c) + Begun(old, c)
    BY <1>1, LedgerOnLine
  <2>3. /\ Begun(old, c) = IF c = TargetOf(old) THEN line.q ELSE 0
        /\ Ahead(old, c) = IF c = TargetOf(old) THEN -line.q ELSE 0
    BY <1>1 DEF Begun, Ahead
  <2>4. <<TargetOf(old), d>> \in CellRegion(c) <=> c = TargetOf(old)
    BY <1>1, RegionMembers DEF d
  <2>5. NetIn(p, CellRegion(c))' = NetIn(p, CellRegion(c))
          + (IF c = TargetOf(old) THEN line.q ELSE 0)
    BY <1>4, <2>4
  <2> HIDE DEF line, old
  <2> QED BY <1>1, <1>2, <2>1, <2>2, <2>3, <2>5
<1> HIDE DEF line
<1>7. \A c \in Cells : /\ dBalance'[p][c] = PartOf(old.body, old.i - 1, c)
                                              + LineEffect(old.body, LineOf(old), c)
                       /\ NetIn(p, CellRegion(c))' = dBalance'[p][c]
  BY <1>6 DEF line
<1> QED BY <1>1, <1>2, <1>3, <1>4, <1>5, <1>7, LineCompletes

\* A surplus is in the balance and in a lot of its own at once.
LEMMA CreditSurplusLedger ==
  ASSUME StockInv, NEW p \in Requests, Ledger(p), CreditSurplus(p)
  PROVE  Ledger(p)' /\ Aside(p)
<1> DEFINE old == req[p]
           line == LineOf(old)
           d == old.body.date
           surplus == Diff(line)
<1>1. /\ old.body \in Body /\ line \in Line /\ old.pc = "line"
      /\ line.m \in Materials /\ old.body.from \in Warehouses /\ d \in Nat
      /\ SourceOf(old) \in Cells /\ SourceOf(old) = <<old.body.from, line.m>>
      /\ Source(p) = SourceOf(old) /\ Current(p) = line
      /\ surplus \in Nat /\ old.body.kind = "count"
  BY RecordFields DEF StockInv, CreditSurplus, SourceOf, Is
<1>2. /\ AdjustsBalance(p, SourceOf(old), surplus) /\ dLot' = dLot /\ NextLine(p)
      /\ IF surplus > 0 THEN CreateLot(p, SourceOf(old), d, surplus) ELSE lot' = lot
  BY <1>1 DEF CreditSurplus, CreditBalance, AdjustsBalance
<1> HIDE DEF d, surplus
<1>3. /\ \A R : CommittedIn(R)' = CommittedIn(R)
      /\ \A R : \A q \in Requests \ {p} : NetIn(q, R)' = NetIn(q, R)
      /\ \A R : NetIn(p, R)' = NetIn(p, R)
                  + (IF <<SourceOf(old), d>> \in R THEN surplus ELSE 0)
  <2>1. LotsInv /\ \A q \in Requests : dLot'[q] = dLot[q]
    BY <1>2 DEF StockInv, TablesInv
  <2>2. CASE surplus > 0
    <3>1. ASSUME NEW R
          PROVE  /\ CommittedIn(R)' = CommittedIn(R)
                 /\ \A q \in Requests \ {p} : NetIn(q, R)' = NetIn(q, R)
                 /\ NetIn(p, R)' = NetIn(p, R)
                      + (IF <<SourceOf(old), d>> \in R THEN surplus ELSE 0)
      <4>1. CreateLot(p, SourceOf(old), d, surplus) /\ SourceOf(old) \in Cells
            /\ d \in Nat /\ surplus \in Nat
        BY <1>1, <1>2, <2>2
      <4> HIDE DEF old
      <4> QED BY <2>1, <4>1, CreateMovesSums
    <3> QED BY <3>1
  <2>3. CASE surplus = 0
    <3>1. \A R : NetIn(p, R) \in Int
      BY <2>1, RegionSumsAreInts
    <3> QED BY <1>2, <2>1, <2>3, <3>1, LotsStandingStill
  <2> QED BY <1>1, <2>2, <2>3
<1>4. \A q \in Requests : KnownLotsStay(q)
  BY <1>1, <1>2, CreateKeepsPlaces DEF StockInv, TablesInv
<1>5. /\ \A c \in Cells : dBalance'[p][c] =
           dBalance[p][c] + (IF c = SourceOf(old) THEN surplus ELSE 0)
      /\ \A q \in Requests \ {p} : dBalance'[q] = dBalance[q]
  <2>1. BalancesInv
    BY DEF StockInv, TablesInv
  <2>2. surplus \in Int
    BY <1>1
  <2> HIDE DEF line, old
  <2> QED BY <1>1, <1>2, <2>1, <2>2, AdjustedBalance
<1>6. ASSUME NEW c \in Cells
      PROVE  /\ dBalance'[p][c] = PartOf(old.body, old.i - 1, c)
                                    + LineEffect(old.body, line, c)
             /\ NetIn(p, CellRegion(c))' = dBalance'[p][c]
  <2>1. LineEffect(old.body, line, c) = IF c = SourceOf(old) THEN surplus ELSE 0
    BY <1>1, LineEffectAt DEF surplus
  <2>2. /\ dBalance[p][c] \in Int /\ PartOf(old.body, old.i - 1, c) \in Int
        /\ NetIn(p, CellRegion(c)) = dBalance[p][c] + Ahead(old, c)
        /\ dBalance[p][c] = PartOf(old.body, old.i - 1, c) + Begun(old, c)
    BY <1>1, LedgerOnLine
  <2>3. Begun(old, c) = 0 /\ Ahead(old, c) = 0
    BY <1>1 DEF Begun, Ahead
  <2>4. <<SourceOf(old), d>> \in CellRegion(c) <=> c = SourceOf(old)
    BY <1>1, RegionMembers DEF d
  <2>5. NetIn(p, CellRegion(c))' = NetIn(p, CellRegion(c))
          + (IF c = SourceOf(old) THEN surplus ELSE 0)
    BY <1>3, <2>4
  <2> HIDE DEF line, old
  <2> QED BY <1>1, <1>5, <2>1, <2>2, <2>3, <2>5
<1> HIDE DEF line
<1>7. \A c \in Cells : /\ dBalance'[p][c] = PartOf(old.body, old.i - 1, c)
                                              + LineEffect(old.body, LineOf(old), c)
                       /\ NetIn(p, CellRegion(c))' = dBalance'[p][c]
  BY <1>6 DEF line
<1> QED BY <1>1, <1>2, <1>3, <1>4, <1>5, <1>7, LineCompletes
-----------------------------------------------------------------------------
(* The beginning and the end of a request, and every step between.         *)

DocsSendable == \A d \in Docs : Sendable(doc[d].body)

\* What a request starts with, and what it is left with when it ends.
LEMMA IdleLedger ==
  ASSUME NEW p \in Requests, req'[p] = Idle,
         \A c \in Cells : dBalance'[p][c] = 0, \A R : NetIn(p, R)' = 0
  PROVE  Ledger(p)'
<1>1. /\ Idle.pc = "idle" /\ Idle.body.kind = "receipt"
      /\ \A l \in LotIds : Idle.read[l] = 0
  BY IdleIsRequest DEF Idle, NoBody
<1>2. OnItsKind(Idle)
  BY <1>1 DEF OnItsKind, Sendable
<1>3. \A c \in Cells : Posted(Idle, c) = 0 /\ Ahead(Idle, c) = 0
  BY <1>1 DEF Posted, Ahead
<1>4. \A c \in Cells : NetIn(p, CellRegion(c))' = dBalance'[p][c] + Ahead(Idle, c)
  BY <1>3
<1> QED BY <1>1, <1>2, <1>3, <1>4 DEF Ledger

\* A handler reads its document; an update brings a body the schema accepts.
LEMMA BeginsOnLedger ==
  ASSUME StockInv, DocsSendable, NEW p \in Requests, Ledger(p), NEW d \in Docs,
         BeginOn(p, d)
  PROVE  Ledger(p)' /\ Aside(p)
<1>1. PICK op \in {"confirm", "update", "cancel", "remove"}, body \in Body :
        Begin(p, op, d, body) /\ Sendable(body) /\ body.lines # <<>>
  <2>1. Open(d) => doc[d].body \in Body /\ doc[d].body.lines # <<>> /\ Sendable(doc[d].body)
    BY DEF StockInv, DocsInv, Open, DocsSendable
  <2>2. CASE BeginConfirm(p, d) \/ BeginCancel(p, d) \/ BeginRemove(p, d)
    BY <2>1, <2>2 DEF BeginConfirm, BeginCancel, BeginRemove, Begin
  <2>3. CASE BeginUpdate(p, d)
    <3>1. PICK dto \in Payloads[doc[d].body.kind] :
            /\ Valid(doc[d].body.kind, dto)
            /\ Begin(p, "update", d, Filled(doc[d].body.kind, dto, doc[d].body.lines))
      BY <2>3 DEF BeginUpdate
    <3>2. doc[d].body.kind \in Kinds /\ doc[d].body.lines \in Seq(Line)
      BY <2>1, <3>1 DEF Begin, Body
    <3>3. Sendable(Filled(doc[d].body.kind, dto, doc[d].body.lines))
      BY <3>1 DEF Valid, Sendable, Filled
    <3> QED BY <3>1, <3>2, <3>3, FilledIsBody DEF StockInv
  <2> QED BY <2>2, <2>3 DEF BeginOn
<1> DEFINE pc == IF op # "confirm" THEN "write"
                 ELSE IF body.kind \in {"issue", "transfer"} THEN "check" ELSE "line"
           r == [Idle EXCEPT !.op = op, !.d = d, !.body = body, !.pc = pc]
<1>2. /\ r \in Request /\ r.i = 1 /\ r.d = d /\ r.body = body /\ r.read = NothingTaken
      /\ r.op = op /\ r.pc = pc
  BY IdleIsRequest DEF Request, Steps, Idle
<1>3. OnItsLine(r)
  <2>1. Len(body.lines) \in Nat \ {0}
    BY <1>1, EmptySeq DEF Body
  <2> QED BY <1>2, <2>1 DEF OnItsLine
<1>4. /\ req' = [req EXCEPT ![p] = r] /\ req[p].pc = "idle"
      /\ UNCHANGED <<balance, lot, dBalance, dLot>>
  BY <1>1 DEF Begin, tables, pending
<1>5. req'[p] = r /\ \A q \in Requests \ {p} : req'[q] = req[q]
  BY <1>4 DEF StockInv, RequestsInv
<1>6. r.pc \in {"check", "write", "line"} /\ (r.pc # "write" => r.op = "confirm")
  BY <1>2
<1> HIDE DEF r
<1>7. Ledger(p)'
  BY <1>1, <1>2, <1>3, <1>4, <1>5, <1>6, BeginsLedger
<1>8. Aside(p)
  BY <1>4, <1>5, StandingStill DEF Aside, Alone, StockInv, TablesInv
<1> QED BY <1>7, <1>8

\* The pre-check of a line.
LEMMA CheckStockLedger ==
  ASSUME StockInv, NEW p \in Requests, Ledger(p), CheckStock(p)
  PROVE  Ledger(p)' /\ Aside(p)
<1> DEFINE old == req[p]
           r == After(old, "check", "line")
<1>1. old \in Request /\ OnItsLine(old) /\ old.pc = "check"
  BY RecordFields DEF StockInv, CheckStock
<1>2. /\ r \in Request /\ OnItsLine(r) /\ r.body = old.body /\ r.op = old.op
      /\ r.read = old.read
      /\ r.pc \in {"check", "line"} /\ (r.pc = "line" => r.i = 1)
  BY <1>1, AfterFields, SMTT(30) DEF Steps
<1>3. req'[p] = r /\ \A q \in Requests \ {p} : req'[q] = req[q]
  BY DEF CheckStock, StockInv, RequestsInv
<1>4. UNCHANGED <<balance, lot, dBalance, dLot>>
  BY DEF CheckStock, tables, pending
<1>5. old.op = "confirm" /\ Sendable(old.body) /\ r.read = NothingTaken
  <2>1. \A l \in LotIds : old.read[l] = 0
    BY <1>1 DEF Ledger
  <2>2. old.read \in [LotIds -> Nat]
    BY <1>1 DEF Request
  <2>3. old.read = NothingTaken
    BY <2>1, <2>2 DEF NothingTaken
  <2> QED BY <1>1, <1>2, <2>3 DEF Ledger, OnItsKind
<1> HIDE DEF r
<1>6. Ledger(p)'
  BY <1>1, <1>2, <1>3, <1>4, <1>5, BeginsLedger
<1>7. Aside(p)
  BY <1>3, <1>4, StandingStill DEF Aside, Alone, StockInv, TablesInv
<1> QED BY <1>6, <1>7

\* update, cancel and remove end where they began: with nothing.
LEMMA WriteLedger ==
  ASSUME StockInv, NEW p \in Requests, Ledger(p), Write(p)
  PROVE  Ledger(p)' /\ Aside(p)
<1>1. /\ req'[p] = Idle /\ \A q \in Requests \ {p} : req'[q] = req[q]
      /\ req[p].pc = "write" /\ UNCHANGED <<balance, lot, dBalance, dLot>>
  BY DEF Write, StockInv, RequestsInv, tables, pending
<1>2. Aside(p) /\ \A R : NetIn(p, R)' = NetIn(p, R)
  BY <1>1, StandingStill DEF Aside, Alone, StockInv, TablesInv
<1>3. \A R : NetIn(p, R)' = 0
  BY <1>1, <1>2 DEF Ledger
<1>4. \A c \in Cells : dBalance'[p][c] = 0
  BY <1>1 DEF Ledger, Posted
<1> QED BY <1>1, <1>2, <1>3, <1>4, IdleLedger

\* The end of a transaction leaves the request with nothing, the others alone.
LEMMA EndsLedger ==
  ASSUME StockInv, NEW p \in Requests, Finish(p) \/ RollBack(p)
  PROVE  Ledger(p)' /\ \A q \in Requests \ {p} : Alone(q)
<1>1. /\ req'[p] = Idle /\ \A q \in Requests \ {p} : req'[q] = req[q]
      /\ DropPending(p) /\ (CommitTx(p) \/ RollbackTx(p))
  BY DEF Finish, RollBack, CommitTx, RollbackTx, StockInv, RequestsInv
<1>2. /\ \A c \in Cells : dBalance'[p][c] = 0
      /\ \A q \in Requests \ {p} : dBalance'[q] = dBalance[q]
  <2>1. dBalance' = [dBalance EXCEPT ![p] = Untouched] /\ dBalance \in [Requests -> [Cells -> Int]]
    BY <1>1 DEF DropPending, StockInv, TablesInv, BalancesInv
  <2>2. dBalance'[p] = Untouched /\ \A q \in Requests \ {p} : dBalance'[q] = dBalance[q]
    BY <2>1
  <2> QED BY <2>2 DEF Untouched
<1>3. \A q \in Requests \ {p} : KnownLotsStay(q)
  BY <1>1, EndsKeepPlaces DEF StockInv
<1>4. /\ \A R : NetIn(p, R)' = 0
      /\ \A R : \A q \in Requests \ {p} : NetIn(q, R)' = NetIn(q, R)
  BY <1>1, CommitMovesSums, RollbackMovesSums DEF StockInv
<1> QED BY <1>1, <1>2, <1>3, <1>4, IdleLedger DEF Alone

\* A step of a request keeps its ledger and everybody else's.
LEMMA RequestKeepsLedgers ==
  ASSUME StockInv, DocsSendable, NEW p \in Requests, Ledger(p),
         RequestStep(p) \/ RollBack(p)
  PROVE  /\ Ledger(p)' /\ \A q \in Requests \ {p} : Alone(q)
         /\ Finish(p) \/ \A R : CommittedIn(R)' = CommittedIn(R)
<1>1. CASE \E d \in Docs : BeginOn(p, d)
  BY <1>1, BeginsOnLedger DEF Aside
<1>2. CASE Write(p)
  BY <1>2, WriteLedger DEF Aside
<1>3. CASE CheckStock(p)
  BY <1>3, CheckStockLedger DEF Aside
<1>4. CASE ReadLots(p) \/ ReadCost(p) \/ ReadStock(p)
  <2>1. Ledger(p)'
    BY <1>4, ReadLotsLedger, CostReadsLedger
  <2>2. UNCHANGED <<balance, lot, dBalance, dLot>>
    BY <1>4 DEF ReadLots, ReadCost, ReadStock, tables, pending
  <2>3. \A q \in Requests \ {p} : req'[q] = req[q]
    BY <1>4 DEF ReadLots, ReadCost, ReadStock, Goto, StockInv, RequestsInv
  <2> QED BY <2>1, <2>2, <2>3, StandingStill DEF Alone, StockInv, TablesInv
<1>5. CASE \E l \in LotIds : TakeLot(p, l)
  BY <1>5, TakeLotLedger DEF Aside
<1>6. CASE Debit(p) \/ CreditTarget(p)
  BY <1>6, DebitLedger, CreditTargetLedger DEF Aside
<1>7. CASE CreditReceipt(p) \/ WriteAverage(p) \/ CreditSurplus(p)
  BY <1>7, CreditReceiptLedger, WriteAverageLedger, CreditSurplusLedger DEF Aside
<1>8. CASE Finish(p)
  BY <1>8, EndsLedger
<1>9. CASE RollBack(p)
  <2>1. \A R : CommittedIn(R)' = CommittedIn(R)
    BY <1>9, RollbackMovesSums DEF RollBack, StockInv
  <2> QED BY <1>9, <2>1, EndsLedger
<1> QED BY <1>1, <1>2, <1>3, <1>4, <1>5, <1>6, <1>7, <1>8, <1>9
        DEF RequestStep, Proceed, Confirming, Reject, DeadlockVictim, Abort

\* What is committed with a document: its effect, in the balances and the lots;
\* a transfer leaves what there is of each invoice date.
LEMMA FinishPosts ==
  ASSUME StockInv, NEW p \in Requests, Ledger(p), Finish(p)
  PROVE  /\ \A c \in Cells :
              /\ CommittedIn(CellRegion(c))' =
                   CommittedIn(CellRegion(c)) + Effect(req[p].body)[c]
              /\ Effect(req[p].body)[c] \in Int
         /\ balance' = [c \in Cells |-> balance[c] + Effect(req[p].body)[c]]
         /\ req[p].op = "confirm" /\ req[p].d \in Docs
         /\ doc' = [doc EXCEPT ![req[p].d].status = "CONFIRMED"]
         /\ req[p].body.kind = "transfer" =>
              \A m \in Materials, date \in Nat :
                CommittedIn(DatedRegion(m, date))' = CommittedIn(DatedRegion(m, date))
<1>1. req[p].pc = "finish" /\ CommitTx(p) /\ req[p].d \in Docs
  BY DEF Finish, StockInv, RequestsInv, OnItsLine
<1>2. ASSUME NEW c \in Cells
      PROVE  /\ dBalance[p][c] = Effect(req[p].body)[c]
             /\ NetIn(p, CellRegion(c)) = Effect(req[p].body)[c]
             /\ Effect(req[p].body)[c] \in Int
  <2>1. dBalance[p][c] \in Int
    BY DEF StockInv, TablesInv, BalancesInv
  <2>2. dBalance[p][c] = Effect(req[p].body)[c] /\ Ahead(req[p], c) = 0
    BY <1>1 DEF Ledger, Posted, Ahead
  <2>3. NetIn(p, CellRegion(c)) = dBalance[p][c] + 0
    BY <2>2 DEF Ledger
  <2> QED BY <2>1, <2>2, <2>3
<1>3. balance' = [c \in Cells |-> balance[c] + Effect(req[p].body)[c]]
  <2>1. \A c \in Cells : BalanceSeen(p, c) = balance[c] + Effect(req[p].body)[c]
    BY <1>2 DEF BalanceSeen
  <2> QED BY <1>1, <2>1, Zenon DEF CommitTx
<1>4. \A R : CommittedIn(R)' = CommittedIn(R) + NetIn(p, R)
  BY <1>1, CommitMovesSums DEF StockInv
<1>5. \A R : CommittedIn(R) \in Int
  BY RegionSumsAreInts DEF StockInv, TablesInv
<1>6. ASSUME req[p].body.kind = "transfer", NEW m \in Materials, NEW date \in Nat
      PROVE  CommittedIn(DatedRegion(m, date))' = CommittedIn(DatedRegion(m, date))
  <2>1. NetIn(p, DatedRegion(m, date)) = 0
    BY <1>6 DEF Ledger
  <2> QED BY <1>4, <1>5, <2>1
<1>7. req[p].op = "confirm"
  BY <1>1 DEF Ledger, OnItsKind
<1> QED BY <1>1, <1>2, <1>3, <1>4, <1>6, <1>7 DEF Finish

\* Only a commit changes what is in stock.
LEMMA OthersPostNothing ==
  ASSUME NEW p \in Requests, RequestStep(p) \/ RollBack(p), ~Finish(p)
  PROVE  balance' = balance
BY DEF RequestStep, BeginOn, BeginConfirm, BeginUpdate, BeginCancel, BeginRemove, Begin,
       Proceed, Write, Reject, DeadlockVictim, Abort, RollBack, RollbackTx,
       Confirming, CheckStock, ReadLots, Debit, CreditTarget, CreditSurplus,
       CreditReceipt, ReadCost, ReadStock, WriteAverage, TakeLot, tables

\* A document is created, updated or left alone: it stays sendable.
LEMMA DocsStaySendable ==
  ASSUME StockInv, DocsSendable,
         \/ \E d \in Docs : Create(d)
         \/ \E p \in Requests : Ledger(p) /\ (RequestStep(p) \/ RollBack(p))
  PROVE  DocsSendable'
<1>0. doc \in [Docs -> [status : {"none", "DRAFT", "CONFIRMED", "CANCELLED"},
                        deleted : BOOLEAN, body : Body]]
  BY DEF StockInv, DocsInv
<1>1. ASSUME NEW d \in Docs, Create(d)
      PROVE  DocsSendable'
  <2>1. PICK kind \in Kinds : \E dto \in Payloads[kind] :
          /\ Valid(kind, dto)
          /\ doc' = [doc EXCEPT ![d] = [status |-> "DRAFT", deleted |-> FALSE,
                                        body |-> Filled(kind, dto, <<>>)]]
    BY <1>1 DEF Create
  <2>2. PICK dto \in Payloads[kind] :
          /\ Valid(kind, dto)
          /\ doc' = [doc EXCEPT ![d] = [status |-> "DRAFT", deleted |-> FALSE,
                                        body |-> Filled(kind, dto, <<>>)]]
    BY <2>1
  <2>3. Sendable(Filled(kind, dto, <<>>))
    BY <2>2 DEF Valid, Sendable, Filled
  <2>4. \A e \in Docs : Sendable(doc'[e].body)
    BY <1>0, <2>2, <2>3 DEF DocsSendable
  <2> QED BY <2>4 DEF DocsSendable
<1>2. ASSUME NEW p \in Requests, Ledger(p), RequestStep(p) \/ RollBack(p)
      PROVE  DocsSendable'
  <2>1. Sendable(req[p].body)
    BY <1>2 DEF Ledger, OnItsKind
  <2>2. \/ doc' = doc
        \/ \E d, status : doc' = [doc EXCEPT ![d].status = status]
        \/ \E d : doc' = [doc EXCEPT ![d].deleted = TRUE]
        \/ \E d : doc' = [doc EXCEPT ![d].body = req[p].body]
    <3>1. CASE Write(p)
      BY <3>1 DEF Write
    <3>2. CASE Finish(p)
      BY <3>2 DEF Finish
    <3>3. CASE ~Write(p) /\ ~Finish(p)
      BY <1>2, <3>3 DEF RequestStep, BeginOn, BeginConfirm, BeginUpdate, BeginCancel,
           BeginRemove, Begin, Proceed, Reject, DeadlockVictim, Abort, RollBack,
           Confirming, CheckStock, ReadLots, Debit, CreditTarget, CreditSurplus,
           CreditReceipt, ReadCost, ReadStock, WriteAverage, TakeLot
    <3> QED BY <3>1, <3>2, <3>3
  <2>3. \A e \in Docs : doc'[e].body = doc[e].body \/ doc'[e].body = req[p].body
    BY <1>0, <2>2
  <2>4. \A e \in Docs : Sendable(doc'[e].body)
    BY <2>1, <2>3 DEF DocsSendable
  <2> QED BY <2>4 DEF DocsSendable
<1> QED BY <1>1, <1>2
-----------------------------------------------------------------------------
(* The invariant of the whole, and what follows from it.                   *)

Backed == \A c \in Cells : balance[c] = CommittedIn(CellRegion(c))

LedgerInv == StockInv /\ DocsSendable /\ (\A p \in Requests : Ledger(p)) /\ Backed

\* Nobody has begun; the opening lots make up the opening balance.
LEMMA InitEstablishesLedger == Init => LedgerInv
<1> SUFFICES ASSUME Init PROVE LedgerInv
  OBVIOUS
<1>1. StockInv
  BY InitEstablishesInv
<1>2. DocsSendable
  BY DEF Init, DocsSendable, Sendable, NoBody
<1>3. \A l \in DOMAIN OpeningLots :
        /\ l \in LotIds /\ lot[l].cell = OpeningLots[l].cell /\ lot[l].date = OpeningLots[l].date
        /\ lot[l].rem = OpeningLots[l].rem /\ lot[l].by = "committed"
        /\ OpeningLots[l].rem \in Int /\ OpeningLots[l].date \in Nat
        /\ OpeningLots[l].cell \in Cells
  <2>1. \A l \in DOMAIN OpeningLots :
          l \in LotIds /\ OpeningLots[l] \in [cell : Cells, date : Nat, rem : Nat]
    BY OpeningIsStock, OpeningLotsBackBalance, ElementOfSeq, LenProperties
  <2>2. \A l \in DOMAIN OpeningLots :
          lot[l] = [cell |-> OpeningLots[l].cell, date |-> OpeningLots[l].date,
                    rem |-> OpeningLots[l].rem, by |-> "committed"]
    BY <2>1 DEF Init
  <2>3. \A l \in DOMAIN OpeningLots :
          /\ OpeningLots[l].rem \in Int /\ OpeningLots[l].date \in Nat
          /\ OpeningLots[l].cell \in Cells
    BY <2>1
  <2> HIDE DEF Init
  <2>4. \A l \in DOMAIN OpeningLots :
          /\ lot[l].cell = OpeningLots[l].cell /\ lot[l].date = OpeningLots[l].date
          /\ lot[l].rem = OpeningLots[l].rem /\ lot[l].by = "committed"
    <3> SUFFICES ASSUME NEW l \in DOMAIN OpeningLots
                 PROVE  /\ lot[l].cell = OpeningLots[l].cell
                        /\ lot[l].date = OpeningLots[l].date
                        /\ lot[l].rem = OpeningLots[l].rem /\ lot[l].by = "committed"
      OBVIOUS
    <3> DEFINE x == lot[l]
    <3>1. x = [cell |-> OpeningLots[l].cell, date |-> OpeningLots[l].date,
               rem |-> OpeningLots[l].rem, by |-> "committed"]
      BY <2>2
    <3> HIDE DEF x
    <3>2. /\ x.cell = OpeningLots[l].cell /\ x.date = OpeningLots[l].date
          /\ x.rem = OpeningLots[l].rem /\ x.by = "committed"
      BY <3>1
    <3> QED BY <3>2 DEF x
  <2> QED BY <2>1, <2>3, <2>4
<1>4. \A l \in LotIds \ DOMAIN OpeningLots : lot[l].by = "free"
  BY DEF Init, FreeLot
<1>5. ASSUME NEW p \in Requests
      PROVE  Ledger(p)
  <2>1. \A l \in LotIds : lot[l].by # p
    <3>1. p # "committed" /\ p # "free"
      BY RequestsAreNotMarks
    <3>2. \A l \in LotIds : lot[l].by = "committed" \/ lot[l].by = "free"
      BY <1>3, <1>4
    <3> QED BY <3>1, <3>2
  <2>2. dLot[p] = NothingTaken
    BY DEF Init
  <2>3. \A R : NetIn(p, R) = 0
    BY <2>1, <2>2, NothingDoneAddsNothing
  <2>4. req[p] = Idle /\ \A c \in Cells : dBalance[p][c] = 0
    BY DEF Init, Untouched
  <2>5. /\ Idle.pc = "idle" /\ Idle.body.kind = "receipt"
        /\ \A l \in LotIds : Idle.read[l] = 0
    BY IdleIsRequest DEF Idle, NoBody
  <2>6. OnItsKind(Idle)
    BY <2>5 DEF OnItsKind, Sendable
  <2>7. \A c \in Cells : Posted(Idle, c) = 0 /\ Ahead(Idle, c) = 0
    BY <2>5 DEF Posted, Ahead
  <2>8. \A c \in Cells : NetIn(p, CellRegion(c)) = dBalance[p][c] + Ahead(Idle, c)
    BY <2>3, <2>4, <2>7
  <2> QED BY <2>3, <2>4, <2>5, <2>6, <2>7, <2>8 DEF Ledger
<1>6. ASSUME NEW c \in Cells
      PROVE  balance[c] = CommittedIn(CellRegion(c))
  <2> DEFINE there == {j \in DOMAIN OpeningLots : OpeningLots[j].cell = c}
             f == [j \in there |-> OpeningLots[j].rem]
             g == CommittedTerms(CellRegion(c))
  <2>1. there \in SUBSET LotIds
    BY <1>3
  <2>2. \A x \in there : f[x] \in Int /\ g[x] = f[x]
    <3>1. ASSUME NEW x \in there
          PROVE  f[x] \in Int /\ g[x] = f[x]
      <4>1. At(x) = <<c, OpeningLots[x].date>> /\ OpeningLots[x].date \in Nat
        BY <1>3 DEF At
      <4>2. At(x) \in CellRegion(c)
        BY <4>1 DEF CellRegion
      <4> QED BY <1>3, <4>2 DEF CommittedTerms
    <3> QED BY <3>1
  <2>3. \A x \in LotIds \ there : g[x] = 0
    <3>1. ASSUME NEW x \in LotIds \ there
          PROVE  g[x] = 0
      <4>1. CASE x \in DOMAIN OpeningLots
        <5>1. lot[x].cell # c
          BY <1>3, <4>1
        <5>2. At(x) \notin CellRegion(c)
          BY <5>1 DEF At, CellRegion
        <5> QED BY <5>2 DEF CommittedTerms
      <4>2. CASE x \notin DOMAIN OpeningLots
        BY <1>4, <4>2 DEF CommittedTerms
      <4> QED BY <4>1, <4>2
    <3> QED BY <3>1
  <2>4. balance[c] = SumFunction(f) /\ DOMAIN f = there
    BY OpeningLotsBackBalance DEF Init
  <2> HIDE DEF there, f, g
  <2>5. SumFunctionOnSet(f, there) = SumFunctionOnSet(g, LotIds)
    BY <2>1, <2>2, <2>3, TablesAreFinite, SumOfPart
  <2> QED BY <2>4, <2>5 DEF SumFunction, CommittedIn, g
<1> QED BY <1>1, <1>2, <1>5, <1>6 DEF LedgerInv, Backed

\* Every step keeps it.
LEMMA NextKeepsLedger == LedgerInv /\ [Next]_vars => LedgerInv'
<1> SUFFICES ASSUME LedgerInv, [Next]_vars PROVE LedgerInv'
  OBVIOUS
<1> USE DEF LedgerInv
<1>1. StockInv'
  BY NextKeepsInv
<1>2. ASSUME UNCHANGED <<balance, lot, dBalance, dLot, req>>
      PROVE  (\A p \in Requests : Ledger(p)') /\ Backed'
  <2>1. /\ \A R : CommittedIn(R)' = CommittedIn(R)
        /\ \A q \in Requests : Alone(q)
    BY <1>2, StandingStill DEF StockInv, TablesInv, Alone
  <2>2. \A q \in Requests : Ledger(q)'
    BY <2>1, AloneKeepsLedger DEF StockInv
  <2>3. Backed'
    BY <1>2, <2>1 DEF Backed
  <2> QED BY <2>2, <2>3
<1>3. CASE \E d \in Docs : Create(d)
  BY <1>1, <1>2, <1>3, DocsStaySendable DEF Create, tables, pending
<1>4. ASSUME NEW p \in Requests, RequestStep(p)
      PROVE  LedgerInv'
  <2>1. /\ Ledger(p)' /\ \A q \in Requests \ {p} : Alone(q)
        /\ Finish(p) \/ \A R : CommittedIn(R)' = CommittedIn(R)
    BY <1>4, RequestKeepsLedgers
  <2>2. \A q \in Requests : Ledger(q)'
    BY <2>1, AloneKeepsLedger DEF StockInv
  <2>3. Backed'
    <3>1. CASE Finish(p)
      <4>1. \A c \in Cells :
              /\ CommittedIn(CellRegion(c))' = CommittedIn(CellRegion(c)) + Effect(req[p].body)[c]
              /\ balance'[c] = balance[c] + Effect(req[p].body)[c]
        BY <3>1, FinishPosts
      <4> QED BY <4>1 DEF Backed
    <3>2. CASE ~Finish(p)
      BY <1>4, <2>1, <3>2, OthersPostNothing DEF Backed
    <3> QED BY <3>1, <3>2
  <2> QED BY <1>1, <1>4, <2>2, <2>3, DocsStaySendable
<1>5. CASE UNCHANGED vars
  BY <1>1, <1>2, <1>5 DEF vars, tables, pending, DocsSendable
<1> QED BY <1>3, <1>4, <1>5 DEF Next

\* The ledger holds throughout.
THEOREM StockLedger == Spec => []LedgerInv
<1>1. Init => LedgerInv
  BY InitEstablishesLedger
<1>2. LedgerInv /\ [Next]_vars => LedgerInv'
  BY NextKeepsLedger
<1> QED BY <1>1, <1>2, PTL DEF Spec

\* The stock of some committed lots is the committed stock of where they lie.
LEMMA StockOfRegion ==
  ASSUME LotsInv, NEW m \in Materials, NEW W \in SUBSET Warehouses, NEW D \in SUBSET Nat,
         NEW R, \A w \in Warehouses, n \in Materials, d \in Nat :
                  <<<<w, n>>, d>> \in R <=> w \in W /\ n = m /\ d \in D
  PROVE  StockOfLots(CommittedLots(m, W, D)) = CommittedIn(R)
<1> DEFINE T == CommittedLots(m, W, D)
           f == [l \in T |-> lot[l].rem]
           g == CommittedTerms(R)
<1>1. T \in SUBSET LotIds
  BY DEF CommittedLots
<1>2. ASSUME NEW l \in LotIds
      PROVE  /\ lot[l].rem \in Int
             /\ l \in T <=> (At(l) \in R /\ lot[l].by = "committed")
  <2>1. lot[l].cell \in Cells /\ lot[l].date \in Nat /\ lot[l].rem \in Int
    BY DEF LotsInv
  <2>2. PICK w \in Warehouses, n \in Materials : lot[l].cell = <<w, n>>
    BY <2>1 DEF Cells
  <2>3. At(l) \in R <=> w \in W /\ n = m /\ lot[l].date \in D
    BY <2>1, <2>2 DEF At
  <2>4. l \in T <=> lot[l].by = "committed" /\ lot[l].date \in D /\ w \in W /\ n = m
    <3>1. lot[l].cell \in W \X {m} <=> w \in W /\ n = m
      BY <2>2
    <3> QED BY <3>1 DEF CommittedLots
  <2> QED BY <2>1, <2>3, <2>4
<1>3. /\ \A x \in T : f[x] \in Int /\ g[x] = f[x]
      /\ \A x \in LotIds \ T : g[x] = 0
  BY <1>1, <1>2 DEF CommittedTerms
<1>4. StockOfLots(T) = SumFunction(f) /\ DOMAIN f = T
  BY DEF StockOfLots
<1> HIDE DEF T, f, g
<1>5. SumFunctionOnSet(f, T) = SumFunctionOnSet(g, LotIds)
  BY <1>1, <1>3, TablesAreFinite, SumOfPart
<1> QED BY <1>4, <1>5 DEF SumFunction, CommittedIn, g, T

\* A ledger that is backed, read as the lots of a material in a warehouse.
LEMMA BackedIsInLots == LotsInv /\ Backed => LotsBackBalance
<1> SUFFICES ASSUME LotsInv, Backed, NEW w \in Warehouses, NEW m \in Materials
             PROVE  balance[<<w, m>>] = StockOfLots(CommittedLots(m, {w}, Nat))
  BY DEF LotsBackBalance
<1>1. <<w, m>> \in Cells
  BY DEF Cells
<1>2. \A v \in Warehouses, n \in Materials, d \in Nat :
        <<<<v, n>>, d>> \in CellRegion(<<w, m>>) <=> v \in {w} /\ n = m /\ d \in Nat
  BY <1>1, RegionMembers DEF CellRegion
<1>3. StockOfLots(CommittedLots(m, {w}, Nat)) = CommittedIn(CellRegion(<<w, m>>))
  BY <1>2, StockOfRegion
<1> QED BY <1>1, <1>3 DEF Backed

\* Every unit a balance shows lies in a lot, for any number of requests,
\* documents, lots and warehouses: the handlers keep the two in step.
THEOREM StockIsInLots == Spec => []LotsBackBalance
<1>1. LedgerInv => LotsBackBalance
  BY BackedIsInLots DEF LedgerInv, StockInv, TablesInv
<1> QED BY <1>1, StockLedger, PTL

\* A step that changes balances posts one whole document and confirms it,
\* whatever was committed between its statements.
THEOREM ConfirmsPostWholeDocuments == Spec => PostsWholeDocuments
<1>1. ASSUME LedgerInv, [Next]_vars, balance' # balance
      PROVE  \E p \in Requests :
               /\ balance' = [c \in Cells |-> balance[c] + Effect(req[p].body)[c]]
               /\ req[p].op = "confirm" /\ doc'[req[p].d].status = "CONFIRMED"
  <2>1. PICK p \in Requests : RequestStep(p)
    BY <1>1 DEF Next, Create, vars, tables
  <2>2. Finish(p)
    BY <1>1, <2>1, OthersPostNothing
  <2>3. /\ balance' = [c \in Cells |-> balance[c] + Effect(req[p].body)[c]]
        /\ req[p].op = "confirm" /\ req[p].d \in Docs
        /\ doc' = [doc EXCEPT ![req[p].d].status = "CONFIRMED"]
    BY <1>1, <2>2, FinishPosts DEF LedgerInv
  <2>4. doc'[req[p].d].status = "CONFIRMED"
    BY <1>1, <2>3 DEF LedgerInv, StockInv, DocsInv
  <2> QED BY <2>3, <2>4
<1>2. LedgerInv /\ [Next]_vars =>
        [\E p \in Requests :
           /\ balance' = [c \in Cells |-> balance[c] + Effect(req[p].body)[c]]
           /\ req[p].op = "confirm" /\ doc'[req[p].d].status = "CONFIRMED"]_balance
  BY <1>1
<1> QED BY <1>2, StockLedger, PTL DEF Spec, PostsWholeDocuments

\* What the company holds of a material per invoice date, as a sum over the lots.
DatedStock ==
  \A m \in Materials, date \in Nat :
    StockOfLots(CommittedLots(m, Warehouses, {date})) = CommittedIn(DatedRegion(m, date))

\* It is that sum.
LEMMA LotsGiveDatedStock == LotsInv => DatedStock
<1> SUFFICES ASSUME LotsInv, NEW m \in Materials, NEW date \in Nat
             PROVE  StockOfLots(CommittedLots(m, Warehouses, {date}))
                      = CommittedIn(DatedRegion(m, date))
  BY DEF DatedStock
<1>1. \A w \in Warehouses, n \in Materials, d \in Nat :
        <<<<w, n>>, d>> \in DatedRegion(m, date) <=> w \in Warehouses /\ n = m /\ d \in {date}
  BY RegionMembers
<1> QED BY <1>1, StockOfRegion

\* A confirmed transfer leaves what the company holds of each invoice date:
\* each lot it takes is re-created, whole and with its date, where it goes.
THEOREM TransfersKeepDates == Spec => TransfersKeepDatedStock
<1> DEFINE Dates == \A p \in Requests :
      (req[p].pc = "finish" /\ Is(p, "transfer") /\ ~Abort(p) /\ req'[p].pc = "idle") =>
      \A m \in Materials, date \in {lot[l].date : l \in LotIds} :
        StockOfLots(CommittedLots(m, Warehouses, {date}))'
          = StockOfLots(CommittedLots(m, Warehouses, {date}))
<1>0. LotsInv' => DatedStock'
  BY LotsGiveDatedStock, PTL
<1>1. ASSUME LedgerInv, [Next]_vars
      PROVE  Dates
  <2> SUFFICES ASSUME NEW p \in Requests, req[p].pc = "finish", Is(p, "transfer"),
                      ~Abort(p), req'[p].pc = "idle",
                      NEW m \in Materials, NEW date \in {lot[l].date : l \in LotIds}
               PROVE  StockOfLots(CommittedLots(m, Warehouses, {date}))'
                        = StockOfLots(CommittedLots(m, Warehouses, {date}))
    OBVIOUS
  <2>1. Finish(p)
    <3>1. CASE \E q \in Requests : RequestStep(q)
      <4>1. PICK q \in Requests : RequestStep(q)
        BY <3>1
      <4>2. CASE q = p
        BY <4>1, <4>2 DEF RequestStep, BeginOn, BeginConfirm, BeginUpdate, BeginCancel,
           BeginRemove, Begin, Proceed, Confirming, CheckStock, ReadLots, Debit,
           CreditTarget, CreditSurplus, CreditReceipt, ReadCost, ReadStock, WriteAverage,
           TakeLot, Write, Reject, DeadlockVictim, Abort
      <4>3. CASE q # p
        <5>1. Alone(p)
          BY <1>1, <4>1, <4>3, RequestKeepsLedgers DEF LedgerInv
        <5> QED BY <5>1 DEF Alone
      <4> QED BY <4>2, <4>3
    <3>2. CASE \E d \in Docs : Create(d)
      BY <3>2 DEF Create
    <3>3. CASE UNCHANGED vars
      BY <3>3 DEF vars
    <3> QED BY <1>1, <3>1, <3>2, <3>3 DEF Next
  <2>2. date \in Nat
    BY <1>1 DEF LedgerInv, StockInv, TablesInv, LotsInv
  <2>3. CommittedIn(DatedRegion(m, date))' = CommittedIn(DatedRegion(m, date))
    BY <1>1, <2>1, <2>2, FinishPosts DEF LedgerInv, Is
  <2>4. DatedStock /\ DatedStock'
    BY <1>0, <1>1, NextKeepsInv, LotsGiveDatedStock DEF LedgerInv, StockInv, TablesInv
  <2> QED BY <2>2, <2>3, <2>4 DEF DatedStock
<1>2. LedgerInv /\ [Next]_vars => [Dates]_vars
  BY <1>1
<1> QED BY <1>2, StockLedger, PTL DEF Spec, TransfersKeepDatedStock
-----------------------------------------------------------------------------
(* Stock and documents, as long as no document is raced.                   *)

\* What a document's row says about a cell.
Counted(d, c) ==
  IF doc[d].status = "CONFIRMED" /\ ~doc[d].deleted THEN Effect(doc[d].body)[c] ELSE 0
CountedTerms(c) == [d \in Docs |-> Counted(d, c)]
CountsDocuments ==
  \A c \in Cells : /\ Documented(c) = SumFunctionOnSet(CountedTerms(c), Docs)
                   /\ \A d \in Docs : Counted(d, c) \in Int

\* What is documented is the sum of it.
LEMMA DocumentsAreCounted == DocsInv => CountsDocuments
<1> SUFFICES ASSUME DocsInv, NEW c \in Cells
             PROVE  /\ Documented(c) = SumFunctionOnSet(CountedTerms(c), Docs)
                    /\ \A d \in Docs : Counted(d, c) \in Int
  BY DEF CountsDocuments
<1>1. \A d \in Docs : Effect(doc[d].body)[c] \in Int
  <2> SUFFICES ASSUME NEW d \in Docs PROVE Effect(doc[d].body)[c] \in Int
    OBVIOUS
  <2>1. doc[d].body \in Body
    BY DEF DocsInv
  <2>2. Len(doc[d].body.lines) \in 0..Len(doc[d].body.lines)
    BY <2>1, LenProperties DEF Body
  <2> QED BY <2>1, <2>2, PartsGrow
<1>2. \A d \in Docs : Counted(d, c) \in Int
  BY <1>1 DEF Counted
<1> DEFINE T == {e \in Docs : doc[e].status = "CONFIRMED" /\ ~doc[e].deleted}
           f == [d \in T |-> Effect(doc[d].body)[c]]
           g == CountedTerms(c)
<1>3. /\ T \in SUBSET Docs
      /\ \A x \in T : f[x] \in Int /\ g[x] = f[x]
      /\ \A x \in Docs \ T : g[x] = 0
  BY <1>1 DEF CountedTerms, Counted
<1>4. Documented(c) = SumFunction(f) /\ DOMAIN f = T
  BY DEF Documented
<1> HIDE DEF T, f, g
<1>5. SumFunctionOnSet(f, T) = SumFunctionOnSet(g, Docs)
  BY <1>3, DocsAreFinite, SumOfPart
<1> QED BY <1>2, <1>4, <1>5 DEF SumFunction, g

\* A number of units.
LEMMA DocumentedIsInt == DocsInv => \A c \in Cells : Documented(c) \in Int
<1> SUFFICES ASSUME DocsInv, NEW c \in Cells PROVE Documented(c) \in Int
  OBVIOUS
<1> DEFINE f == CountedTerms(c)
<1>1. CountsDocuments
  BY DocumentsAreCounted
<1>2. \A d \in Docs : f[d] \in Int
  BY <1>1 DEF CountsDocuments, CountedTerms
<1> HIDE DEF f
<1>3. SumFunctionOnSet(f, Docs) \in Int
  BY <1>2, DocsAreFinite, SumIsInt
<1> QED BY <1>1, <1>3 DEF CountsDocuments, f

\* Before and after a step.
LEMMA DocumentsStayCounted == DocsInv' => CountsDocuments'
BY DocumentsAreCounted, PTL

\* If what one document says changes, what is documented changes by as much.
LEMMA OneDocumentCounts ==
  ASSUME DocsInv, DocsInv', NEW d \in Docs, NEW c \in Cells,
         \A e \in Docs : e # d => doc'[e] = doc[e]
  PROVE  Documented(c)' = Documented(c) + (Counted(d, c)' - Counted(d, c))
<1> DEFINE f == CountedTerms(c)
           g == CountedTerms(c)'
<1>1. /\ Documented(c) = SumFunctionOnSet(f, Docs)
      /\ \A e \in Docs : Counted(e, c) \in Int
  BY DocumentsAreCounted DEF CountsDocuments
<1>2. /\ Documented(c)' = SumFunctionOnSet(g, Docs)
      /\ \A e \in Docs : Counted(e, c)' \in Int
  BY DocumentsStayCounted DEF CountsDocuments
<1>3. /\ \A e \in Docs : f[e] = Counted(e, c)
      /\ \A e \in Docs : g[e] = Counted(e, c)'
  BY DEF CountedTerms
<1>4. \A e \in Docs : e # d => g[e] = f[e]
  BY <1>3 DEF Counted
<1> HIDE DEF f, g
<1>5. (\A e \in Docs : f[e] \in Int) /\ g[d] \in Int
  BY <1>1, <1>2, <1>3
<1>6. SumFunctionOnSet(g, Docs) = SumFunctionOnSet(f, Docs) + (g[d] - f[d])
  BY <1>4, <1>5, DocsAreFinite, SumOneChanges
<1> QED BY <1>1, <1>2, <1>3, <1>6

\* Requests work on open documents, each on its own, and confirm what is stored.
Unraced ==
  /\ \A p \in Requests : req[p].pc # "idle" =>
       /\ Open(req[p].d)
       /\ req[p].op = "confirm" => doc[req[p].d].body = req[p].body
  /\ \A p, q \in Requests :
       p # q /\ req[p].pc # "idle" /\ req[q].pc # "idle" => req[p].d # req[q].d

\* A request stays on its document, or ends with it.
LEMMA StaysUnraced ==
  ASSUME RequestsInv, Unraced, NEW p \in Requests,
         \A q \in Requests \ {p} : req'[q] = req[q],
         \A d \in Docs : d # req[p].d => doc'[d] = doc[d],
         req[p].pc = "idle" => doc' = doc,
         \/ req'[p].pc = "idle"
         \/ /\ req[p].pc # "idle" /\ req'[p].d = req[p].d /\ req'[p].op = req[p].op
            /\ req'[p].body = req[p].body /\ doc' = doc
  PROVE  Unraced'
<1>1. ASSUME NEW q \in Requests, req'[q].pc # "idle"
      PROVE  /\ Open(req[q].d)'
             /\ req'[q].op = "confirm" => doc'[req'[q].d].body = req'[q].body
  <2>1. CASE q = p
    BY <1>1, <2>1 DEF Unraced, Open
  <2>2. CASE q # p
    <3>1. /\ req'[q] = req[q] /\ req[q].d \in Docs
          /\ req[p].pc # "idle" => req[q].d # req[p].d
          /\ Open(req[q].d)
          /\ req[q].op = "confirm" => doc[req[q].d].body = req[q].body
      BY <1>1, <2>2 DEF Unraced, RequestsInv, OnItsLine
    <3>2. doc'[req[q].d] = doc[req[q].d]
      BY <3>1
    <3> QED BY <3>1, <3>2 DEF Open
  <2> QED BY <2>1, <2>2
<1>2. \A q, r \in Requests :
        q # r /\ req'[q].pc # "idle" /\ req'[r].pc # "idle" => req'[q].d # req'[r].d
  BY DEF Unraced
<1> QED BY <1>1, <1>2 DEF Unraced

\* A statement of confirm goes on with the same document.
LEMMA StatementsKeepDocument ==
  ASSUME StockInv, NEW p \in Requests, Confirming(p), ~Finish(p)
  PROVE  /\ req[p].pc # "idle" /\ doc' = doc
         /\ req'[p].d = req[p].d /\ req'[p].op = req[p].op /\ req'[p].body = req[p].body
         /\ \A q \in Requests \ {p} : req'[q] = req[q]
<1> DEFINE old == req[p]
           drained == [old EXCEPT !.read = NothingTaken]
<1>1. /\ old.pc # "idle" /\ doc' = doc
      /\ \/ \E here \in Steps, next \in Steps : req' = [req EXCEPT ![p] = After(old, here, next)]
         \/ \E pc \in Steps : req' = [req EXCEPT ![p].pc = pc]
         \/ \E pc, need, read :
              req' = [req EXCEPT ![p].pc = pc, ![p].need = need, ![p].read = read]
         \/ \E need, l : req' = [req EXCEPT ![p].need = need, ![p].read[l] = 0]
         \/ req' = [req EXCEPT ![p] = [drained EXCEPT !.pc = "credit"]]
         \/ req' = [req EXCEPT ![p] = After(drained, "line", "finish")]
  <2>1. CASE CheckStock(p) \/ CreditTarget(p) \/ CreditSurplus(p) \/ WriteAverage(p)
    BY <2>1 DEF CheckStock, CreditTarget, CreditSurplus, WriteAverage, NextLine, Steps
  <2>2. CASE CreditReceipt(p) \/ ReadCost(p) \/ ReadStock(p)
    BY <2>2 DEF CreditReceipt, ReadCost, ReadStock, Goto, Steps
  <2>3. CASE ReadLots(p)
    BY <2>3 DEF ReadLots
  <2>4. CASE \E l \in LotIds : TakeLot(p, l)
    BY <2>4 DEF TakeLot
  <2>5. CASE Debit(p)
    BY <2>5 DEF Debit
  <2> QED BY <2>1, <2>2, <2>3, <2>4, <2>5 DEF Confirming
<1>2. req \in [Requests -> Request] /\ old \in Request /\ OnItsLine(old)
  BY <1>1 DEF StockInv, RequestsInv
<1>3. /\ drained \in Request /\ drained.d = old.d /\ drained.i = old.i
      /\ drained.op = old.op /\ drained.body = old.body /\ OnItsLine(drained)
  BY <1>2 DEF Request, NothingTaken, OnItsLine
<1> HIDE DEF drained
<1>4. \A q \in Requests \ {p} : req'[q] = req[q]
  BY <1>1, <1>2
<1>5. req'[p].d = old.d /\ req'[p].op = old.op /\ req'[p].body = old.body
  <2>1. ASSUME NEW here \in Steps, NEW next \in Steps,
               req' = [req EXCEPT ![p] = After(old, here, next)]
        PROVE  req'[p].d = old.d /\ req'[p].op = old.op /\ req'[p].body = old.body
    <3>1. req'[p] = After(old, here, next)
      BY <1>2, <2>1
    <3> QED BY <1>2, <3>1, AfterFields
  <2>2. CASE req' = [req EXCEPT ![p] = After(drained, "line", "finish")]
    <3>1. req'[p] = After(drained, "line", "finish")
      BY <1>2, <2>2
    <3> QED BY <1>3, <3>1, AfterFields DEF Steps
  <2>3. CASE req' = [req EXCEPT ![p] = [drained EXCEPT !.pc = "credit"]]
    BY <1>2, <1>3, <2>3 DEF Request
  <2>4. CASE \E pc \in Steps : req' = [req EXCEPT ![p].pc = pc]
    BY <1>2, <2>4 DEF Request
  <2>5. CASE \E pc, need, read :
               req' = [req EXCEPT ![p].pc = pc, ![p].need = need, ![p].read = read]
    BY <1>2, <2>5 DEF Request
  <2>6. CASE \E need, l : req' = [req EXCEPT ![p].need = need, ![p].read[l] = 0]
    BY <1>2, <2>6 DEF Request
  <2> QED BY <1>1, <2>1, <2>2, <2>3, <2>4, <2>5, <2>6
<1> QED BY <1>1, <1>4, <1>5

\* Nothing that two requests do at once is missed: what is documented changes by
\* the document that is confirmed, and by nothing else.
LEMMA RequestKeepsCount ==
  ASSUME StockInv, StockInv', Unraced, NEW p \in Requests, Ledger(p),
         RequestStep(p) \/ RollBack(p), raced' = {}
  PROVE  /\ Unraced'
         /\ \A c \in Cells : Documented(c)' =
              Documented(c) + (IF Finish(p) THEN Effect(req[p].body)[c] ELSE 0)
<1> USE DEF StockInv
<1>0. CountsDocuments /\ CountsDocuments'
  BY DocumentsAreCounted, DocumentsStayCounted
<1>1. ASSUME doc' = doc
      PROVE  \A c \in Cells : Documented(c)' = Documented(c) + 0
  <2>1. \A c \in Cells : Documented(c)' = Documented(c)
    BY <1>1 DEF Documented
  <2>2. \A c \in Cells : Documented(c) \in Int
    BY DocumentedIsInt
  <2> QED BY <2>1, <2>2
<1>2. CASE Confirming(p) /\ ~Finish(p)
  <2>1. doc' = doc /\ Unraced'
    BY <1>2, StatementsKeepDocument, StaysUnraced
  <2> QED BY <1>1, <1>2, <2>1
<1>3. CASE \E d \in Docs : BeginOn(p, d)
  <2>0. PICK d \in Docs, op \in {"confirm", "update", "cancel", "remove"} :
          \E body : Begin(p, op, d, body) /\ (op = "confirm" => body = doc[d].body)
    BY <1>3 DEF BeginOn, BeginConfirm, BeginUpdate, BeginCancel, BeginRemove
  <2>1. PICK body : Begin(p, op, d, body) /\ (op = "confirm" => body = doc[d].body)
    BY <2>0
  <2>2. /\ Open(d) /\ doc' = doc /\ req'[p].d = d
        /\ req'[p].op = "confirm" => req'[p].body = doc[d].body
        /\ \A q \in Requests \ {p} : req'[q] = req[q]
    <3> DEFINE pc == IF op # "confirm" THEN "write"
                     ELSE IF body.kind \in {"issue", "transfer"} THEN "check" ELSE "line"
               r == [Idle EXCEPT !.op = op, !.d = d, !.body = body, !.pc = pc]
    <3>1. r.d = d /\ r.op = op /\ r.body = body
      BY DEF Idle
    <3>2. req' = [req EXCEPT ![p] = r] /\ Open(d) /\ doc' = doc
      BY <2>1 DEF Begin
    <3> HIDE DEF r
    <3> QED BY <2>1, <3>1, <3>2 DEF RequestsInv
  <2>3. \A q \in Requests \ {p} : req[q].d # d
    <3>1. raced' = IF \E q \in Requests \ {p} : req[q].d = d THEN raced \cup {d} ELSE raced
      BY <2>1 DEF Begin
    <3> QED BY <3>1
  <2>4. Unraced'
    <3>1. ASSUME NEW q \in Requests, req'[q].pc # "idle"
          PROVE  /\ Open(req[q].d)'
                 /\ req'[q].op = "confirm" => doc'[req'[q].d].body = req'[q].body
      BY <2>2, <3>1 DEF Unraced, Open
    <3>2. \A q, r \in Requests :
            q # r /\ req'[q].pc # "idle" /\ req'[r].pc # "idle" => req'[q].d # req'[r].d
      BY <2>2, <2>3 DEF Unraced
    <3> QED BY <3>1, <3>2 DEF Unraced
  <2>5. ~Finish(p)
    BY <2>1 DEF Begin, Finish
  <2> QED BY <1>1, <2>2, <2>4, <2>5
<1>4. CASE RollBack(p) /\ ~Finish(p)
  <2>1. /\ doc' = doc /\ req'[p].pc = "idle" /\ \A q \in Requests \ {p} : req'[q] = req[q]
    BY <1>4, IdleIsRequest DEF RollBack, RequestsInv
  <2> QED BY <1>1, <1>4, <2>1, StaysUnraced
<1>5. ASSUME NEW d \in Docs, d = req[p].d, Write(p) \/ Finish(p)
      PROVE  /\ Unraced' /\ Open(d)
             /\ \A c \in Cells :
                  Documented(c)' = Documented(c) + (Counted(d, c)' - Counted(d, c))
  <2>1. /\ req[p].pc # "idle" /\ req'[p].pc = "idle"
        /\ \A q \in Requests \ {p} : req'[q] = req[q]
    BY <1>5, IdleIsRequest DEF Write, Finish, RequestsInv
  <2>2. Open(d)
    BY <1>5, <2>1 DEF Unraced
  <2>3. \A e \in Docs : e # d => doc'[e] = doc[e]
    <3>1. CASE Write(p)
      BY <1>5, <3>1 DEF Write, DocsInv
    <3>2. CASE Finish(p)
      BY <1>5, <3>2 DEF Finish, DocsInv
    <3> QED BY <1>5, <3>1, <3>2
  <2>4. Unraced'
    BY <1>5, <2>1, <2>3, StaysUnraced
  <2>5. ASSUME NEW c \in Cells
        PROVE  Documented(c)' = Documented(c) + (Counted(d, c)' - Counted(d, c))
    BY <2>3, OneDocumentCounts
  <2> QED BY <2>2, <2>4, <2>5
<1>6. ASSUME Write(p) \/ Finish(p)
      PROVE  req[p].d \in Docs
  BY <1>6 DEF Write, Finish, RequestsInv, OnItsLine
<1>7. CASE Write(p)
  <2>1. PICK d \in Docs : d = req[p].d
    BY <1>6, <1>7
  <2>2. doc[d].status = "DRAFT"
    BY <1>5, <1>7, <2>1 DEF Open
  <2>3. doc'[d].status # "CONFIRMED" \/ doc'[d].deleted
    BY <1>7, <2>1, <2>2 DEF Write, DocsInv
  <2>4. \A c \in Cells : Counted(d, c) = 0 /\ Counted(d, c)' = 0
    BY <2>2, <2>3 DEF Counted
  <2>5. ~Finish(p)
    BY <1>7 DEF Write, Finish
  <2>6. \A c \in Cells : Documented(c)' = Documented(c) + (0 - 0)
    BY <1>5, <1>7, <2>1, <2>4
  <2> QED BY <1>5, <1>7, <2>1, <2>5, <2>6
<1>8. CASE Finish(p)
  <2>1. PICK d \in Docs : d = req[p].d
    BY <1>6, <1>8
  <2>2. doc[d].status = "DRAFT" /\ ~doc[d].deleted
    BY <1>5, <1>8, <2>1 DEF Open
  <2>3. /\ req[p].op = "confirm" /\ \A c \in Cells : Effect(req[p].body)[c] \in Int
        /\ doc' = [doc EXCEPT ![d].status = "CONFIRMED"]
    BY <1>8, <2>1, FinishPosts
  <2>4. doc[d].body = req[p].body
    BY <1>8, <2>1, <2>3 DEF Unraced, Finish
  <2>5. /\ doc'[d].status = "CONFIRMED" /\ ~doc'[d].deleted
        /\ doc'[d].body = req[p].body
    BY <2>2, <2>3, <2>4 DEF DocsInv
  <2>6. \A c \in Cells : Counted(d, c) = 0 /\ Counted(d, c)' = Effect(req[p].body)[c]
    BY <2>2, <2>5 DEF Counted
  <2>7. \A c \in Cells : Documented(c)' = Documented(c) + (Effect(req[p].body)[c] - 0)
    BY <1>5, <1>8, <2>1, <2>6
  <2>8. \A c \in Cells : Documented(c)' = Documented(c) + Effect(req[p].body)[c]
    BY <2>3, <2>7
  <2> QED BY <1>5, <1>8, <2>1, <2>8
<1> QED BY <1>2, <1>3, <1>4, <1>7, <1>8
        DEF RequestStep, Proceed, Reject, DeadlockVictim, Abort

\* A new draft is not documented stock, and nobody works on it yet.
LEMMA CreateKeepsCount ==
  ASSUME StockInv, StockInv', Unraced, NEW d \in Docs, Create(d)
  PROVE  Unraced' /\ \A c \in Cells : Documented(c)' = Documented(c)
<1>1. /\ doc[d].status = "none" /\ req' = req
      /\ \A e \in Docs : e # d => doc'[e] = doc[e]
  BY DEF Create, StockInv, DocsInv
<1>2. doc'[d].status = "DRAFT"
  BY DEF Create, StockInv, DocsInv
<1>3. Unraced'
  <2>1. ASSUME NEW q \in Requests, req[q].pc # "idle"
        PROVE  doc'[req[q].d] = doc[req[q].d]
    <3>1. req[q].d \in Docs /\ Open(req[q].d)
      BY <2>1 DEF Unraced, StockInv, RequestsInv, OnItsLine
    <3> QED BY <1>1, <3>1 DEF Open
  <2> QED BY <1>1, <2>1 DEF Unraced, Open
<1>4. ASSUME NEW c \in Cells
      PROVE  Documented(c)' = Documented(c)
  <2> DEFINE f == CountedTerms(c)
             g == CountedTerms(c)'
  <2>1. /\ CountsDocuments /\ CountsDocuments'
    BY DocumentsAreCounted, DocumentsStayCounted DEF StockInv
  <2>2. \A e \in Docs : Counted(e, c)' = Counted(e, c)
    BY <1>1, <1>2 DEF Counted
  <2>3. \A e \in Docs : f[e] \in Int /\ g[e] = f[e]
    BY <2>1, <2>2 DEF CountedTerms, CountsDocuments
  <2> HIDE DEF f, g
  <2>4. SumFunctionOnSet(g, Docs) = SumFunctionOnSet(f, Docs)
    BY <2>3, DocsAreFinite, SumsAgree
  <2> QED BY <2>1, <2>4 DEF CountsDocuments, f, g
<1> QED BY <1>3, <1>4

\* No request, no document: nothing is documented.
LEMMA NothingDocumentedYet ==
  ASSUME Init
  PROVE  Unraced /\ \A c \in Cells : Documented(c) = 0
<1>1. Unraced
  BY IdleIsRequest DEF Init, Unraced
<1>2. ASSUME NEW c \in Cells
      PROVE  Documented(c) = 0
  <2> DEFINE f == CountedTerms(c)
  <2>1. CountsDocuments
    BY InitEstablishesInv, DocumentsAreCounted DEF StockInv
  <2>2. \A e \in Docs : doc[e].status = "none"
    BY DEF Init
  <2>3. \A e \in Docs : f[e] = 0
    BY <2>2 DEF CountedTerms, Counted
  <2> HIDE DEF f
  <2>4. SumFunctionOnSet(f, Docs) = 0
    BY <2>3, DocsAreFinite, SumOfZeros
  <2> QED BY <2>1, <2>4 DEF CountsDocuments, f
<1> QED BY <1>1, <1>2

\* A document that has been raced stays so.
LEMMA RacedGrows ==
  ASSUME NEW p \in Requests, RequestStep(p) \/ RollBack(p)
  PROVE  raced \subseteq raced'
<1>1. CASE \E d \in Docs : BeginOn(p, d)
  BY <1>1 DEF BeginOn, BeginConfirm, BeginUpdate, BeginCancel, BeginRemove, Begin
<1>2. CASE Write(p) \/ Finish(p) \/ RollBack(p)
  BY <1>2 DEF Write, Finish, RollBack
<1>3. CASE Confirming(p) /\ ~Finish(p)
  BY <1>3 DEF Confirming, CheckStock, ReadLots, Debit, CreditTarget, CreditSurplus,
       CreditReceipt, ReadCost, ReadStock, WriteAverage, TakeLot
<1> QED BY <1>1, <1>2, <1>3 DEF RequestStep, Proceed, Reject, DeadlockVictim, Abort

\* The stock is the opening stock and the confirmed documents, however many
\* requests interleave, unless two of them worked on one document.
THEOREM StockMatchesUnraced == Spec => []StockMatchesUnracedDocuments
<1> DEFINE Matches == LedgerInv /\ (raced = {} => Unraced /\ StockMatchesDocuments)
<1>1. Init => Matches
  <2> SUFFICES ASSUME Init PROVE LedgerInv /\ Unraced /\ StockMatchesDocuments
    OBVIOUS
  <2>1. \A c \in Cells : balance[c] = OpeningBalance[c] + Documented(c)
    <3>1. \A c \in Cells : balance[c] = OpeningBalance[c] /\ OpeningBalance[c] \in Int
      BY OpeningIsStock DEF Init
    <3> QED BY <3>1, NothingDocumentedYet
  <2> QED BY <2>1, InitEstablishesLedger, NothingDocumentedYet DEF StockMatchesDocuments
<1>2. Matches /\ [Next]_vars => Matches'
  <2> SUFFICES ASSUME Matches, [Next]_vars PROVE Matches'
    OBVIOUS
  <2>1. LedgerInv' /\ StockInv /\ StockInv'
    BY NextKeepsLedger, NextKeepsInv DEF LedgerInv
  <2>2. ASSUME raced' = {}
        PROVE  Unraced' /\ StockMatchesDocuments'
    <3>1. ASSUME NEW p \in Requests, RequestStep(p)
          PROVE  Unraced' /\ StockMatchesDocuments'
      <4>1. Unraced /\ StockMatchesDocuments /\ Ledger(p)
        BY <2>2, <3>1, RacedGrows DEF LedgerInv
      <4>2. /\ Unraced'
            /\ \A c \in Cells : Documented(c)' =
                 Documented(c) + (IF Finish(p) THEN Effect(req[p].body)[c] ELSE 0)
        BY <2>1, <2>2, <3>1, <4>1, RequestKeepsCount
      <4>3. \A c \in Cells : /\ balance[c] = OpeningBalance[c] + Documented(c)
                             /\ balance[c] \in Int /\ OpeningBalance[c] \in Int
        BY <4>1, <2>1, OpeningIsStock DEF StockMatchesDocuments, StockInv, TablesInv, BalancesInv
      <4>4. CASE Finish(p)
        <5>1. \A c \in Cells : /\ balance'[c] = balance[c] + Effect(req[p].body)[c]
                               /\ Effect(req[p].body)[c] \in Int
          BY <2>1, <4>1, <4>4, FinishPosts
        <5>2. \A c \in Cells : Documented(c) \in Int
          BY <2>1, DocumentedIsInt DEF StockInv
        <5>3. \A c \in Cells : balance'[c] = OpeningBalance[c] + Documented(c)'
          BY <4>2, <4>3, <4>4, <5>1, <5>2
        <5> QED BY <4>2, <5>3 DEF StockMatchesDocuments
      <4>5. CASE ~Finish(p)
        <5>1. balance' = balance /\ \A c \in Cells : Documented(c)' = Documented(c)
          BY <3>1, <4>2, <4>5, <2>1, OthersPostNothing, DocumentedIsInt DEF StockInv
        <5> QED BY <4>1, <4>2, <5>1 DEF StockMatchesDocuments
      <4> QED BY <4>4, <4>5
    <3>2. ASSUME NEW d \in Docs, Create(d)
          PROVE  Unraced' /\ StockMatchesDocuments'
      <4>1. balance' = balance /\ raced' = raced
        BY <3>2 DEF Create, tables
      <4>2. Unraced' /\ \A c \in Cells : Documented(c)' = Documented(c)
        BY <2>1, <2>2, <3>2, <4>1, CreateKeepsCount
      <4> QED BY <2>2, <4>1, <4>2 DEF StockMatchesDocuments
    <3>3. CASE UNCHANGED vars
      <4>1. UNCHANGED <<balance, doc, req, raced>>
        BY <3>3 DEF vars, tables
      <4> QED BY <2>2, <4>1 DEF StockMatchesDocuments, Documented, Unraced, Open
    <3> QED BY <3>1, <3>2, <3>3 DEF Next
  <2> QED BY <2>1, <2>2
<1>3. Matches => StockMatchesUnracedDocuments
  BY DEF StockMatchesUnracedDocuments
<1> QED BY <1>1, <1>2, <1>3, PTL DEF Spec
-----------------------------------------------------------------------------
(* The moving average.                                                     *)

\* Dividing, and multiplying by a number that is not negative.
LEMMA DivisionBounds ==
  ASSUME NEW x \in Int, NEW d \in Int, d > 0
  PROVE  x \div d \in Int /\ d * (x \div d) <= x /\ x < d * (x \div d) + d
OBVIOUS

\* Products keep the order.
LEMMA ProductGrows ==
  ASSUME NEW d \in Int, d >= 0, NEW j \in Int, NEW k \in Int, j <= k
  PROVE  d * j \in Int /\ d * k \in Int /\ d * j <= d * k
OBVIOUS

\* Rounding half up stays between whole bounds of the quotient.
LEMMA RoundedBetween ==
  ASSUME NEW a \in Int, NEW b \in Int, b > 0, NEW lo \in Int, NEW hi \in Int,
         b * lo <= a, a <= b * hi
  PROVE  Rounded(a, b) \in Int /\ lo <= Rounded(a, b) /\ Rounded(a, b) <= hi
<1> DEFINE d == 2 * b
           x == 2 * a + b
           k == x \div d
<1>1. d \in Int /\ d > 0 /\ d >= 0 /\ x \in Int
  OBVIOUS
<1> HIDE DEF d, x
<1>2. k \in Int /\ d * k <= x /\ x < d * k + d
  BY <1>1, DivisionBounds
<1>3. Rounded(a, b) = k
  BY DEF Rounded, d, x
<1> HIDE DEF k
<1>4. lo <= k
  <2> SUFFICES ASSUME k + 1 <= lo PROVE FALSE
    BY <1>2
  <2>1. d * (k + 1) <= d * lo
    BY <1>1, <1>2, ProductGrows
  <2>2. d * (k + 1) = d * k + d
    BY <1>1, <1>2
  <2>3. d * lo = 2 * (b * lo)
    BY DEF d
  <2>4. b * lo \in Int /\ d * k \in Int
    BY <1>1, <1>2
  <2> QED BY <1>1, <1>2, <2>1, <2>2, <2>3, <2>4 DEF x
<1>5. k <= hi
  <2> SUFFICES ASSUME hi + 1 <= k PROVE FALSE
    BY <1>2
  <2>1. d * (hi + 1) <= d * k
    BY <1>1, <1>2, ProductGrows
  <2>2. d * (hi + 1) = 2 * (b * hi) + 2 * b
    BY DEF d
  <2>3. b * hi \in Int /\ d * k \in Int
    BY <1>1, <1>2
  <2> QED BY <1>1, <1>2, <2>1, <2>2, <2>3 DEF x
<1> QED BY <1>2, <1>3, <1>4, <1>5

\* The average of two prices lies between what both lie between.
LEMMA AverageBetween ==
  ASSUME NEW r, NEW line \in Line, r.total \in Int, r.price \in Int, r.total >= line.q,
         NEW lo \in Int, NEW hi \in Int, lo <= r.price, r.price <= hi,
         lo <= line.price, line.price <= hi
  PROVE  /\ AverageCost(r, line) \in Int
         /\ lo <= AverageCost(r, line) /\ AverageCost(r, line) <= hi
<1> DEFINE old == r.total - line.q
           q == line.q
           total == r.total
           price == r.price
           paid == line.price
           a == old * price + q * paid
<1>1. /\ old \in Int /\ q \in Int /\ total \in Int /\ price \in Int /\ paid \in Int
      /\ old >= 0 /\ q >= 0 /\ total = old + q
      /\ lo <= price /\ price <= hi /\ lo <= paid /\ paid <= hi
  BY DEF Line
<1>2. AverageCost(r, line) = IF total > 0 THEN Rounded(a, total) ELSE paid
  BY DEF AverageCost
<1> HIDE DEF old, q, total, price, paid
<1>3. /\ old * lo <= old * price /\ old * price <= old * hi
      /\ q * lo <= q * paid /\ q * paid <= q * hi
      /\ old * lo \in Int /\ old * price \in Int /\ old * hi \in Int
      /\ q * lo \in Int /\ q * paid \in Int /\ q * hi \in Int
  BY <1>1, ProductGrows
<1>4. total * lo = old * lo + q * lo /\ total * hi = old * hi + q * hi
  BY <1>1
<1>5. a \in Int /\ total * lo <= a /\ a <= total * hi
  BY <1>3, <1>4
<1> HIDE DEF a
<1>6. CASE total > 0
  BY <1>1, <1>2, <1>5, <1>6, RoundedBetween
<1>7. CASE ~(total > 0)
  BY <1>1, <1>2, <1>7
<1> QED BY <1>6, <1>7

\* A cost price between two prices that were paid.
Between(m, x) == \E lo, hi \in PricesPaid(m) : lo <= x /\ x <= hi

\* What is paid is a number.
LEMMA PricesAreNumbers == \A m : PricesPaid(m) \subseteq Nat
<1> SUFFICES ASSUME NEW m, NEW x \in PricesPaid(m) PROVE x \in Nat
  OBVIOUS
<1>1. CASE x = OpeningCost
  BY <1>1, OpeningIsStock
<1>2. ASSUME NEW dto \in Payloads["receipt"], NEW j \in DOMAIN dto.lines,
             x = dto.lines[j].price
      PROVE  x \in Nat
  <2>1. dto.lines \in Seq([m : Materials, q : Nat, price : Nat])
    BY PayloadsAreDtos DEF Dto, Kinds
  <2>2. dto.lines[j] \in [m : Materials, q : Nat, price : Nat]
    BY <2>1, ElementOfSeq, LenProperties
  <2> QED BY <1>2, <2>2
<1> QED BY <1>1, <1>2 DEF PricesPaid

\* A receipt's price joins the prices paid, and its average with them.
LEMMA AverageIsPaid ==
  ASSUME NEW r, NEW line \in Line, r.total \in Int, r.price \in Int, r.total >= line.q,
         Between(line.m, r.price), line.price \in PricesPaid(line.m)
  PROVE  AverageCost(r, line) \in Int /\ Between(line.m, AverageCost(r, line))
<1> DEFINE m == line.m
           paid == line.price
<1>1. PICK lo \in PricesPaid(m), hi \in PricesPaid(m) : lo <= r.price /\ r.price <= hi
  BY DEF Between
<1>2. lo \in Int /\ hi \in Int /\ paid \in Int
  BY PricesAreNumbers
<1>3. PICK low \in PricesPaid(m) : low \in Int /\ low <= r.price /\ low <= paid
  <2>1. CASE lo <= paid
    BY <1>1, <1>2, <2>1
  <2>2. CASE ~(lo <= paid)
    BY <1>1, <1>2, <2>2
  <2> QED BY <2>1, <2>2
<1>4. PICK high \in PricesPaid(m) : high \in Int /\ r.price <= high /\ paid <= high
  <2>1. CASE paid <= hi
    BY <1>1, <1>2, <2>1
  <2>2. CASE ~(paid <= hi)
    BY <1>1, <1>2, <2>2
  <2> QED BY <2>1, <2>2
<1>5. /\ AverageCost(r, line) \in Int
      /\ low <= AverageCost(r, line) /\ AverageCost(r, line) <= high
  BY <1>3, <1>4, AverageBetween
<1> QED BY <1>3, <1>4, <1>5 DEF Between

\* What a receipt has posted is not negative.
LEMMA ReceiptsAdd ==
  ASSUME NEW body \in Body, body.kind = "receipt", NEW i \in 0..Len(body.lines),
         NEW c \in Cells
  PROVE  PartOf(body, i, c) \in Int /\ PartOf(body, i, c) >= 0
<1> DEFINE n == Len(body.lines)
           f == EffectTerms(body, c)
<1>1. /\ n \in Nat /\ \A j \in 1..n : f[j] \in Int
      /\ \A j \in 1..n : f[j] = LineEffect(body, body.lines[j], c)
  BY EffectsAreInts
<1>2. \A j \in 1..n : body.lines[j] \in Line
  BY ElementOfSeq DEF Body
<1>3. \A j \in 1..n : LineEffect(body, body.lines[j], c) >= 0
  <2> SUFFICES ASSUME NEW j \in 1..n PROVE LineEffect(body, body.lines[j], c) >= 0
    OBVIOUS
  <2> DEFINE line == body.lines[j]
  <2>1. line \in Line /\ line.q \in Nat
    BY <1>2 DEF Line
  <2> HIDE DEF line
  <2>2. LineEffect(body, line, c) = IF c = <<body.to, line.m>> THEN line.q ELSE 0
    BY <2>1, LineEffectAt
  <2> QED BY <2>1, <2>2 DEF line
<1> HIDE DEF f, n
<1>4. \A j \in 1..i : f[j] \in Int /\ f[j] >= 0
  <2>1. \A j \in 1..i : j \in 1..n
    BY <1>1 DEF n
  <2> QED BY <1>1, <1>3, <2>1
<1>5. IsFiniteSet(1..i)
  BY FS_Interval
<1>6. SumFunctionOnSet(f, 1..i) >= 0
  BY <1>4, <1>5, SumAtLeast
<1>7. PartOf(body, i, c) \in Int
  BY PartsGrow
<1> QED BY <1>6, <1>7 DEF PartOf, f

\* The stock that is averaged over includes the line: the balance comes first.
LEMMA StockReadCovers ==
  ASSUME StockInv, NEW p \in Requests, Ledger(p), req[p].pc = "stock"
  PROVE  /\ StockEverywhere(p, LineOf(req[p]).m) \in Int
         /\ StockEverywhere(p, LineOf(req[p]).m) >= LineOf(req[p]).q
<1> DEFINE r == req[p]
           m == LineOf(r).m
           q == LineOf(r).q
           f == [w \in Warehouses |-> BalanceSeen(p, <<w, m>>)]
<1>1. /\ r.body \in Body /\ OnItsLine(r) /\ q \in Nat /\ m \in Materials
      /\ TargetOf(r) \in Cells /\ r.body.to \in Warehouses
      /\ TargetOf(r) = <<r.body.to, m>>
  BY RecordFields DEF StockInv, TargetOf
<1>2. r.body.kind = "receipt"
  BY DEF Ledger, OnItsKind
<1>3. r.i - 1 \in 0..Len(r.body.lines)
  BY <1>1, LenProperties DEF OnItsLine, Body
<1>4. PartOf(r.body, r.i - 1, TargetOf(r)) \in Int /\ PartOf(r.body, r.i - 1, TargetOf(r)) >= 0
  BY <1>1, <1>2, <1>3, ReceiptsAdd
<1>5. dBalance[p][TargetOf(r)] = PartOf(r.body, r.i - 1, TargetOf(r)) + q
  <2>1. Begun(r, TargetOf(r)) = q
    BY DEF Begun
  <2> QED BY <1>1, <2>1, LedgerOnLine
<1>6. \A w \in Warehouses : f[w] \in Int /\ f[w] >= 0
  <2> SUFFICES ASSUME NEW w \in Warehouses PROVE f[w] \in Int /\ f[w] >= 0
    OBVIOUS
  <2>1. <<w, m>> \in Cells
    BY <1>1 DEF Cells
  <2>2. BalanceSeen(p, <<w, m>>) \in Int /\ BalanceSeen(p, <<w, m>>) >= 0
    <3>1. \A c \in Cells : BalanceSeen(p, c) \in Int /\ BalanceSeen(p, c) >= 0
      <4>1. \A c \in Cells : balance[c] \in Int /\ dBalance[p][c] \in Int
        BY DEF StockInv, TablesInv, BalancesInv
      <4>2. \A c \in Cells : BalanceSeen(p, c) >= 0
        BY DEF StockInv, TablesInv, BalancesInv
      <4> QED BY <4>1, <4>2 DEF BalanceSeen
    <3> QED BY <2>1, <3>1
  <2> QED BY <2>2
<1>7. f[r.body.to] >= q
  <2>1. f[r.body.to] = balance[TargetOf(r)] + dBalance[p][TargetOf(r)]
    BY <1>1 DEF BalanceSeen
  <2>2. balance[TargetOf(r)] \in Int /\ balance[TargetOf(r)] >= 0
    BY <1>1 DEF StockInv, TablesInv, BalancesInv
  <2> HIDE DEF f, q, m, r
  <2> QED BY <1>1, <1>4, <1>5, <2>1, <2>2
<1>8. StockEverywhere(p, m) = SumFunctionOnSet(f, Warehouses)
  BY DEF StockEverywhere, SumFunction
<1> HIDE DEF f, m, q, r
<1>9. SumFunctionOnSet(f, Warehouses) >= f[r.body.to]
  BY <1>1, <1>6, TablesAreFinite, SumAtLeast
<1>10. SumFunctionOnSet(f, Warehouses) \in Int
  BY <1>6, TablesAreFinite, SumIsInt
<1>11. StockEverywhere(p, m) \in Int /\ StockEverywhere(p, m) >= q
  BY <1>1, <1>6, <1>7, <1>8, <1>9, <1>10
<1> QED BY <1>11 DEF m, q, r

\* The prices of a receipt are among the prices paid.
Priced(body) ==
  body.kind = "receipt" =>
    \A j \in DOMAIN body.lines : body.lines[j].price \in PricesPaid(body.lines[j].m)

\* Cost prices, committed or pending, and what a request has read of them.
CostRowsInv ==
  /\ CostsTypeOK
  /\ \A m \in Materials : Between(m, cost[m])
  /\ \A p \in Requests, m \in Materials :
       <<"cost", m>> \in holds[p] => Between(m, dCost[p][m])
CostReadOK(p) ==
  /\ req[p].pc \in {"stock", "average"} => Between(LineOf(req[p]).m, costRead[p].price)
  /\ req[p].pc = "average" => costRead[p].total >= LineOf(req[p]).q
  /\ Priced(req[p].body)
CostsInv ==
  /\ CostRowsInv
  /\ costRead \in [Requests -> [price : Int, total : Int]]
  /\ \A p \in Requests : CostReadOK(p)
  /\ \A d \in Docs : Priced(doc[d].body)

\* A step that leaves the cost rows alone; its request does not average.
LEMMA CostsAside ==
  ASSUME CostsInv, NEW p \in Requests, cost' = cost, dCost' = dCost, costRead' = costRead,
         \A q \in Requests, m \in Materials :
           <<"cost", m>> \in holds'[q] => <<"cost", m>> \in holds[q],
         \A q \in Requests \ {p} : req'[q] = req[q],
         req'[p].pc \notin {"stock", "average"}, Priced(req'[p].body),
         \A d \in Docs : Priced(doc'[d].body)
  PROVE  CostsInv'
<1>1. CostRowsInv'
  BY DEF CostsInv, CostRowsInv, CostsTypeOK, Between
<1>2. ASSUME NEW q \in Requests
      PROVE  CostReadOK(q)'
  <2>1. CASE q = p
    BY <2>1 DEF CostReadOK
  <2>2. CASE q # p
    BY <2>2 DEF CostReadOK, CostsInv
  <2> QED BY <2>1, <2>2
<1> QED BY <1>1, <1>2 DEF CostsInv

\* What a client sends for a receipt is priced, by definition of what is paid.
LEMMA FilledIsPriced ==
  ASSUME NEW kind, NEW dto \in Payloads[kind], NEW old
  PROVE  Priced(Filled(kind, dto, old))
<1> SUFFICES ASSUME kind = "receipt", NEW j \in DOMAIN dto.lines
             PROVE  dto.lines[j].price \in PricesPaid(dto.lines[j].m)
  BY DEF Priced, Filled
<1> QED BY DEF PricesPaid

\* Requests begin with priced bodies, and the documents stay priced.
LEMMA BeginsKeepCosts ==
  ASSUME StockInv, CostsInv, NEW p \in Requests, NEW d \in Docs, BeginOn(p, d)
  PROVE  CostsInv'
<1>1. PICK op, body : Begin(p, op, d, body) /\ Priced(body)
  <2>1. Priced(doc[d].body)
    BY DEF CostsInv
  <2>2. CASE BeginConfirm(p, d) \/ BeginCancel(p, d) \/ BeginRemove(p, d)
    BY <2>1, <2>2 DEF BeginConfirm, BeginCancel, BeginRemove
  <2>3. CASE BeginUpdate(p, d)
    BY <2>3, FilledIsPriced DEF BeginUpdate
  <2> QED BY <2>2, <2>3 DEF BeginOn
<1> DEFINE pc == IF op # "confirm" THEN "write"
                 ELSE IF body.kind \in {"issue", "transfer"} THEN "check" ELSE "line"
           r == [Idle EXCEPT !.op = op, !.d = d, !.body = body, !.pc = pc]
<1>2. r.pc \notin {"stock", "average"} /\ r.body = body
  BY DEF Idle
<1>3. /\ req' = [req EXCEPT ![p] = r]
      /\ UNCHANGED <<cost, holds, dCost, costRead, doc>>
  BY <1>1 DEF Begin, tables, pending
<1> HIDE DEF r
<1>4. req'[p] = r /\ \A q \in Requests \ {p} : req'[q] = req[q]
  BY <1>3 DEF StockInv, RequestsInv
<1>5. \A e \in Docs : Priced(doc'[e].body)
  BY <1>3 DEF CostsInv
<1> QED BY <1>1, <1>2, <1>3, <1>4, <1>5, CostsAside

\* The statements of confirm, without those of the cost price.
LEMMA StatementsKeepCosts ==
  ASSUME StockInv, CostsInv, NEW p \in Requests, Confirming(p), ~Finish(p),
         ~ReadCost(p), ~ReadStock(p), ~WriteAverage(p)
  PROVE  CostsInv'
<1>1. /\ doc' = doc /\ req'[p].body = req[p].body
      /\ \A q \in Requests \ {p} : req'[q] = req[q]
  BY StatementsKeepDocument
<1>2. UNCHANGED <<cost, dCost, costRead>>
  BY DEF Confirming, CheckStock, ReadLots, Debit, CreditTarget, CreditSurplus,
     CreditReceipt, TakeLot, tables, pending
<1>3. \A q \in Requests, m \in Materials :
        <<"cost", m>> \in holds'[q] => <<"cost", m>> \in holds[q]
  <2>1. \/ holds' = holds
        \/ \E c : Hold(p, <<"balance", c>>)
        \/ \E l : Hold(p, <<"lot", l>>)
    BY DEF Confirming, CheckStock, ReadLots, Debit, CreditTarget, CreditSurplus,
       CreditReceipt, TakeLot, DebitBalance, CreditBalance, DecrementLot, pending
  <2>2. holds \in [Requests -> SUBSET Rows]
    BY DEF StockInv, TablesInv, LocksInv
  <2> QED BY <2>1, <2>2 DEF Hold
<1>4. req'[p].pc \notin {"stock", "average"}
  <2>1. req[p] \in Request /\ OnItsLine(req[p]) /\ req \in [Requests -> Request]
    BY StatementsKeepDocument DEF StockInv, RequestsInv
  <2>2. CASE CheckStock(p) \/ CreditTarget(p) \/ CreditSurplus(p)
    <3>1. PICK here \in {"check", "line"}, next \in {"line", "finish"} :
                 req'[p] = After(req[p], here, next)
      BY <2>1, <2>2 DEF CheckStock, CreditTarget, CreditSurplus, NextLine
    <3>2. here \in Steps /\ next \in Steps
      BY DEF Steps
    <3>3. After(req[p], here, next).pc \in {here, next}
      BY <2>1, <3>2, AfterFields
    <3> QED BY <3>1, <3>3
  <2>3. CASE ReadLots(p) \/ CreditReceipt(p)
    BY <2>1, <2>3 DEF ReadLots, CreditReceipt, Goto, Request
  <2>4. CASE \E l \in LotIds : TakeLot(p, l)
    BY <2>1, <2>4 DEF TakeLot, Request
  <2>5. CASE Debit(p)
    <3> DEFINE drained == [req[p] EXCEPT !.read = NothingTaken]
    <3>1. drained \in Request /\ OnItsLine(drained)
      BY <2>1 DEF Request, NothingTaken, OnItsLine
    <3>2. req'[p] = IF Is(p, "transfer") THEN [drained EXCEPT !.pc = "credit"]
                    ELSE After(drained, "line", "finish")
      BY <2>1, <2>5 DEF Debit
    <3> HIDE DEF drained
    <3>3. [drained EXCEPT !.pc = "credit"].pc = "credit"
      BY <3>1 DEF Request
    <3>4. After(drained, "line", "finish").pc \in {"line", "finish"}
      BY <3>1, AfterFields DEF Steps
    <3> QED BY <3>2, <3>3, <3>4
  <2> QED BY <2>2, <2>3, <2>4, <2>5 DEF Confirming
<1>5. Priced(req'[p].body) /\ \A d \in Docs : Priced(doc'[d].body)
  BY <1>1 DEF CostsInv, CostReadOK
<1> QED BY <1>1, <1>2, <1>3, <1>4, <1>5, CostsAside

\* What a transaction sees of a cost price lies between the prices paid.
LEMMA CostSeenIsBetween ==
  ASSUME CostsInv, NEW p \in Requests, NEW m \in Materials
  PROVE  CostSeen(p, m) \in Int /\ Between(m, CostSeen(p, m))
BY DEF CostsInv, CostRowsInv, CostsTypeOK, CostSeen

\* updateAverageCostPrice reads the price, then the stock that covers the line.
LEMMA CostReadsKeepCosts ==
  ASSUME StockInv, CostsInv, NEW p \in Requests, Ledger(p), ReadCost(p) \/ ReadStock(p)
  PROVE  CostsInv'
<1> DEFINE old == req[p]
           r == req'[p]
           m == LineOf(old).m
<1>1. /\ old \in Request /\ m \in Materials /\ Current(p) = LineOf(old)
      /\ req \in [Requests -> Request]
  BY RecordFields DEF StockInv, RequestsInv, ReadCost, ReadStock
<1>2. /\ r.body = old.body /\ LineOf(r) = LineOf(old) /\ r.pc \in {"stock", "average"}
      /\ \A q \in Requests \ {p} : req'[q] = req[q]
      /\ UNCHANGED <<cost, holds, dCost, doc>>
  <2>1. PICK pc \in {"stock", "average"} : req' = [req EXCEPT ![p].pc = pc]
    BY DEF ReadCost, ReadStock, Goto
  <2>2. /\ r = [old EXCEPT !.pc = pc]
        /\ \A q \in Requests \ {p} : req'[q] = req[q]
    BY <1>1, <2>1
  <2>3. r.body = old.body /\ r.pc = pc /\ r.i = old.i
    BY <1>1, <2>2 DEF Request
  <2>4. LineOf(r) = LineOf(old)
    BY <2>3 DEF LineOf
  <2>5. UNCHANGED <<cost, holds, dCost, doc>>
    BY DEF ReadCost, ReadStock, tables, pending
  <2> QED BY <2>2, <2>3, <2>4, <2>5
<1>3. CostRowsInv'
  BY <1>2 DEF CostsInv, CostRowsInv, CostsTypeOK, Between
<1>4. /\ costRead' \in [Requests -> [price : Int, total : Int]]
      /\ \A q \in Requests \ {p} : costRead'[q] = costRead[q]
      /\ Between(m, costRead'[p].price)
      /\ r.pc = "average" => costRead'[p].total >= LineOf(old).q
  <2>1. costRead \in [Requests -> [price : Int, total : Int]]
    BY DEF CostsInv
  <2>2. CASE ReadCost(p)
    <3> DEFINE seen == CostSeen(p, m)
    <3>1. seen \in Int /\ Between(m, seen)
      BY <1>1, CostSeenIsBetween
    <3>2. costRead' = [costRead EXCEPT ![p].price = seen] /\ r.pc = "stock"
      BY <1>1, <2>2 DEF ReadCost, Goto
    <3> HIDE DEF seen
    <3> QED BY <2>1, <3>1, <3>2
  <2>3. CASE ReadStock(p)
    <3> DEFINE total == StockEverywhere(p, m)
    <3>1. total \in Int /\ total >= LineOf(old).q
      BY <2>3, StockReadCovers DEF ReadStock
    <3>2. costRead' = [costRead EXCEPT ![p].total = total]
      BY <1>1, <2>3 DEF ReadStock
    <3>3. Between(m, costRead[p].price)
      BY <2>3 DEF CostsInv, CostReadOK, ReadStock
    <3> HIDE DEF total
    <3> QED BY <2>1, <3>1, <3>2, <3>3
  <2> QED BY <2>2, <2>3
<1>5. ASSUME NEW q \in Requests
      PROVE  CostReadOK(q)'
  <2>1. CASE q = p
    BY <1>2, <1>4, <2>1 DEF CostReadOK, CostsInv
  <2>2. CASE q # p
    BY <1>2, <1>4, <2>2 DEF CostReadOK, CostsInv
  <2> QED BY <2>1, <2>2
<1> QED BY <1>2, <1>3, <1>4, <1>5 DEF CostsInv

\* The average that is written lies between them too.
LEMMA WriteAverageKeepsCosts ==
  ASSUME StockInv, CostsInv, NEW p \in Requests, Ledger(p), WriteAverage(p)
  PROVE  CostsInv'
<1> DEFINE old == req[p]
           line == LineOf(old)
           m == line.m
           average == AverageCost(costRead[p], line)
<1>1. /\ old \in Request /\ line \in Line /\ m \in Materials /\ Current(p) = line
      /\ req \in [Requests -> Request] /\ OnItsLine(old) /\ old.body \in Body
  BY RecordFields DEF StockInv, RequestsInv, WriteAverage
<1>2. old.pc = "average" /\ old.body.kind = "receipt"
  BY DEF WriteAverage, Ledger, OnItsKind
<1>3. line.price \in PricesPaid(m)
  <2>1. old.i \in DOMAIN old.body.lines
    BY <1>1, LenProperties DEF OnItsLine, Body
  <2> QED BY <1>2, <2>1 DEF CostsInv, CostReadOK, Priced, LineOf
<1>4. average \in Int /\ Between(m, average)
  <2>1. /\ costRead[p].price \in Int /\ costRead[p].total \in Int
        /\ Between(m, costRead[p].price) /\ costRead[p].total >= line.q
    BY <1>2 DEF CostsInv, CostReadOK
  <2> HIDE DEF line
  <2> QED BY <1>1, <1>3, <2>1, AverageIsPaid
<1>5. /\ WriteCostPrice(p, m, average) /\ NextLine(p)
      /\ costRead' = [costRead EXCEPT ![p] = NothingRead] /\ cost' = cost /\ doc' = doc
  BY <1>1 DEF WriteAverage
<1> HIDE DEF average
<1>6. /\ \A q \in Requests \ {p} : req'[q] = req[q]
      /\ req'[p].body = old.body /\ req'[p].pc \in {"line", "finish"}
  <2>1. "line" \in Steps /\ "finish" \in Steps
    BY DEF Steps
  <2>2. /\ After(old, "line", "finish").body = old.body
        /\ After(old, "line", "finish").pc \in {"line", "finish"}
    BY <1>1, <2>1, AfterFields
  <2>3. req' = [req EXCEPT ![p] = After(old, "line", "finish")]
    BY <1>5 DEF NextLine
  <2> QED BY <1>1, <2>2, <2>3
<1>7. CostRowsInv'
  <2>1. CostsTypeOK /\ holds \in [Requests -> SUBSET Rows]
    BY DEF CostsInv, CostRowsInv, StockInv, TablesInv, LocksInv
  <2>2. dCost' = [dCost EXCEPT ![p][m] = average]
        /\ holds' = [holds EXCEPT ![p] = @ \cup {<<"cost", m>>}]
    BY <1>5 DEF WriteCostPrice, Hold
  <2>3. CostsTypeOK'
    BY <1>1, <1>4, <1>5, <2>1, <2>2 DEF CostsTypeOK
  <2>4. ASSUME NEW q \in Requests, NEW n \in Materials, <<"cost", n>> \in holds'[q]
        PROVE  Between(n, dCost'[q][n])
    <3>1. CASE q = p /\ n = m
      <4>1. dCost'[q][n] = average
        BY <1>1, <2>1, <2>2, <3>1 DEF CostsTypeOK
      <4> QED BY <1>4, <3>1, <4>1
    <3>2. CASE ~(q = p /\ n = m)
      <4>1. dCost'[q][n] = dCost[q][n]
        BY <1>1, <2>1, <2>2, <3>2 DEF CostsTypeOK
      <4>2. <<"cost", n>> \in holds[q]
        BY <2>1, <2>2, <2>4, <3>2
      <4> QED BY <4>1, <4>2 DEF CostsInv, CostRowsInv
    <3> QED BY <3>1, <3>2
  <2>5. \A n \in Materials : Between(n, cost'[n])
    BY <1>5 DEF CostsInv, CostRowsInv
  <2> QED BY <2>3, <2>4, <2>5 DEF CostRowsInv, Between
<1>8. ASSUME NEW q \in Requests
      PROVE  CostReadOK(q)'
  <2>1. CASE q = p
    BY <1>6, <2>1 DEF CostReadOK, CostsInv
  <2>2. CASE q # p
    <3>1. costRead'[q] = costRead[q]
      BY <1>5, <2>2 DEF CostsInv
    <3> QED BY <1>6, <2>2, <3>1 DEF CostReadOK, CostsInv
  <2> QED BY <2>1, <2>2
<1>9. costRead' \in [Requests -> [price : Int, total : Int]]
  BY <1>5 DEF CostsInv, NothingRead
<1> QED BY <1>5, <1>7, <1>8, <1>9 DEF CostsInv

\* A document that is created is priced as its client sent it.
LEMMA CreateKeepsCosts ==
  ASSUME StockInv, CostsInv, NEW d \in Docs, Create(d)
  PROVE  CostsInv'
<1>1. PICK kind \in Kinds : \E dto \in Payloads[kind] :
        doc' = [doc EXCEPT ![d] = [status |-> "DRAFT", deleted |-> FALSE,
                                   body |-> Filled(kind, dto, <<>>)]]
  BY DEF Create
<1>2. PICK dto \in Payloads[kind] :
        doc' = [doc EXCEPT ![d] = [status |-> "DRAFT", deleted |-> FALSE,
                                   body |-> Filled(kind, dto, <<>>)]]
  BY <1>1
<1> DEFINE body == Filled(kind, dto, <<>>)
<1>3. Priced(body)
  BY FilledIsPriced
<1>0. doc' = [doc EXCEPT ![d] = [status |-> "DRAFT", deleted |-> FALSE, body |-> body]]
  BY <1>2
<1> HIDE DEF body
<1>4. \A e \in Docs : doc'[e].body = IF e = d THEN body ELSE doc[e].body
  BY <1>0 DEF StockInv, DocsInv
<1>5. \A e \in Docs : Priced(doc'[e].body)
  BY <1>3, <1>4 DEF CostsInv
<1>6. UNCHANGED <<cost, dCost, costRead, holds, req>>
  BY DEF Create, tables, pending
<1>7. CostRowsInv'
  BY <1>6 DEF CostsInv, CostRowsInv, CostsTypeOK, Between
<1>8. \A q \in Requests : CostReadOK(q)'
  BY <1>6 DEF CostsInv, CostReadOK
<1> QED BY <1>5, <1>6, <1>7, <1>8 DEF CostsInv

\* A request that is idle has nothing to average and no lines to price.
LEMMA IdleIsPriced == Priced(Idle.body) /\ Idle.pc = "idle"
BY DEF Priced, Idle, NoBody

\* An update stores what its client sent; cancel and remove keep the lines.
LEMMA WriteKeepsCosts ==
  ASSUME StockInv, CostsInv, NEW p \in Requests, Write(p)
  PROVE  CostsInv'
<1>1. /\ req' = [req EXCEPT ![p] = Idle]
      /\ UNCHANGED <<cost, dCost, costRead, holds>>
  BY DEF Write, tables, pending
<1>2. req'[p] = Idle /\ \A q \in Requests \ {p} : req'[q] = req[q]
  BY <1>1 DEF StockInv, RequestsInv
<1>3. \A e \in Docs : doc'[e].body = doc[e].body \/ doc'[e].body = req[p].body
  BY DEF Write, StockInv, DocsInv
<1>4. Priced(req[p].body) /\ \A e \in Docs : Priced(doc[e].body)
  BY DEF CostsInv, CostReadOK
<1>5. \A e \in Docs : Priced(doc'[e].body)
  BY <1>3, <1>4
<1> QED BY <1>1, <1>2, <1>5, IdleIsPriced, CostsAside

\* A commit publishes the prices that the request sees.
LEMMA FinishKeepsCosts ==
  ASSUME StockInv, CostsInv, NEW p \in Requests, Finish(p)
  PROVE  CostsInv'
<1>1. /\ req'[p] = Idle /\ \A q \in Requests \ {p} : req'[q] = req[q]
      /\ costRead' = costRead /\ CommitTx(p)
  BY DEF Finish, StockInv, RequestsInv
<1>2. \A e \in Docs : doc'[e].body = doc[e].body
  BY DEF Finish, StockInv, DocsInv
<1>3. /\ cost' = [m \in Materials |-> CostSeen(p, m)]
      /\ holds' = [holds EXCEPT ![p] = {}]
      /\ dCost' = [dCost EXCEPT ![p] = [m \in Materials |-> 0]]
  BY <1>1 DEF CommitTx, DropPending
<1>4. \A m \in Materials : cost'[m] = CostSeen(p, m)
  BY <1>3
<1>5. CostRowsInv'
  <2>1. CostsTypeOK /\ holds \in [Requests -> SUBSET Rows]
    BY DEF CostsInv, CostRowsInv, StockInv, TablesInv, LocksInv
  <2>2. \A m \in Materials : cost'[m] \in Int /\ Between(m, cost'[m])
    BY <1>4, CostSeenIsBetween
  <2>3. CostsTypeOK'
    BY <1>3, <2>1, <2>2 DEF CostsTypeOK
  <2>4. ASSUME NEW q \in Requests, NEW m \in Materials, <<"cost", m>> \in holds'[q]
        PROVE  Between(m, dCost'[q][m])
    <3>1. q # p
      BY <1>3, <2>1, <2>4
    <3>2. holds'[q] = holds[q] /\ dCost'[q] = dCost[q]
      BY <1>3, <2>1, <3>1 DEF CostsTypeOK
    <3> QED BY <2>4, <3>2 DEF CostsInv, CostRowsInv
  <2> QED BY <2>2, <2>3, <2>4 DEF CostRowsInv, Between
<1>6. ASSUME NEW q \in Requests
      PROVE  CostReadOK(q)'
  <2>1. CASE q = p
    <3>1. req'[q].pc = "idle" /\ Priced(req'[q].body)
      BY <1>1, <2>1, IdleIsPriced
    <3> QED BY <3>1 DEF CostReadOK
  <2>2. CASE q # p
    BY <1>1, <2>2 DEF CostReadOK, CostsInv
  <2> QED BY <2>1, <2>2
<1>7. \A e \in Docs : Priced(doc'[e].body)
  BY <1>2 DEF CostsInv
<1> QED BY <1>1, <1>5, <1>6, <1>7 DEF CostsInv

\* A rollback forgets the prices that were not committed.
LEMMA RollBackKeepsCosts ==
  ASSUME StockInv, CostsInv, NEW p \in Requests, RollBack(p)
  PROVE  CostsInv'
<1>1. /\ req'[p] = Idle /\ \A q \in Requests \ {p} : req'[q] = req[q]
      /\ costRead' = [costRead EXCEPT ![p] = NothingRead] /\ doc' = doc /\ cost' = cost
      /\ holds' = [holds EXCEPT ![p] = {}]
      /\ dCost' = [dCost EXCEPT ![p] = [m \in Materials |-> 0]]
  BY DEF RollBack, RollbackTx, DropPending, StockInv, RequestsInv
<1>2. costRead \in [Requests -> [price : Int, total : Int]]
  BY DEF CostsInv
<1>3. costRead' \in [Requests -> [price : Int, total : Int]]
  BY <1>1, <1>2 DEF NothingRead
<1>4. CostRowsInv'
  <2>1. CostsTypeOK /\ holds \in [Requests -> SUBSET Rows]
    BY DEF CostsInv, CostRowsInv, StockInv, TablesInv, LocksInv
  <2>2. CostsTypeOK'
    BY <1>1, <2>1 DEF CostsTypeOK
  <2>3. ASSUME NEW q \in Requests, NEW m \in Materials, <<"cost", m>> \in holds'[q]
        PROVE  Between(m, dCost'[q][m])
    <3>1. q # p
      BY <1>1, <2>1, <2>3
    <3>2. holds'[q] = holds[q] /\ dCost'[q] = dCost[q]
      BY <1>1, <2>1, <3>1 DEF CostsTypeOK
    <3> QED BY <2>3, <3>2 DEF CostsInv, CostRowsInv
  <2>4. \A m \in Materials : Between(m, cost'[m])
    BY <1>1 DEF CostsInv, CostRowsInv
  <2> QED BY <2>2, <2>3, <2>4 DEF CostRowsInv, Between
<1>5. ASSUME NEW q \in Requests
      PROVE  CostReadOK(q)'
  <2>1. CASE q = p
    <3>1. req'[q].pc = "idle" /\ Priced(req'[q].body)
      BY <1>1, <2>1, IdleIsPriced
    <3> QED BY <3>1 DEF CostReadOK
  <2>2. CASE q # p
    <3>1. costRead'[q] = costRead[q] /\ req'[q] = req[q]
      BY <1>1, <1>2, <2>2
    <3> QED BY <2>2, <3>1 DEF CostReadOK, CostsInv
  <2> QED BY <2>1, <2>2
<1>6. \A e \in Docs : Priced(doc'[e].body)
  BY <1>1 DEF CostsInv
<1> QED BY <1>3, <1>4, <1>5, <1>6 DEF CostsInv

\* Every step of a request keeps the costs.
LEMMA RequestKeepsCosts ==
  ASSUME StockInv, CostsInv, NEW p \in Requests, Ledger(p), RequestStep(p) \/ RollBack(p)
  PROVE  CostsInv'
<1>1. CASE \E d \in Docs : BeginOn(p, d)
  BY <1>1, BeginsKeepCosts
<1>2. CASE RollBack(p)
  BY <1>2, RollBackKeepsCosts
<1>3. CASE Write(p)
  BY <1>3, WriteKeepsCosts
<1>4. CASE Finish(p)
  BY <1>4, FinishKeepsCosts
<1>5. CASE ReadCost(p) \/ ReadStock(p)
  BY <1>5, CostReadsKeepCosts
<1>6. CASE WriteAverage(p)
  BY <1>6, WriteAverageKeepsCosts
<1>7. CASE Confirming(p) /\ ~Finish(p) /\ ~ReadCost(p) /\ ~ReadStock(p) /\ ~WriteAverage(p)
  BY <1>7, StatementsKeepCosts
<1>8. Reject(p) \/ Abort(p) \/ DeadlockVictim(p) => RollBack(p)
  BY DEF Reject, Abort, DeadlockVictim
<1> QED BY <1>1, <1>2, <1>3, <1>4, <1>5, <1>6, <1>7, <1>8 DEF RequestStep, Proceed

\* Costs start at the opening price.
LEMMA InitEstablishesCosts == Init => CostsInv
<1> SUFFICES ASSUME Init PROVE CostsInv
  OBVIOUS
<1>1. \A m : OpeningCost \in PricesPaid(m) /\ OpeningCost \in Nat
  BY OpeningIsStock DEF PricesPaid
<1>2. CostRowsInv
  <2>1. CostsTypeOK
    <3>1. cost = [m \in Materials |-> OpeningCost] /\ OpeningCost \in Int
      BY <1>1 DEF Init
    <3>2. dCost = [p \in Requests |-> [m \in Materials |-> 0]]
      BY DEF Init
    <3>3. [m \in Materials |-> 0] \in [Materials -> Int]
      OBVIOUS
    <3>4. dCost \in [Requests -> [Materials -> Int]]
      BY <3>2, <3>3
    <3> QED BY <3>1, <3>4 DEF CostsTypeOK
  <2>2. \A m \in Materials : cost[m] = OpeningCost
    BY DEF Init
  <2>3. \A m \in Materials : Between(m, cost[m])
    BY <1>1, <2>2 DEF Between
  <2>4. \A p \in Requests : holds[p] = {}
    BY DEF Init
  <2> QED BY <2>1, <2>3, <2>4 DEF CostRowsInv
<1>3. costRead \in [Requests -> [price : Int, total : Int]]
  BY DEF Init, NothingRead
<1>4. \A p \in Requests : CostReadOK(p)
  <2>1. \A p \in Requests : req[p] = Idle
    BY DEF Init
  <2> QED BY <2>1, IdleIsPriced DEF CostReadOK
<1>5. \A d \in Docs : Priced(doc[d].body)
  BY DEF Init, Priced, NoBody
<1> QED BY <1>2, <1>3, <1>4, <1>5 DEF CostsInv

\* Every step of the system keeps the costs, while the ledger holds.
LEMMA NextKeepsCosts == LedgerInv /\ CostsInv /\ [Next]_vars => CostsInv'
<1> SUFFICES ASSUME LedgerInv, CostsInv, [Next]_vars PROVE CostsInv'
  OBVIOUS
<1>1. CASE \E d \in Docs : Create(d)
  BY <1>1, CreateKeepsCosts DEF LedgerInv
<1>2. CASE \E p \in Requests : RequestStep(p)
  BY <1>2, RequestKeepsCosts DEF LedgerInv
<1>3. CASE UNCHANGED vars
  <2>1. UNCHANGED <<cost, dCost, costRead, holds, req, doc>>
    BY <1>3 DEF vars, tables, pending
  <2> QED BY <2>1 DEF CostsInv, CostRowsInv, CostReadOK, CostsTypeOK, Between
<1> QED BY <1>1, <1>2, <1>3 DEF Next

\* The costs' invariant holds throughout.
THEOREM CostsStayPaid == Spec => []CostsInv
<1>1. Init => CostsInv
  BY InitEstablishesCosts
<1>2. LedgerInv /\ CostsInv /\ [Next]_vars => CostsInv'
  BY NextKeepsCosts
<1> QED BY <1>1, <1>2, StockLedger, PTL DEF Spec

\* updateAverageCostPrice keeps every cost price between the lowest and the
\* highest price paid, for any receipts and any interleaving of confirms,
\* although it reads and writes without a lock.
THEOREM CostStaysWithinPrices == Spec => []CostWithinPricesPaid
<1>1. CostsInv => CostWithinPricesPaid
  BY DEF CostsInv, CostRowsInv, Between, CostWithinPricesPaid
<1> QED BY <1>1, CostsStayPaid, PTL

\* Tables, costs, documents and requests keep their types.
THEOREM DocumentsKeepTypes == Spec => []TypeOK
<1>1. CostsInv /\ TablesTypeOK /\ DocumentsTypeOK => TypeOK
  BY DEF CostsInv, CostRowsInv, TypeOK
<1> QED BY <1>1, CostsStayPaid, StockTypes, PTL
=============================================================================
