CONSTANTS
  w1 = w1
  w2 = w2
  m1 = m1
  Warehouses = {w1, w2}
  Materials = {m1}
  Requests = {p1, p2}
  Projects = {}
  Docs = {d1, d2}
  NoDoc = NoDoc
  LotIds <- MCLotIds
  Payloads <- MCPayloads
  Operations = {"confirm", "update", "cancel", "remove"}
  OpeningLots <- MCOpeningLots
  OpeningBalance <- MCOpeningBalance
  OpeningCost = 4
SYMMETRY MCSymmetry
SPECIFICATION Spec
INVARIANTS
  TypeOK
  NoNegativeStock
  LotsBackBalance
  StockMatchesUnracedDocuments
  CostWithinPricesPaid
PROPERTIES
  PostsWholeDocuments
  TransfersKeepDatedStock
CHECK_DEADLOCK FALSE
